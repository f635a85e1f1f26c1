-------------------------- MODULE ServiceCallsProofs --------------------------
(***************************************************************************)
(* Proofs about ServiceCalls for any calls, methods, capacities and stuck  *)
(* writers: types, the slot behind every process, whole files, the writer  *)
(* left alone, and the limiter's point of view (SlotPool).  The inductive  *)
(* invariant says, station by station, which slot a call holds and what    *)
(* its process, its copy and its files can be.  No action touches the      *)
(* state of another call, so every step is checked for its own call only.  *)
(***************************************************************************)
EXTENDS ServiceCalls, TLAPS

(* The slot a call holds at each station; a job keeps its slot past its     *)
(* return for as long as its process can exist.                             *)
Held(c) == {k \in Classes : c \in holders[k]}

Paid(c) ==
  /\ pc[c] \in {"idle", "gate", "wait_probe", "wait"} => Held(c) = {}
  /\ pc[c] \in {"probe", "measuring"} => Held(c) = {"probe"}
  /\ pc[c] \in {"start", "running", "rename"} => Held(c) = {class[c]}
  /\ Over(c) => Held(c) \subseteq {class[c]}
  /\ Over(c) /\ proc[c] = "running" => Held(c) = {class[c]}

(* There is a process only where the call runs one, or behind a job. *)
Spawned(c) ==
  /\ pc[c] \in {"idle", "gate", "wait_probe", "probe", "wait", "start"} => proc[c] = "none"
  /\ pc[c] = "rename" => proc[c] = "ok"
  /\ Over(c) /\ Via(c) # "job" => proc[c] # "running"
  /\ Over(c) /\ proc[c] = "killed" /\ Via(c) = "job" => Held(c) = {class[c]}

(* The output is being copied only while the call waits for it, or after a  *)
(* stream was abandoned.                                                    *)
Copied(c) ==
  copier[c] = "active" => \/ pc[c] = "running" /\ Copies(c)
                          \/ Over(c) /\ Via(c) = "pipe"

(* The files: partial only while a screenshot runs, replaced only with the  *)
(* result, temporary only while the call that made it is there.             *)
Filed(c) ==
  /\ pc[c] = "idle" => dest[c] = "old" /\ method[c] = NoMethod
  /\ ~Over(c) => result[c] = "none"
  /\ c \in temps => pc[c] \in {"running", "rename"} /\ UsesTemp(c)
  /\ dest[c] = "partial" => pc[c] = "running" /\ Via(c) = "shot"
  /\ pc[c] = "rename" => Via(c) = "file"
  /\ Via(c) = "file" => dest[c] = (IF result[c] = "ok" THEN "whole" ELSE "old")
  /\ Via(c) = "shot" /\ result[c] = "ok" => dest[c] = "whole"

CallOk(c) == Paid(c) /\ Spawned(c) /\ Copied(c) /\ Filed(c)

IInv == TypeOK /\ \A c \in Calls : CallOk(c)

(* What a step of another call leaves of this one. *)
Untouched(d) ==
  /\ method'[d] = method[d] /\ class'[d] = class[d] /\ pc'[d] = pc[d]
  /\ result'[d] = result[d] /\ proc'[d] = proc[d] /\ copier'[d] = copier[d]
  /\ dest'[d] = dest[d]
  /\ \A k \in Classes : d \in holders'[k] <=> d \in holders[k]
  /\ d \in temps' <=> d \in temps

CallStep(c) ==
  \/ \E m \in Methods, k \in Classes : Request(c, m, k)
  \/ Step(c)
  \/ World(c)

-----------------------------------------------------------------------------
LEMMA OutcomeTyped ==
  ASSUME TypeOK, NEW c \in Calls, NEW outcome \in {"ok", "err"}, Return(c, outcome)
  PROVE  /\ pc' \in [Calls -> Stations] /\ result' \in [Calls -> {"none", "ok", "err"}]
         /\ holders' \in [Classes -> SUBSET Calls] /\ temps' \subseteq Calls
  BY DEF Return, TypeOK, Stations

LEMMA StepTyped ==
  ASSUME TypeOK, NEW c \in Calls, CallStep(c)
  PROVE  TypeOK'
  <1>1. ASSUME NEW m \in Methods, NEW k \in Classes, Request(c, m, k) PROVE TypeOK'
      BY <1>1 DEF Request, Goto, TypeOK, Stations
  <1>2. CASE Refuse(c)
      BY <1>2, OutcomeTyped DEF Refuse, TypeOK
  <1>3. CASE Admit(c)
      BY <1>3 DEF Admit, Goto, TypeOK, Stations
  <1>4. CASE TakeProbeSlot(c) \/ TakeSlot(c)
      <2>1. PICK k \in Classes : Take(c, k) BY <1>4 DEF TakeProbeSlot, TakeSlot, TypeOK, Classes
      <2>2. holders' \in [Classes -> SUBSET Calls] BY <2>1 DEF Take, TypeOK
      <2> QED BY <1>4, <2>2 DEF TakeProbeSlot, TakeSlot, Goto, TypeOK, Stations
  <1>5. CASE GiveUpWaiting(c)
      BY <1>5, OutcomeTyped DEF GiveUpWaiting, TypeOK
  <1>6. CASE StartProbe(c)
      BY <1>6 DEF StartProbe, Goto, TypeOK, Stations
  <1>7. CASE FinishProbe(c)
      BY <1>7 DEF FinishProbe, Goto, TypeOK, Stations, Classes
  <1>8. CASE FailProbe(c)
      BY <1>8, OutcomeTyped DEF FailProbe, TypeOK
  <1>9. CASE Start(c)
      <2>1. pc' \in [Calls -> Stations] BY <1>9 DEF Start, Goto, TypeOK, Stations
      <2>2. proc' \in [Calls -> {"none", "running", "killed", "ok", "failed"}]
          BY <1>9 DEF Start, TypeOK
      <2>3. copier' \in [Calls -> {"none", "active", "done", "failed"}]
          BY <1>9 DEF Start, TypeOK
      <2>4. dest' \in [Calls -> {"old", "absent", "partial", "whole"}]
          BY <1>9 DEF Start, TypeOK
      <2>5. temps' \subseteq Calls BY <1>9 DEF Start, TypeOK
      <2> QED BY <1>9, <2>1, <2>2, <2>3, <2>4, <2>5 DEF Start, TypeOK
  <1>10. CASE StartFails(c)
      <2>1. dest' \in [Calls -> {"old", "absent", "partial", "whole"}]
          BY <1>10 DEF StartFails, TypeOK
      <2> QED BY <1>10, <2>1, OutcomeTyped DEF StartFails, TypeOK
  <1>11. CASE HandOver(c)
      BY <1>11 DEF HandOver, Goto, TypeOK, Stations
  <1>12. CASE ReleaseJobLease(c)
      BY <1>12 DEF ReleaseJobLease, TypeOK
  <1>13. CASE FinishRun(c)
      BY <1>13, OutcomeTyped DEF FinishRun, TypeOK
  <1>14. CASE FinishPipe(c)
      BY <1>14, OutcomeTyped DEF FinishPipe, TypeOK
  <1>15. CASE AbandonPipe(c)
      <2>1. proc' \in [Calls -> {"none", "running", "killed", "ok", "failed"}]
          BY <1>15 DEF AbandonPipe, TypeOK
      <2> QED BY <1>15, <2>1, OutcomeTyped DEF AbandonPipe, TypeOK
  <1>16. CASE FinishFrame(c)
      BY <1>16, OutcomeTyped DEF FinishFrame, TypeOK
  <1>17. CASE FinishShot(c)
      <2>1. dest' \in [Calls -> {"old", "absent", "partial", "whole"}]
          BY <1>17 DEF FinishShot, TypeOK
      <2> QED BY <1>17, <2>1, OutcomeTyped DEF FinishShot, TypeOK
  <1>18. CASE FinishTemp(c)
      BY <1>18 DEF FinishTemp, Goto, TypeOK, Stations
  <1>19. CASE FailFrame(c)
      <2>1. dest' \in [Calls -> {"old", "absent", "partial", "whole"}]
          BY <1>19 DEF FailFrame, TypeOK
      <2> QED BY <1>19, <2>1, OutcomeTyped DEF FailFrame, TypeOK
  <1>20. CASE Rename(c)
      <2>1. dest' \in [Calls -> {"old", "absent", "partial", "whole"}]
          BY <1>20 DEF Rename, TypeOK
      <2> QED BY <1>20, <2>1, OutcomeTyped DEF Rename, TypeOK
  <1>21. CASE RenameFails(c)
      BY <1>21, OutcomeTyped DEF RenameFails, TypeOK
  <1>22. CASE World(c)
      <2>1. CASE Cancel(c) BY <2>1 DEF Cancel, TypeOK
      <2>2. CASE ProcessEnds(c) \/ Kill(c) \/ Reap(c)
          BY <2>2 DEF ProcessEnds, Kill, Reap, TypeOK
      <2>3. CASE CopyEnds(c) \/ CopyFails(c) BY <2>3 DEF CopyEnds, CopyFails, TypeOK
      <2> QED BY <1>22, <2>1, <2>2, <2>3 DEF World
  <1> QED BY <1>1, <1>2, <1>3, <1>4, <1>5, <1>6, <1>7, <1>8, <1>9, <1>10, <1>11, <1>12,
             <1>13, <1>14, <1>15, <1>16, <1>17, <1>18, <1>19, <1>20, <1>21, <1>22
          DEF CallStep, Step

-----------------------------------------------------------------------------
(* Every action changes the state of its own call only. *)
LEMMA OthersUntouched ==
  ASSUME TypeOK, NEW c \in Calls, CallStep(c), NEW d \in Calls, d # c
  PROVE  Untouched(d)
  <1>1. ASSUME NEW outcome, Return(c, outcome)
        PROVE  /\ pc'[d] = pc[d] /\ result'[d] = result[d]
               /\ \A k \in Classes : d \in holders'[k] <=> d \in holders[k]
               /\ d \in temps' <=> d \in temps
      BY <1>1 DEF Return, TypeOK
  <1>2. ASSUME NEW station, Goto(c, station) PROVE pc'[d] = pc[d]
      BY <1>2 DEF Goto, TypeOK
  <1>3. ASSUME NEW k \in Classes, Take(c, k)
        PROVE  \A j \in Classes : d \in holders'[j] <=> d \in holders[j]
      BY <1>3 DEF Take, TypeOK
  <1> USE DEF Untouched
  <1>4. ASSUME NEW m \in Methods, NEW k \in Classes, Request(c, m, k) PROVE Untouched(d)
      BY <1>4, <1>2 DEF Request, TypeOK
  <1>5. CASE Refuse(c) \/ GiveUpWaiting(c) \/ FailProbe(c) \/ FinishRun(c) \/ FinishPipe(c)
               \/ FinishFrame(c) \/ RenameFails(c)
      BY <1>5, <1>1 DEF Refuse, GiveUpWaiting, FailProbe, FinishRun, FinishPipe,
                        FinishFrame, RenameFails
  <1>6. CASE Admit(c) BY <1>6, <1>2 DEF Admit
  <1>7. CASE TakeProbeSlot(c) \/ TakeSlot(c)
      BY <1>7, <1>2, <1>3 DEF TakeProbeSlot, TakeSlot, TypeOK, Classes
  <1>8. CASE StartProbe(c) BY <1>8, <1>2 DEF StartProbe, TypeOK
  <1>9. CASE FinishProbe(c) BY <1>9, <1>2 DEF FinishProbe, TypeOK
  <1>10. CASE Start(c)
      <2>1. pc'[d] = pc[d] BY <1>10, <1>2 DEF Start
      <2>2. proc'[d] = proc[d] /\ copier'[d] = copier[d] /\ dest'[d] = dest[d]
          BY <1>10 DEF Start, TypeOK
      <2>3. d \in temps' <=> d \in temps BY <1>10 DEF Start
      <2> QED BY <1>10, <2>1, <2>2, <2>3 DEF Start
  <1>11. CASE StartFails(c)
      <2>1. dest'[d] = dest[d] BY <1>11 DEF StartFails, TypeOK
      <2> QED BY <1>11, <1>1, <2>1 DEF StartFails
  <1>12. CASE HandOver(c) BY <1>12, <1>2 DEF HandOver, TypeOK
  <1>13. CASE ReleaseJobLease(c) BY <1>13 DEF ReleaseJobLease, TypeOK
  <1>14. CASE AbandonPipe(c)
      <2>1. proc'[d] = proc[d] BY <1>14 DEF AbandonPipe, TypeOK
      <2> QED BY <1>14, <1>1, <2>1 DEF AbandonPipe
  <1>15. CASE FinishShot(c)
      <2>1. dest'[d] = dest[d] BY <1>15 DEF FinishShot, TypeOK
      <2> QED BY <1>15, <1>1, <2>1 DEF FinishShot
  <1>16. CASE FinishTemp(c) BY <1>16, <1>2 DEF FinishTemp
  <1>17. CASE FailFrame(c)
      <2>1. dest'[d] = dest[d] BY <1>17 DEF FailFrame, TypeOK
      <2> QED BY <1>17, <1>1, <2>1 DEF FailFrame
  <1>18. CASE Rename(c)
      <2>1. dest'[d] = dest[d] BY <1>18 DEF Rename, TypeOK
      <2> QED BY <1>18, <1>1, <2>1 DEF Rename
  <1>19. CASE Cancel(c) BY <1>19 DEF Cancel
  <1>20. CASE ProcessEnds(c) \/ Kill(c) \/ Reap(c)
      BY <1>20 DEF ProcessEnds, Kill, Reap, TypeOK
  <1>21. CASE CopyEnds(c) \/ CopyFails(c) BY <1>21 DEF CopyEnds, CopyFails, TypeOK
  <1> QED BY <1>4, <1>5, <1>6, <1>7, <1>8, <1>9, <1>10, <1>11, <1>12, <1>13, <1>14,
             <1>15, <1>16, <1>17, <1>18, <1>19, <1>20, <1>21 DEF CallStep, Step, World

LEMMA UntouchedStaysOk ==
  ASSUME NEW d \in Calls, CallOk(d), Untouched(d)
  PROVE  CallOk(d)'
  <1>1. Held(d)' = Held(d) BY DEF Untouched, Held
  <1>2. Via(d)' = Via(d) BY DEF Untouched, Via
  <1>3. Over(d)' = Over(d) /\ Copies(d)' = Copies(d) /\ UsesTemp(d)' = UsesTemp(d)
      BY <1>2 DEF Untouched, Over, Copies, UsesTemp
  <1>4. Paid(d)' BY <1>1, <1>3 DEF CallOk, Paid, Untouched
  <1>5. Spawned(d)' BY <1>1, <1>2, <1>3 DEF CallOk, Spawned, Untouched
  <1>6. Copied(d)' BY <1>2, <1>3 DEF CallOk, Copied, Untouched
  <1>7. Filed(d)' BY <1>2, <1>3 DEF CallOk, Filed, Untouched
  <1> QED BY <1>4, <1>5, <1>6, <1>7 DEF CallOk

-----------------------------------------------------------------------------
(* A call that returns leaves no process, no copy but a stream's, and files *)
(* that agree with its result.                                              *)
LEMMA ReturnOk ==
  ASSUME TypeOK, NEW c \in Calls, CallOk(c), NEW outcome \in {"ok", "err"},
         Return(c, outcome), UNCHANGED <<method, class, copier>>, ~Over(c),
         proc'[c] # "running", Via(c) = "job" => proc'[c] # "killed",
         copier[c] = "active" => Via(c) = "pipe",
         dest'[c] # "partial",
         Via(c) = "file" => dest'[c] = (IF outcome = "ok" THEN "whole" ELSE "old"),
         Via(c) = "shot" /\ outcome = "ok" => dest'[c] = "whole"
  PROVE  CallOk(c)'
  <1>1. pc'[c] = "over" /\ result'[c] = outcome /\ c \notin temps'
      BY DEF Return, TypeOK
  <1>2. Held(c)' = {} BY DEF Return, TypeOK, Held
  <1>3. Via(c)' = Via(c) /\ Copies(c)' = Copies(c) BY DEF Via, Copies
  <1>4. Over(c)' BY <1>1 DEF Over
  <1>5. Paid(c)' BY <1>1, <1>2 DEF Paid
  <1>6. Spawned(c)' BY <1>1, <1>3 DEF Spawned
  <1>7. Copied(c)' BY <1>3, <1>4 DEF Copied
  <1>8. Filed(c)' BY <1>1, <1>3, <1>4 DEF Filed
  <1> QED BY <1>5, <1>6, <1>7, <1>8 DEF CallOk

(* A call that has no process yet, or only its duration probe, and fails.   *)
LEMMA EarlyReturnOk ==
  ASSUME TypeOK, NEW c \in Calls, CallOk(c), Return(c, "err"),
         UNCHANGED <<method, class, proc, copier>>,
         \/ pc[c] \in {"gate", "wait_probe", "probe", "wait", "start"}
         \/ pc[c] = "measuring" /\ proc[c] = "failed",
         dest'[c] = dest[c] \/ (Via(c) = "shot" /\ dest'[c] = "absent")
  PROVE  CallOk(c)'
  <1>1. ~Over(c) /\ pc[c] # "running" /\ result[c] = "none" BY DEF Over, CallOk, Filed
  <1>2. proc[c] # "running" /\ proc[c] # "killed" BY DEF CallOk, Spawned
  <1>3. copier[c] # "active" BY <1>1 DEF CallOk, Copied
  <1>4. dest[c] # "partial" /\ (Via(c) = "file" => dest[c] = "old")
      BY <1>1 DEF CallOk, Filed
  <1>5. dest'[c] # "partial" /\ (Via(c) = "file" => dest'[c] = "old") BY <1>4
  <1> QED BY <1>1, <1>2, <1>3, <1>5, ReturnOk

LEMMA FirstStepsOk ==
  ASSUME TypeOK, NEW c \in Calls, CallOk(c),
         \/ \E m \in Methods, k \in Classes : Request(c, m, k)
         \/ Admit(c) \/ TakeProbeSlot(c) \/ TakeSlot(c) \/ StartProbe(c) \/ FinishProbe(c)
  PROVE  CallOk(c)'
  <1>1. ASSUME NEW m \in Methods, NEW k \in Classes, Request(c, m, k) PROVE CallOk(c)'
      <2>1. pc[c] = "idle" /\ pc'[c] = "gate" BY <1>1 DEF Request, Goto, TypeOK
      <2>2. Held(c)' = Held(c) BY <1>1 DEF Request, Held
      <2>3. UNCHANGED <<result, proc, copier, temps, dest>> BY <1>1 DEF Request
      <2>4. proc[c] = "none" /\ Held(c) = {} /\ copier[c] # "active"
          BY <2>1 DEF CallOk, Paid, Spawned, Copied, Over
      <2>5. dest[c] = "old" /\ result[c] = "none" /\ c \notin temps
          BY <2>1 DEF CallOk, Filed, Over
      <2>6. ~Over(c)' BY <2>1 DEF Over
      <2>7. Paid(c)' BY <2>1, <2>2, <2>4, <2>6 DEF Paid
      <2>8. Spawned(c)' BY <2>1, <2>3, <2>4, <2>6 DEF Spawned
      <2>9. Copied(c)' BY <2>3, <2>4 DEF Copied
      <2>10. Filed(c)' BY <2>1, <2>3, <2>5, <2>6 DEF Filed
      <2> QED BY <2>7, <2>8, <2>9, <2>10 DEF CallOk
  <1>2. ASSUME pc[c] \in {"gate", "wait_probe", "probe", "wait", "measuring"},
               pc'[c] \in {"wait_probe", "probe", "measuring", "wait", "start"},
               UNCHANGED <<method, class, result, copier, temps, dest>>,
               Paid(c)', pc'[c] # "measuring" => proc'[c] = "none"
        PROVE  CallOk(c)'
      <2>1. ~Over(c) /\ ~Over(c)' BY <1>2 DEF Over
      <2>2. Via(c)' = Via(c) /\ c \notin temps BY <1>2 DEF Via, CallOk, Filed
      <2>3. copier[c] # "active" BY <1>2, <2>1 DEF CallOk, Copied
      <2>4. Copied(c)' BY <1>2, <2>3 DEF Copied
      <2>5. Spawned(c)' BY <1>2, <2>1 DEF Spawned
      <2>6. Filed(c)' BY <1>2, <2>1, <2>2 DEF CallOk, Filed
      <2> QED BY <1>2, <2>4, <2>5, <2>6 DEF CallOk
  <1>3. CASE Admit(c)
      <2>1. pc[c] = "gate" /\ pc'[c] \in {"wait", "wait_probe"} BY <1>3 DEF Admit, Goto, TypeOK
      <2>2. Held(c)' = Held(c) BY <1>3 DEF Admit, Held
      <2>3. Paid(c)' BY <2>1, <2>2 DEF CallOk, Paid, Over
      <2>4. proc'[c] = "none" BY <1>3, <2>1 DEF Admit, CallOk, Spawned
      <2> QED BY <1>2, <1>3, <2>1, <2>3, <2>4 DEF Admit
  <1>4. ASSUME NEW k \in Classes, NEW from, NEW to, Take(c, k), pc[c] = from, pc'[c] = to,
               \/ from = "wait_probe" /\ to = "probe" /\ k = "probe"
               \/ from = "wait" /\ to = "start" /\ k = class[c],
               UNCHANGED <<method, class, result, proc, copier, temps, dest>>
        PROVE  CallOk(c)'
      <2>1. Held(c) = {} BY <1>4 DEF CallOk, Paid
      <2>2. Held(c)' = {k}
          <3>1. holders' = [holders EXCEPT ![k] = @ \cup {c}] BY <1>4 DEF Take
          <3>2. \A j \in Classes : c \in holders'[j] <=> (c \in holders[j] \/ j = k)
              BY <3>1 DEF TypeOK
          <3> QED BY <2>1, <3>2 DEF Held
      <2>3. Paid(c)' BY <1>4, <2>2 DEF Paid, Over
      <2>4. proc'[c] = "none" BY <1>4 DEF CallOk, Spawned
      <2> QED BY <1>2, <1>4, <2>3, <2>4
  <1>5. CASE TakeProbeSlot(c)
      <2>1. pc'[c] = "probe" BY <1>5 DEF TakeProbeSlot, Goto, TypeOK
      <2> QED BY <1>4, <1>5, <2>1 DEF TakeProbeSlot, Classes
  <1>6. CASE TakeSlot(c)
      <2>1. pc'[c] = "start" /\ class[c] \in Classes BY <1>6 DEF TakeSlot, Goto, TypeOK
      <2> QED BY <1>4, <1>6, <2>1 DEF TakeSlot
  <1>7. CASE StartProbe(c)
      <2>1. pc[c] = "probe" /\ pc'[c] = "measuring" BY <1>7 DEF StartProbe, Goto, TypeOK
      <2>2. Held(c)' = Held(c) BY <1>7 DEF StartProbe, Held
      <2>3. Paid(c)' BY <2>1, <2>2 DEF CallOk, Paid, Over
      <2> QED BY <1>2, <1>7, <2>1, <2>3 DEF StartProbe
  <1>8. CASE FinishProbe(c)
      <2>1. pc[c] = "measuring" /\ pc'[c] = "wait" /\ proc'[c] = "none"
          BY <1>8 DEF FinishProbe, Goto, TypeOK
      <2>2. Held(c) = {"probe"} BY <2>1 DEF CallOk, Paid
      <2>3. Held(c)' = {}
          <3>1. \A j \in Classes : c \in holders'[j] => c \in holders[j] /\ j # "probe"
              BY <1>8 DEF FinishProbe, TypeOK
          <3> QED BY <2>2, <3>1 DEF Held
      <2>4. Paid(c)' BY <2>1, <2>3 DEF Paid, Over
      <2> QED BY <1>2, <1>8, <2>1, <2>4 DEF FinishProbe
  <1> QED BY <1>1, <1>3, <1>5, <1>6, <1>7, <1>8

(* The main process: started, waited for, handed over.                      *)
LEMMA StartOk ==
  ASSUME TypeOK, NEW c \in Calls, CallOk(c), Start(c)
  PROVE  CallOk(c)'
  <1>1. pc[c] = "start" /\ pc'[c] = "running" BY DEF Start, Goto, TypeOK
  <1>2. Held(c)' = Held(c) BY DEF Start, Held
  <1>3. Via(c)' = Via(c) /\ Copies(c)' = Copies(c) /\ UsesTemp(c)' = UsesTemp(c)
      BY DEF Start, Via, Copies, UsesTemp
  <1>4. copier'[c] = IF Copies(c) THEN "active" ELSE "none" BY DEF Start, TypeOK
  <1>5. dest'[c] = IF Via(c) = "shot" THEN "partial" ELSE dest[c] BY DEF Start, TypeOK
  <1>6. c \in temps' => UsesTemp(c) BY <1>1 DEF Start, CallOk, Filed
  <1>7. ~Over(c) /\ ~Over(c)' BY <1>1 DEF Over
  <1>8. result[c] = "none" /\ result' = result BY <1>7 DEF Start, CallOk, Filed
  <1>9. dest[c] # "partial" /\ (Via(c) = "file" => dest[c] = "old")
      BY <1>1, <1>8 DEF CallOk, Filed
  <1>10. Paid(c)'
      <2>1. class'[c] = class[c] BY DEF Start
      <2> QED BY <1>1, <1>2, <1>7, <2>1 DEF CallOk, Paid
  <1>11. Spawned(c)' BY <1>1, <1>7 DEF Spawned
  <1>12. Copied(c)' BY <1>1, <1>3, <1>4 DEF Copied
  <1>13. Filed(c)' BY <1>1, <1>3, <1>5, <1>6, <1>7, <1>8, <1>9 DEF Filed
  <1> QED BY <1>10, <1>11, <1>12, <1>13 DEF CallOk

LEMMA FinishOk ==
  ASSUME TypeOK, NEW c \in Calls, CallOk(c),
         \/ FinishRun(c) \/ FinishPipe(c) \/ AbandonPipe(c) \/ FinishFrame(c)
         \/ FinishShot(c) \/ FailFrame(c) \/ Rename(c) \/ RenameFails(c)
  PROVE  CallOk(c)'
  <1>1. pc[c] \in {"running", "rename"} /\ UNCHANGED <<method, class, copier>>
      BY DEF FinishRun, FinishPipe, AbandonPipe, FinishFrame, FinishShot, FailFrame,
             FrameCaptured, Rename, RenameFails
  <1>2. ~Over(c) /\ result[c] = "none" BY <1>1 DEF Over, CallOk, Filed
  <1>3. copier[c] = "active" => pc[c] = "running" /\ Copies(c) BY <1>2 DEF CallOk, Copied
  <1>4. (dest[c] = "partial" => Via(c) = "shot") /\ (Via(c) = "file" => dest[c] = "old")
      BY <1>2 DEF CallOk, Filed
  <1>5. CASE FinishRun(c)
      <2>1. copier[c] # "active" BY <1>3, <1>5 DEF FinishRun, Copies
      <2>2. proc'[c] # "running" /\ proc'[c] # "killed" BY <1>5 DEF FinishRun, Exited
      <2>3. PICK outcome \in {"ok", "err"} : Return(c, outcome) BY <1>5 DEF FinishRun
      <2>4. dest'[c] = dest[c] /\ Via(c) # "file" /\ Via(c) # "shot" BY <1>5 DEF FinishRun
      <2> QED BY <1>1, <1>2, <1>4, <2>1, <2>2, <2>3, <2>4, ReturnOk
  <1>6. CASE FinishPipe(c)
      <2>1. proc'[c] # "running" /\ proc'[c] # "killed" BY <1>6 DEF FinishPipe, Exited
      <2>2. PICK outcome \in {"ok", "err"} : Return(c, outcome) BY <1>6 DEF FinishPipe
      <2>3. dest'[c] = dest[c] /\ Via(c) = "pipe" BY <1>6 DEF FinishPipe
      <2> QED BY <1>1, <1>2, <1>4, <2>1, <2>2, <2>3, ReturnOk
  <1>7. CASE AbandonPipe(c)
      <2>1. proc'[c] # "running" BY <1>7 DEF AbandonPipe, TypeOK
      <2>2. Return(c, "err") /\ dest'[c] = dest[c] /\ Via(c) = "pipe" BY <1>7 DEF AbandonPipe
      <2> QED BY <1>1, <1>2, <1>4, <2>1, <2>2, ReturnOk
  <1>8. CASE FinishFrame(c)
      <2>1. proc'[c] # "running" /\ proc'[c] # "killed" /\ copier[c] # "active"
          BY <1>8 DEF FinishFrame, FrameCaptured, Exited
      <2>2. Return(c, "ok") /\ dest'[c] = dest[c] /\ Via(c) = "frame" BY <1>8 DEF FinishFrame
      <2> QED BY <1>1, <1>2, <1>4, <2>1, <2>2, ReturnOk
  <1>9. CASE FinishShot(c)
      <2>1. proc'[c] # "running" /\ proc'[c] # "killed" /\ copier[c] # "active"
          BY <1>9 DEF FinishShot, FrameCaptured, Exited
      <2>2. PICK outcome \in {"ok", "err"} : Return(c, outcome) BY <1>9 DEF FinishShot
      <2>3. dest'[c] = "whole" /\ Via(c) = "shot" BY <1>9 DEF FinishShot, TypeOK
      <2> QED BY <1>1, <1>2, <2>1, <2>2, <2>3, ReturnOk
  <1>10. CASE FailFrame(c)
      <2>1. proc'[c] # "running" /\ proc'[c] # "killed" /\ copier[c] # "active"
          BY <1>10 DEF FailFrame, FrameCaptured, Exited
      <2>2. dest'[c] = IF Via(c) = "shot" THEN "absent" ELSE dest[c]
          BY <1>10 DEF FailFrame, TypeOK
      <2>3. Return(c, "err") BY <1>10 DEF FailFrame
      <2>4. dest'[c] # "partial" /\ (Via(c) = "file" => dest'[c] = "old") BY <1>4, <2>2
      <2> QED BY <1>1, <1>2, <2>1, <2>3, <2>4, ReturnOk
  <1>11. CASE Rename(c) \/ RenameFails(c)
      <2>1. pc[c] = "rename" BY <1>11 DEF Rename, RenameFails
      <2>2. proc'[c] = "ok" /\ copier[c] # "active" /\ Via(c) = "file"
          BY <1>3, <1>11, <2>1 DEF Rename, RenameFails, CallOk, Spawned, Filed
      <2>3. CASE Rename(c)
          <3>1. Return(c, "ok") /\ dest'[c] = "whole" BY <2>3 DEF Rename, TypeOK
          <3> QED BY <1>1, <1>2, <2>2, <3>1, ReturnOk
      <2>4. CASE RenameFails(c)
          <3>1. Return(c, "err") /\ dest'[c] = dest[c] BY <2>4 DEF RenameFails
          <3> QED BY <1>1, <1>2, <1>4, <2>2, <3>1, ReturnOk
      <2> QED BY <1>11, <2>3, <2>4
  <1> QED BY <1>5, <1>6, <1>7, <1>8, <1>9, <1>10, <1>11

LEMMA HandingOverOk ==
  ASSUME TypeOK, NEW c \in Calls, CallOk(c),
         HandOver(c) \/ ReleaseJobLease(c) \/ FinishTemp(c)
  PROVE  CallOk(c)'
  <1>1. UNCHANGED <<method, class, proc, copier, temps, dest>>
      BY DEF HandOver, ReleaseJobLease, FinishTemp
  <1>2. Via(c)' = Via(c) /\ Copies(c)' = Copies(c) /\ UsesTemp(c)' = UsesTemp(c)
      BY <1>1 DEF Via, Copies, UsesTemp
  <1>3. CASE HandOver(c)
      <2>1. pc[c] = "running" /\ pc'[c] = "over" /\ result'[c] = "ok" /\ Via(c) = "job"
          BY <1>3 DEF HandOver, Goto, TypeOK
      <2>2. Held(c)' = Held(c) BY <1>3 DEF HandOver, Held
      <2>3. Held(c) = {class[c]} BY <2>1 DEF CallOk, Paid
      <2>4. copier[c] # "active" /\ c \notin temps /\ dest[c] # "partial"
          BY <2>1 DEF CallOk, Copied, Filed, Copies, UsesTemp, Over
      <2>5. Paid(c)' BY <1>1, <2>1, <2>2, <2>3 DEF Paid, Over
      <2>6. Spawned(c)' BY <1>1, <1>2, <2>1, <2>2, <2>3 DEF Spawned, Over
      <2>7. Copied(c)' BY <1>1, <2>4 DEF Copied
      <2>8. Filed(c)' BY <1>1, <1>2, <2>1, <2>4 DEF Filed, Over
      <2> QED BY <2>5, <2>6, <2>7, <2>8 DEF CallOk
  <1>4. CASE ReleaseJobLease(c)
      <2>1. Over(c) /\ Exited(c) /\ UNCHANGED <<pc, result>> BY <1>4 DEF ReleaseJobLease
      <2>2. Held(c)' \subseteq Held(c) BY <1>4 DEF ReleaseJobLease, TypeOK, Held
      <2>3. pc[c] = "over" /\ Over(c)' BY <2>1 DEF Over
      <2>4. Paid(c)' BY <1>1, <2>1, <2>2, <2>3 DEF CallOk, Paid, Exited
      <2>5. Spawned(c)' BY <1>1, <2>1, <2>3 DEF Spawned, Exited
      <2>6. Copied(c)' BY <1>1, <1>2, <2>1, <2>3 DEF CallOk, Copied
      <2>7. Filed(c)' BY <1>1, <1>2, <2>1, <2>3 DEF CallOk, Filed
      <2> QED BY <2>4, <2>5, <2>6, <2>7 DEF CallOk
  <1>5. CASE FinishTemp(c)
      <2>1. pc[c] = "running" /\ pc'[c] = "rename" /\ Via(c) = "file" /\ proc[c] = "ok"
            /\ copier[c] # "active" /\ result' = result
          BY <1>5 DEF FinishTemp, FrameCaptured, FrameOk, Goto, TypeOK
      <2>2. Held(c)' = Held(c) BY <1>5 DEF FinishTemp, Held
      <2>3. ~Over(c) /\ ~Over(c)' BY <2>1 DEF Over
      <2>4. Paid(c)' BY <1>1, <2>1, <2>2, <2>3 DEF CallOk, Paid
      <2>5. Spawned(c)' BY <1>1, <2>1, <2>3 DEF Spawned
      <2>6. Copied(c)' BY <1>1, <2>1 DEF Copied
      <2>7. Filed(c)' BY <1>1, <1>2, <2>1, <2>3 DEF CallOk, Filed
      <2> QED BY <2>4, <2>5, <2>6, <2>7 DEF CallOk
  <1> QED BY <1>3, <1>4, <1>5

(* The world ends processes and copies; it takes no slot and no file.       *)
LEMMA WorldOk ==
  ASSUME TypeOK, NEW c \in Calls, CallOk(c), World(c)
  PROVE  CallOk(c)'
  <1>1. UNCHANGED <<method, class, pc, result, holders, temps, dest>>
      BY DEF World, Cancel, ProcessEnds, Kill, Reap, CopyEnds, CopyFails
  <1>2. Held(c)' = Held(c) BY <1>1 DEF Held
  <1>3. Via(c)' = Via(c) /\ Copies(c)' = Copies(c) /\ UsesTemp(c)' = UsesTemp(c)
        /\ Over(c)' = Over(c)
      BY <1>1 DEF Via, Copies, UsesTemp, Over
  <1>4. Filed(c)' BY <1>1, <1>3 DEF CallOk, Filed
  <1>5. CASE Cancel(c)
      <2>1. UNCHANGED <<proc, copier>> BY <1>5 DEF Cancel
      <2> QED BY <1>1, <1>2, <1>3, <1>4, <2>1 DEF CallOk, Paid, Spawned, Copied
  <1>6. CASE ProcessEnds(c) \/ Kill(c) \/ Reap(c)
      <2>1. copier' = copier BY <1>6 DEF ProcessEnds, Kill, Reap
      <2>2. \/ proc[c] = "running" /\ proc'[c] \in {"ok", "failed", "killed"}
            \/ proc[c] = "killed" /\ proc'[c] = "failed"
          BY <1>6 DEF ProcessEnds, Kill, Reap, TypeOK
      <2>3. Paid(c)' BY <1>1, <1>2, <1>3, <2>2 DEF CallOk, Paid
      <2>4. Spawned(c)' BY <1>1, <1>2, <1>3, <2>2 DEF CallOk, Paid, Spawned
      <2>5. Copied(c)' BY <1>1, <1>3, <2>1 DEF CallOk, Copied
      <2> QED BY <1>4, <2>3, <2>4, <2>5 DEF CallOk
  <1>7. CASE CopyEnds(c) \/ CopyFails(c)
      <2>1. proc' = proc /\ copier'[c] \in {"done", "failed"}
          BY <1>7 DEF CopyEnds, CopyFails, TypeOK
      <2>2. Paid(c)' /\ Spawned(c)' BY <1>1, <1>2, <1>3, <2>1 DEF CallOk, Paid, Spawned
      <2>3. Copied(c)' BY <2>1 DEF Copied
      <2> QED BY <1>4, <2>2, <2>3 DEF CallOk
  <1> QED BY <1>5, <1>6, <1>7 DEF World

LEMMA OwnStepOk ==
  ASSUME TypeOK, NEW c \in Calls, CallOk(c), CallStep(c)
  PROVE  CallOk(c)'
  <1>1. CASE Refuse(c) \/ GiveUpWaiting(c) \/ FailProbe(c)
      <2>1. Return(c, "err") /\ UNCHANGED <<method, class, proc, copier, dest>>
          BY <1>1 DEF Refuse, GiveUpWaiting, FailProbe
      <2>2. \/ pc[c] \in {"gate", "wait_probe", "probe", "wait", "start"}
            \/ pc[c] = "measuring" /\ proc[c] = "failed"
          BY <1>1 DEF Refuse, GiveUpWaiting, FailProbe
      <2> QED BY <2>1, <2>2, EarlyReturnOk
  <1>2. CASE StartFails(c)
      <2>1. dest'[c] = dest[c] \/ (Via(c) = "shot" /\ dest'[c] = "absent")
          BY <1>2 DEF StartFails, TypeOK
      <2> QED BY <1>2, <2>1, EarlyReturnOk DEF StartFails
  <1> QED BY <1>1, <1>2, FirstStepsOk, StartOk, FinishOk, HandingOverOk, WorldOk
          DEF CallStep, Step

LEMMA InitOk == Init => IInv
  <1> SUFFICES ASSUME Init PROVE IInv OBVIOUS
  <1>1. TypeOK BY DEF Init, TypeOK, Stations, Classes
  <1>2. ASSUME NEW c \in Calls PROVE CallOk(c)
      <2>1. /\ pc[c] = "idle" /\ proc[c] = "none" /\ copier[c] = "none" /\ dest[c] = "old"
            /\ result[c] = "none" /\ method[c] = NoMethod /\ c \notin temps
          BY DEF Init
      <2>2. Held(c) = {} BY DEF Init, Held
      <2> QED BY <2>1, <2>2 DEF CallOk, Paid, Spawned, Copied, Filed, Over
  <1> QED BY <1>1, <1>2 DEF IInv

LEMMA IInvInductive == IInv /\ [Next]_vars => IInv'
  <1> SUFFICES ASSUME IInv, [Next]_vars PROVE IInv' OBVIOUS
  <1>1. ASSUME NEW c \in Calls, CallStep(c) PROVE IInv'
      <2>1. TypeOK' BY <1>1, StepTyped DEF IInv
      <2>2. ASSUME NEW d \in Calls PROVE CallOk(d)'
          <3>1. CASE d = c BY <1>1, <3>1, OwnStepOk DEF IInv
          <3>2. CASE d # c BY <1>1, <3>2, OthersUntouched, UntouchedStaysOk DEF IInv
          <3> QED BY <3>1, <3>2
      <2> QED BY <2>1, <2>2 DEF IInv
  <1>2. CASE UNCHANGED vars
      <2>1. TypeOK' BY <1>2 DEF IInv, TypeOK, vars
      <2>2. \A d \in Calls : Untouched(d) BY <1>2 DEF Untouched, vars
      <2> QED BY <2>1, <2>2, UntouchedStaysOk DEF IInv
  <1> QED BY <1>1, <1>2 DEF Next, CallStep

(* THEOREM: the inductive invariant holds of every behaviour: the slot, the *)
(* process, the copy and the files of each call agree with its station.     *)
THEOREM StrongInvariant == Spec => []IInv
  BY InitOk, IInvInductive, PTL DEF Spec

(* THEOREM: the state of the calls keeps its domains.                       *)
THEOREM TypeCorrect == Spec => []TypeOK
  BY StrongInvariant, PTL DEF IInv

(* THEOREM: whatever fails, is cancelled or outlives its call, a process    *)
(* runs only on a slot its call holds.                                      *)
THEOREM ProcessesAreCounted == Spec => []ProcessHasSlot
  <1>1. IInv => ProcessHasSlot
      <2> SUFFICES ASSUME IInv, NEW c \in Calls, proc[c] = "running"
                   PROVE  c \in holders[IF pc[c] = "measuring" THEN "probe" ELSE class[c]]
          BY DEF ProcessHasSlot
      <2>1. CallOk(c) /\ pc[c] \in Stations BY DEF IInv, TypeOK
      <2>2. pc[c] \in {"measuring", "running", "over"}
          BY <2>1 DEF CallOk, Spawned, Stations
      <2>3. CASE pc[c] = "measuring" BY <2>1, <2>3 DEF CallOk, Paid, Held
      <2>4. CASE pc[c] \in {"running", "over"}
          <3>1. Held(c) = {class[c]} BY <2>1, <2>4 DEF CallOk, Paid, Over
          <3> QED BY <2>4, <3>1 DEF Held
      <2> QED BY <2>2, <2>3, <2>4
  <1> QED BY <1>1, StrongInvariant, PTL

(* THEOREM: no call leaves a half-written destination or a temporary file,  *)
(* and a file capture replaces its destination exactly when it succeeds.    *)
THEOREM FilesStayWhole == Spec => []FilesAreWhole
  <1>1. IInv => FilesAreWhole
      <2> SUFFICES ASSUME IInv, NEW c \in Calls
                   PROVE  /\ Over(c) => dest[c] # "partial" /\ c \notin temps
                          /\ Via(c) = "file" =>
                               dest[c] = (IF result[c] = "ok" THEN "whole" ELSE "old")
                          /\ result[c] = "ok" /\ Via(c) = "shot" => dest[c] = "whole"
          BY DEF FilesAreWhole
      <2> QED BY DEF IInv, CallOk, Filed, Over
  <1> QED BY <1>1, StrongInvariant, PTL

(* THEOREM: once a capture has returned nothing writes to its caller's      *)
(* writer any more.                                                         *)
THEOREM WritersAreLeftAlone == Spec => []WriterLeftAlone
  <1>1. IInv => WriterLeftAlone BY DEF IInv, CallOk, Copied, WriterLeftAlone, Over
  <1> QED BY <1>1, StrongInvariant, PTL

-----------------------------------------------------------------------------
(* What the limiter sees of a call: the slots it holds.                     *)
Slots == [c \in Calls |-> {k \in Classes : c \in holders[k]}]

(* A step changes the slots of one call: it takes one when it has none, or  *)
(* gives all it has back.                                                   *)
LEMMA SlotsOfStep ==
  ASSUME IInv, NEW c \in Calls, CallStep(c)
  PROVE  \/ Held(c)' = Held(c)
         \/ Held(c)' = {}
         \/ \E k \in Classes :
              Held(c) = {} /\ Held(c)' = {k} /\ Cardinality(holders[k]) < Capacity[k]
  <1> USE DEF IInv
  <1>1. CASE UNCHANGED holders BY <1>1 DEF Held
  <1>2. ASSUME NEW outcome, Return(c, outcome) PROVE Held(c)' = {}
      BY <1>2 DEF Return, TypeOK, Held
  <1>3. ASSUME NEW k \in Classes, Take(c, k), Held(c) = {}
        PROVE  Held(c)' = {k} /\ Cardinality(holders[k]) < Capacity[k]
      <2>1. holders' = [holders EXCEPT ![k] = @ \cup {c}] BY <1>3 DEF Take
      <2>2. \A j \in Classes : c \in holders'[j] <=> (c \in holders[j] \/ j = k)
          BY <2>1 DEF TypeOK
      <2> QED BY <1>3, <2>2 DEF Held, Take
  <1>4. CASE TakeProbeSlot(c) \/ TakeSlot(c)
      <2>1. PICK k \in Classes : Take(c, k) BY <1>4 DEF TakeProbeSlot, TakeSlot, TypeOK, Classes
      <2>2. Held(c) = {} BY <1>4 DEF TakeProbeSlot, TakeSlot, CallOk, Paid
      <2> QED BY <1>3, <2>1, <2>2
  <1>5. CASE FinishProbe(c)
      <2>1. Held(c) = {"probe"} BY <1>5 DEF FinishProbe, CallOk, Paid
      <2>2. \A j \in Classes : c \in holders'[j] => c \in holders[j] /\ j # "probe"
          BY <1>5 DEF FinishProbe, TypeOK
      <2> QED BY <2>1, <2>2 DEF Held
  <1>6. CASE ReleaseJobLease(c)
      <2>1. Held(c) \subseteq {class[c]} BY <1>6 DEF ReleaseJobLease, CallOk, Paid
      <2>2. \A j \in Classes : c \in holders'[j] => c \in holders[j] /\ j # class[c]
          BY <1>6 DEF ReleaseJobLease, TypeOK
      <2> QED BY <2>1, <2>2 DEF Held
  <1>7. CASE Refuse(c) \/ GiveUpWaiting(c) \/ FailProbe(c) \/ StartFails(c) \/ FinishRun(c)
               \/ FinishPipe(c) \/ AbandonPipe(c) \/ FinishFrame(c) \/ FinishShot(c)
               \/ FailFrame(c) \/ Rename(c) \/ RenameFails(c)
      BY <1>2, <1>7 DEF Refuse, GiveUpWaiting, FailProbe, StartFails, FinishRun, FinishPipe,
                        AbandonPipe, FinishFrame, FinishShot, FailFrame, Rename, RenameFails
  <1>8. ASSUME NEW m \in Methods, NEW k \in Classes, Request(c, m, k) PROVE UNCHANGED holders
      BY <1>8 DEF Request
  <1>9. CASE Admit(c) \/ StartProbe(c) \/ Start(c) \/ HandOver(c) \/ FinishTemp(c) \/ World(c)
      BY <1>1, <1>9 DEF Admit, StartProbe, Start, HandOver, FinishTemp, World,
                        Cancel, ProcessEnds, Kill, Reap, CopyEnds, CopyFails
  <1> QED BY <1>1, <1>4, <1>5, <1>6, <1>7, <1>8, <1>9 DEF CallStep, Step

LEMMA StepIsPooled ==
  ASSUME IInv, [Next]_vars
  PROVE  [Pool!Next]_Slots
  <1>1. CASE UNCHANGED vars BY <1>1 DEF vars, Slots
  <1>2. ASSUME NEW c \in Calls, CallStep(c) PROVE [Pool!Next]_Slots
      <2>1. \A d \in Calls : Slots[d] = Held(d) /\ Slots'[d] = Held(d)' BY DEF Slots, Held
      <2>2. ASSUME NEW d \in Calls, d # c PROVE Slots'[d] = Slots[d]
          <3>1. Untouched(d) BY <1>2, <2>2, OthersUntouched DEF IInv
          <3> QED BY <2>1, <3>1 DEF Untouched, Held
      <2>3. Slots' = [Slots EXCEPT ![c] = Held(c)'] BY <2>1, <2>2 DEF Slots
      <2>4. CASE Held(c)' = Held(c) BY <2>1, <2>3, <2>4 DEF Slots
      <2>5. CASE Held(c)' = {} /\ Held(c) # {}
          <3>1. Pool!Finish(c) BY <2>1, <2>3, <2>5 DEF Pool!Finish, Slots
          <3> QED BY <3>1 DEF Pool!Next
      <2>6. ASSUME NEW k \in Classes, Held(c) = {}, Held(c)' = {k},
                   Cardinality(holders[k]) < Capacity[k]
            PROVE  Pool!Next
          <3>1. Pool!Users(k) = holders[k]
              <4>1. holders[k] \subseteq Calls BY DEF IInv, TypeOK
              <4> QED BY <4>1 DEF Pool!Users
          <3>2. Pool!Grant(c, {k})
              <4>1. [d \in Calls |-> {j \in Classes : d \in holders[j]}][c] = {}
                  BY <2>1, <2>6 DEF Slots
              <4>2. \A j \in {k} : Cardinality(Pool!Users(j)) < Capacity[j] BY <2>6, <3>1
              <4>3. [d \in Calls |-> {j \in Classes : d \in holders[j]}]' =
                      [[d \in Calls |-> {j \in Classes : d \in holders[j]}] EXCEPT ![c] = {k}]
                  BY <2>3, <2>6 DEF Slots
              <4> QED BY <4>1, <4>2, <4>3, Zenon DEF Pool!Grant, Pool!Cardinality, Cardinality
          <3> QED BY <3>2 DEF Pool!Next
      <2> QED BY <1>2, <2>4, <2>5, <2>6, SlotsOfStep
  <1> QED BY <1>1, <1>2 DEF Next, CallStep

(* THEOREM: seen by the limiter, the calls are clients of a slot pool: each *)
(* holds one slot at most, asks for none while it holds one, and the slots  *)
(* of a class are never exceeded.                                           *)
THEOREM CallsUseThePool == Spec => OneSlotAtATime
  <1>1. Init => Pool!Init BY DEF Init, Pool!Init
  <1>2. IInv /\ [Next]_vars => [Pool!Next]_Slots BY StepIsPooled
  <1> QED BY <1>1, <1>2, StrongInvariant, PTL DEF Spec, OneSlotAtATime, Pool!Spec, Slots
=============================================================================
