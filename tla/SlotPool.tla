------------------------------ MODULE SlotPool ------------------------------
(***************************************************************************)
(* What the concurrency limiter promises to its callers, without saying    *)
(* how: an operation gets all the slots it needs at once or none of them,  *)
(* no channel ever serves more running operations than its capacity, and   *)
(* the set of slots an operation runs with is one of the admissible shapes *)
(* (a tier, the global slot when one is configured, a large-file slot for  *)
(* a large input that is not probed).  Limiter.tla implements it.          *)
(***************************************************************************)
EXTENDS Naturals, FiniteSets

CONSTANTS Ops,      \* the goroutines that call the limiter
          Channels, \* the slot channels
          Cap,      \* [Channels -> Nat], the capacity of each channel
          Shapes    \* the admissible sets of slots of a running operation

VARIABLE running    \* the slots an operation runs with, {} when it does not run

Users(c) == {o \in Ops : c \in running[o]}

Init == running = [o \in Ops |-> {}]

Grant(o, S) ==
  /\ running[o] = {}
  /\ \A c \in S : Cardinality(Users(c)) < Cap[c]
  /\ running' = [running EXCEPT ![o] = S]

Finish(o) ==
  /\ running[o] # {}
  /\ running' = [running EXCEPT ![o] = {}]

Next == \E o \in Ops : Finish(o) \/ \E S \in Shapes : Grant(o, S)

Spec == Init /\ [][Next]_running
=============================================================================
