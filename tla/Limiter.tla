------------------------------- MODULE Limiter -------------------------------
(***************************************************************************)
(* concurrency/limiter.go: the tiered subprocess limiter.  Each tier, the  *)
(* optional global cap and the optional large-file tier is a buffered      *)
(* channel; sending into it takes a slot, receiving frees one.  A caller   *)
(* takes its slots one after the other (global, large, tier), each in a    *)
(* select against ctx.Done(), so that it HOLDS the earlier ones while it   *)
(* waits for the later ones.                                               *)
(***************************************************************************)
EXTENDS Naturals, FiniteSets

CONSTANTS Ops,        \* the goroutines that call the limiter
          TierCap,    \* [Tiers -> Nat \ {0}], after WithDefaults
          GlobalMax,  \* 0: no global channel
          MaxLarge,   \* 0: the large-file tier is off
          MaxStrays   \* bound: Release calls without an Acquire (misuse spec only)

Tiers    == {"probe", "decode", "encode"}
Channels == Tiers \cup {"large", "global"}

ASSUME LimiterAssumption ==
  /\ IsFiniteSet(Ops)
  /\ TierCap \in [Tiers -> Nat \ {0}]
  /\ GlobalMax \in Nat
  /\ MaxLarge \in Nat
  /\ MaxStrays \in Nat

Cap == [c \in Channels |-> CASE c = "global" -> GlobalMax
                             [] c = "large"  -> MaxLarge
                             [] OTHER        -> TierCap[c]]

VARIABLES pc,          \* where each caller is in AcquireLease / Acquire / Release
          class,       \* the SlotClass it asked for
          kind,        \* "lease" (AcquireLease, Run) or "raw" (Acquire / Release)
          lease,       \* the slots it has taken and not given back
          occ,         \* len(ch) of every channel
          misreleases, \* MisreleaseCount
          strays       \* history: Release calls made without an Acquire

vars == <<pc, class, kind, lease, occ, misreleases, strays>>

Waiting   == {"global", "large", "tier"}
Releasing == {"relTier", "relLarge", "relGlobal"}
PCs       == {"idle", "running", "strayGlobal"} \cup Waiting \cup Releasing

Init ==
  /\ pc = [o \in Ops |-> "idle"]
  /\ class = [o \in Ops |-> "probe"]
  /\ kind = [o \in Ops |-> "lease"]
  /\ lease = [o \in Ops |-> {}]
  /\ occ = [c \in Channels |-> 0]
  /\ misreleases = 0
  /\ strays = 0

(* Mutant: slots are taken whether or not the channel has room.            *)
Take_NoLimit(o, c) ==
  /\ occ' = [occ EXCEPT ![c] = @ + 1]
  /\ lease' = [lease EXCEPT ![o] = @ \cup {c}]

(* acquireChan: the send succeeds when the buffer has room.                *)
Take(o, c) ==
  /\ occ[c] < Cap[c]
  /\ occ' = [occ EXCEPT ![c] = @ + 1]
  /\ lease' = [lease EXCEPT ![o] = @ \cup {c}]

(* Mutant: the default branch of the select does not count.                *)
Free_Silent(c) ==
  IF occ[c] > 0
    THEN occ' = [occ EXCEPT ![c] = @ - 1] /\ UNCHANGED misreleases
    ELSE UNCHANGED <<occ, misreleases>>

(* tryReleaseChan never blocks: an empty channel is counted as a misuse.   *)
Free(c) ==
  IF occ[c] > 0
    THEN occ' = [occ EXCEPT ![c] = @ - 1] /\ UNCHANGED misreleases
    ELSE misreleases' = misreleases + 1 /\ UNCHANGED occ

(* Mutant: a probe of a large file takes a large-file slot too.            *)
needsLargeFileSlot_Probe(k, t) == MaxLarge > 0 /\ k = "lease"

(* The large-file slot is for leases of a decode or encode slot on an input *)
(* above the threshold; os.Stat runs after the global slot is taken, so the *)
(* size is whatever it is then.                                            *)
needsLargeFileSlot(k, t) == MaxLarge > 0 /\ k = "lease" /\ t # "probe"

LargeEligible(o) == needsLargeFileSlot(kind[o], class[o])
Then(eligible)   == IF eligible THEN {"large", "tier"} ELSE {"tier"}

(* AcquireLease or Acquire is called.  Without a global channel the first   *)
(* wait is the one that follows it.                                        *)
Call(o) ==
  /\ pc[o] = "idle"
  /\ \E k \in {"lease", "raw"}, t \in Tiers :
       /\ kind' = [kind EXCEPT ![o] = k]
       /\ class' = [class EXCEPT ![o] = t]
       /\ \E first \in IF GlobalMax > 0 THEN {"global"}
                       ELSE Then(needsLargeFileSlot(k, t)) :
            pc' = [pc EXCEPT ![o] = first]
  /\ UNCHANGED <<lease, occ, misreleases, strays>>

TakeGlobal(o) ==
  /\ pc[o] = "global"
  /\ Take(o, "global")
  /\ \E next \in Then(LargeEligible(o)) : pc' = [pc EXCEPT ![o] = next]
  /\ UNCHANGED <<class, kind, misreleases, strays>>

TakeLarge(o) ==
  /\ pc[o] = "large"
  /\ Take(o, "large")
  /\ pc' = [pc EXCEPT ![o] = "tier"]
  /\ UNCHANGED <<class, kind, misreleases, strays>>

TakeTier(o) ==
  /\ pc[o] = "tier"
  /\ Take(o, class[o])
  /\ pc' = [pc EXCEPT ![o] = "running"]
  /\ UNCHANGED <<class, kind, misreleases, strays>>

(* Mutant: the error path returns without releasing what is held.          *)
Cancel_KeepsSlots(o) ==
  /\ pc[o] \in Waiting
  /\ pc' = [pc EXCEPT ![o] = "idle"]
  /\ UNCHANGED <<class, kind, lease, occ, misreleases, strays>>

(* The other case of the select: ctx is done while the caller waits.  What  *)
(* it holds is released, in the order releaseOnce (or Acquire) frees it.   *)
Cancel(o) ==
  /\ pc[o] \in Waiting
  /\ pc' = [pc EXCEPT ![o] = IF lease[o] = {} THEN "idle" ELSE "relLarge"]
  /\ UNCHANGED <<class, kind, lease, occ, misreleases, strays>>

(* The operation is over: Lease.Release, or Release(class) of a raw caller. *)
StartRelease(o) ==
  /\ pc[o] = "running"
  /\ pc' = [pc EXCEPT ![o] = "relTier"]
  /\ UNCHANGED <<class, kind, lease, occ, misreleases, strays>>

(* Mutant: every channel is received from, whatever the lease holds.       *)
GiveBack_Unflagged(o, c, next) ==
  /\ Free(c)
  /\ lease' = [lease EXCEPT ![o] = @ \ {c}]
  /\ pc' = [pc EXCEPT ![o] = next]
  /\ UNCHANGED <<class, kind, strays>>

(* Mutant: the slot is given back twice and nothing is counted.            *)
GiveBack_Twice(o, c, next) ==
  /\ IF c \in lease[o]
       THEN /\ occ' = [occ EXCEPT ![c] = @ - 2]
            /\ lease' = [lease EXCEPT ![o] = @ \ {c}]
            /\ UNCHANGED misreleases
       ELSE UNCHANGED <<lease, occ, misreleases>>
  /\ pc' = [pc EXCEPT ![o] = next]
  /\ UNCHANGED <<class, kind, strays>>

GiveBack(o, c, next) ==
  /\ IF c \in lease[o]
       THEN Free(c) /\ lease' = [lease EXCEPT ![o] = @ \ {c}]
       ELSE UNCHANGED <<lease, occ, misreleases>>
  /\ pc' = [pc EXCEPT ![o] = next]
  /\ UNCHANGED <<class, kind, strays>>

ReleaseTier(o)   == pc[o] = "relTier"   /\ GiveBack(o, class[o], "relLarge")
ReleaseLarge(o)  == pc[o] = "relLarge"  /\ GiveBack(o, "large", "relGlobal")
ReleaseGlobal(o) == pc[o] = "relGlobal" /\ GiveBack(o, "global", "idle")

Acquiring(o) == TakeGlobal(o) \/ TakeLarge(o) \/ TakeTier(o)
GivingBack(o) == ReleaseTier(o) \/ ReleaseLarge(o) \/ ReleaseGlobal(o)

Step(o) == Call(o) \/ Acquiring(o) \/ Cancel(o) \/ StartRelease(o) \/ GivingBack(o)

Next == \E o \in Ops : Step(o)

Spec == Init /\ [][Next]_vars

(* Misuse: Release(class) without a matching Acquire (service.go exports it, *)
(* with a default class that need not be the acquired one).  It receives    *)
(* from the tier's channel and then from the global one, whoever sent.     *)
StrayTier(o) ==
  /\ pc[o] = "idle"
  /\ strays < MaxStrays
  /\ strays' = strays + 1
  /\ \E t \in Tiers : Free(t)
  /\ pc' = [pc EXCEPT ![o] = IF GlobalMax > 0 THEN "strayGlobal" ELSE "idle"]
  /\ UNCHANGED <<class, kind, lease>>

StrayGlobal(o) ==
  /\ pc[o] = "strayGlobal"
  /\ strays' = strays + 1
  /\ Free("global")
  /\ pc' = [pc EXCEPT ![o] = "idle"]
  /\ UNCHANGED <<class, kind, lease>>

MisuseNext == Next \/ \E o \in Ops : StrayTier(o) \/ StrayGlobal(o)

MisuseSpec == Init /\ [][MisuseNext]_vars

(* A blocked send is queued first-in first-out on its channel and a receive *)
(* hands the slot to the head of the queue, so a slot that is freed again  *)
(* and again reaches every waiter: strong fairness of a caller's takes (one *)
(* at most is possible at a time).  The code run under a slot returns      *)
(* (ffmpeg ends or is killed with its context).                            *)
Fairness ==
  \A o \in Ops : SF_vars(Acquiring(o)) /\ WF_vars(StartRelease(o) \/ GivingBack(o))

LiveSpec == Spec /\ Fairness

-----------------------------------------------------------------------------
(* PROPERTIES                                                              *)

Holders(c) == {o \in Ops : c \in lease[o]}

(* Type invariant: the domains of the limiter's and the callers' state.    *)
TypeOK ==
  /\ pc \in [Ops -> PCs]
  /\ class \in [Ops -> Tiers]
  /\ kind \in [Ops -> {"lease", "raw"}]
  /\ lease \in [Ops -> SUBSET Channels]
  /\ occ \in [Channels -> Nat]
  /\ misreleases \in Nat
  /\ strays \in Nat

(* What a caller holds at each point of its walk: an idle caller holds      *)
(* nothing whichever error path brought it there, a running one exactly    *)
(* its tier, the global slot if there is one, and at most the large slot.  *)
BaseSlots == IF GlobalMax > 0 THEN {"global"} ELSE {}

LeaseShapeOf(o) ==
  /\ pc[o] \in {"idle", "global", "strayGlobal"} => lease[o] = {}
  /\ pc[o] = "large" => lease[o] = BaseSlots /\ LargeEligible(o)
  /\ pc[o] = "tier" => lease[o] \in {BaseSlots, BaseSlots \cup {"large"}}
  /\ pc[o] \in {"running", "relTier"} =>
       lease[o] \in {BaseSlots \cup {class[o]}, BaseSlots \cup {"large", class[o]}}
  /\ pc[o] = "relLarge" => lease[o] \in {BaseSlots, BaseSlots \cup {"large"}}
  /\ pc[o] = "relGlobal" => lease[o] = BaseSlots
  /\ "large" \in lease[o] => LargeEligible(o)

LeaseShape == \A o \in Ops : LeaseShapeOf(o)

(* No slot is lost and none is given back twice: the length of a channel is *)
(* the number of callers that hold its slot, and so never above its        *)
(* capacity, whatever was cancelled between two of the takes.              *)
SlotAccounting ==
  \A c \in Channels : /\ occ[c] = Cardinality(Holders(c))
                      /\ occ[c] <= Cap[c]

(* Callers that pair Acquire with Release, or use leases, never find an     *)
(* empty channel when they give a slot back (MisreleaseCount stays 0).     *)
NoMisrelease == misreleases = 0

(* Under the slot-by-slot protocol a caller appears to take all its slots   *)
(* at once when it starts to run: Limiter implements SlotPool.             *)
Shapes == {BaseSlots \cup {t} : t \in Tiers}
            \cup (IF MaxLarge > 0 THEN {BaseSlots \cup {"large", t} : t \in {"decode", "encode"}}
                                  ELSE {})

Pool == INSTANCE SlotPool WITH
          running <- [o \in Ops |-> IF pc[o] = "running" THEN lease[o] ELSE {}]

ImplementsPool == Pool!Spec

(* Liveness: holding a slot while waiting for the next cannot deadlock the  *)
(* callers or starve one (everyone takes the channels in the same order):  *)
(* a caller that waits gets its slots or is cancelled.                     *)
Served == \A o \in Ops : pc[o] \in Waiting ~> pc[o] \in {"running", "idle"}

(* Misuse: a stray Release lets at most one more caller in for each stray   *)
(* receive, and once all slots are back it has been counted, if not at the *)
(* stray call itself then at the release of the caller it robbed.          *)
OverAdmissionBounded == \A c \in Channels : Cardinality(Holders(c)) <= Cap[c] + strays

StraysAreCounted ==
  (\A o \in Ops : lease[o] = {}) => misreleases = strays /\ \A c \in Channels : occ[c] = 0

MisuseContained == OverAdmissionBounded /\ StraysAreCounted
=============================================================================
