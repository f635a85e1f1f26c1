---------------------------- MODULE LimiterProofs ----------------------------
(***************************************************************************)
(* For every set of callers and every capacity: the limiter never loses or *)
(* invents a slot, callers that pair their calls never misrelease, and the *)
(* slot-by-slot protocol implements the all-or-nothing SlotPool.           *)
(***************************************************************************)
EXTENDS Limiter, Integers, FiniteSetTheorems, TLAPS

(* SlotAccounting alone is not inductive: that a taken slot is not already  *)
(* held, and that a release finds what it frees, come from LeaseShape.     *)
IInv == TypeOK /\ LeaseShape /\ SlotAccounting /\ NoMisrelease

USE DEF Tiers, Channels

(* The callers that hold a slot are finitely many.                         *)
LEMMA HoldersFinite ==
  ASSUME NEW c
  PROVE  IsFiniteSet(Holders(c)) /\ Cardinality(Holders(c)) \in Nat
  <1>1. IsFiniteSet(Ops) BY LimiterAssumption
  <1>2. Holders(c) \subseteq Ops BY DEF Holders
  <1> QED BY <1>1, <1>2, FS_Subset, FS_CardinalityType

(* Capacities are naturals.                                                *)
LEMMA CapType == Cap \in [Channels -> Nat]
  BY LimiterAssumption DEF Cap

(* acquireChan keeps the account of every channel.                         *)
LEMMA TakeKeepsAccounting ==
  ASSUME TypeOK, SlotAccounting, NEW o \in Ops, NEW c \in Channels,
         c \notin lease[o], Take(o, c)
  PROVE  SlotAccounting'
  <1> SUFFICES ASSUME NEW d \in Channels
               PROVE  occ'[d] = Cardinality(Holders(d)') /\ occ'[d] <= Cap[d]
      BY DEF SlotAccounting
  <1>1. lease \in [Ops -> SUBSET Channels] /\ occ \in [Channels -> Nat]
      BY DEF TypeOK
  <1>2. occ[d] = Cardinality(Holders(d)) /\ occ[d] <= Cap[d]
      BY DEF SlotAccounting
  <1>3. CASE d = c
      <2>1. Holders(c)' = Holders(c) \cup {o} /\ o \notin Holders(c)
          BY <1>1 DEF Take, Holders
      <2>2. Cardinality(Holders(c)') = Cardinality(Holders(c)) + 1
          BY <2>1, HoldersFinite, FS_AddElement
      <2>3. occ'[c] = occ[c] + 1 /\ occ[c] < Cap[c]
          BY <1>1 DEF Take
      <2> QED BY <1>1, <1>2, <1>3, <2>2, <2>3, CapType
  <1>4. CASE d # c
      <2>1. Holders(d)' = Holders(d)
          BY <1>1, <1>4 DEF Take, Holders
      <2>2. occ'[d] = occ[d]
          BY <1>1, <1>4 DEF Take
      <2> QED BY <1>2, <2>1, <2>2
  <1> QED BY <1>3, <1>4

(* A caller gives back only what it holds, so tryReleaseChan finds it.      *)
LEMMA GiveBackKeepsAccounting ==
  ASSUME TypeOK, SlotAccounting, NEW o \in Ops, NEW c \in Channels,
         NEW next, GiveBack(o, c, next)
  PROVE  SlotAccounting' /\ UNCHANGED misreleases
  <1>1. lease \in [Ops -> SUBSET Channels] /\ occ \in [Channels -> Nat]
      BY DEF TypeOK
  <1>2. CASE c \notin lease[o]
      <2>1. UNCHANGED <<lease, occ, misreleases>> BY <1>2 DEF GiveBack
      <2> QED BY <2>1 DEF SlotAccounting, Holders, Cap
  <1>3. CASE c \in lease[o]
      <2>1. lease' = [lease EXCEPT ![o] = @ \ {c}] /\ Free(c)
          BY <1>3 DEF GiveBack
      <2>2. o \in Holders(c) BY <1>3 DEF Holders
      <2>3. occ[c] = Cardinality(Holders(c)) BY DEF SlotAccounting
      <2>4. occ[c] > 0
          <3>1. Holders(c) # {} BY <2>2
          <3>2. Cardinality(Holders(c)) # 0 BY <3>1, HoldersFinite, FS_EmptySet
          <3> QED BY <2>3, <3>2, HoldersFinite
      <2>5. occ' = [occ EXCEPT ![c] = @ - 1] /\ UNCHANGED misreleases
          BY <2>1, <2>4 DEF Free
      <2>6. Holders(c)' = Holders(c) \ {o}
          BY <1>1, <2>1 DEF Holders
      <2>7. Cardinality(Holders(c)') = Cardinality(Holders(c)) - 1
          BY <2>2, <2>6, HoldersFinite, FS_RemoveElement
      <2>8. ASSUME NEW d \in Channels
            PROVE  occ'[d] = Cardinality(Holders(d)') /\ occ'[d] <= Cap[d]
          <3>1. occ[d] = Cardinality(Holders(d)) /\ occ[d] <= Cap[d]
              BY DEF SlotAccounting
          <3>2. CASE d = c BY <1>1, <2>3, <2>4, <2>5, <2>7, <3>1, <3>2, CapType
          <3>3. CASE d # c
              <4>1. Holders(d)' = Holders(d) BY <1>1, <2>1, <3>3 DEF Holders
              <4> QED BY <1>1, <2>5, <3>1, <3>3, <4>1
          <3> QED BY <3>2, <3>3
      <2> QED BY <2>5, <2>8 DEF SlotAccounting, Cap
  <1> QED BY <1>2, <1>3

-----------------------------------------------------------------------------
(* Every step keeps the domains.                                           *)
LEMMA TypeStep ==
  ASSUME TypeOK, [Next]_vars
  PROVE  TypeOK'
  <1> USE DEF TypeOK, PCs, Waiting, Releasing
  <1>1. CASE UNCHANGED vars BY <1>1 DEF vars
  <1>2. ASSUME NEW o \in Ops, Call(o) PROVE TypeOK' BY <1>2 DEF Call, Then
  <1>3. ASSUME NEW o \in Ops, TakeGlobal(o) PROVE TypeOK'
      BY <1>3 DEF TakeGlobal, Take, Then
  <1>4. ASSUME NEW o \in Ops, TakeLarge(o) PROVE TypeOK' BY <1>4 DEF TakeLarge, Take
  <1>5. ASSUME NEW o \in Ops, TakeTier(o) PROVE TypeOK' BY <1>5 DEF TakeTier, Take
  <1>6. ASSUME NEW o \in Ops, Cancel(o) PROVE TypeOK' BY <1>6 DEF Cancel
  <1>7. ASSUME NEW o \in Ops, StartRelease(o) PROVE TypeOK' BY <1>7 DEF StartRelease
  <1>8. ASSUME NEW o \in Ops, NEW c \in Channels, NEW next \in PCs, GiveBack(o, c, next)
        PROVE  TypeOK'
      BY <1>8 DEF GiveBack, Free
  <1>9. ASSUME NEW o \in Ops, GivingBack(o) PROVE TypeOK'
      BY <1>8, <1>9 DEF GivingBack, ReleaseTier, ReleaseLarge, ReleaseGlobal
  <1> QED BY <1>1, <1>2, <1>3, <1>4, <1>5, <1>6, <1>7, <1>9 DEF Next, Step, Acquiring

(* THEOREM: the state of the limiter and of its callers keeps its domains.  *)
THEOREM TypeCorrect == Spec => []TypeOK
  <1>1. Init => TypeOK
      BY DEF Init, TypeOK, PCs, Waiting, Releasing
  <1>2. TypeOK /\ [Next]_vars => TypeOK' BY TypeStep
  <1> QED BY <1>1, <1>2, PTL DEF Spec

(* A step of one caller leaves what the others hold and where they are.     *)
LEMMA OthersKeepShape ==
  ASSUME LeaseShape, NEW o \in Ops, NEW p \in Ops, p # o,
         pc'[p] = pc[p], lease'[p] = lease[p],
         class'[p] = class[p], kind'[p] = kind[p]
  PROVE  LeaseShapeOf(p)'
  BY DEF LeaseShape, LeaseShapeOf, BaseSlots, LargeEligible, needsLargeFileSlot

(* Every step takes a caller to a point whose slots it exactly holds.       *)
LEMMA ShapeStep ==
  ASSUME TypeOK, LeaseShape, NEW o \in Ops, Step(o)
  PROVE  LeaseShape'
  <1> USE DEF TypeOK, BaseSlots, LargeEligible, needsLargeFileSlot
  <1>1. LeaseShapeOf(o) BY DEF LeaseShape
  <1>2. ASSUME NEW p \in Ops, p # o PROVE LeaseShapeOf(p)'
      <2>1. /\ pc'[p] = pc[p] /\ lease'[p] = lease[p]
            /\ class'[p] = class[p] /\ kind'[p] = kind[p]
          BY <1>2 DEF Step, Call, Acquiring, TakeGlobal, TakeLarge, TakeTier, Take, Cancel,
                      StartRelease, GivingBack, ReleaseTier, ReleaseLarge, ReleaseGlobal, GiveBack
      <2> QED BY <1>2, <2>1, OthersKeepShape
  <1>3. LeaseShapeOf(o)'
      <2>1. CASE Call(o) BY <1>1, <2>1 DEF LeaseShapeOf, Call, Then
      <2>2. CASE TakeGlobal(o)
          <3>1. GlobalMax > 0
              BY <2>2, LimiterAssumption DEF TakeGlobal, Take, Cap
          <3>2. lease'[o] = {"global"} BY <1>1, <2>2 DEF LeaseShapeOf, TakeGlobal, Take
          <3>3. pc'[o] \in Then(LargeEligible(o)) BY <2>2 DEF TakeGlobal, Then
          <3>4. class' = class /\ kind' = kind BY <2>2 DEF TakeGlobal
          <3>5. CASE pc'[o] = "tier" BY <3>1, <3>2, <3>5 DEF LeaseShapeOf
          <3>6. CASE pc'[o] = "large" /\ LargeEligible(o)
              BY <3>1, <3>2, <3>4, <3>6 DEF LeaseShapeOf
          <3> QED BY <3>3, <3>5, <3>6 DEF Then
      <2>3. CASE TakeLarge(o) BY <1>1, <2>3 DEF LeaseShapeOf, TakeLarge, Take
      <2>4. CASE TakeTier(o) BY <1>1, <2>4 DEF LeaseShapeOf, TakeTier, Take
      <2>5. CASE Cancel(o) BY <1>1, <2>5 DEF LeaseShapeOf, Cancel, Waiting
      <2>6. CASE StartRelease(o) BY <1>1, <2>6 DEF LeaseShapeOf, StartRelease
      <2>7. CASE ReleaseTier(o)
          <3>1. class[o] \in {"probe", "decode", "encode"} OBVIOUS
          <3>2. /\ lease[o] \in {BaseSlots \cup {class[o]}, BaseSlots \cup {"large", class[o]}}
                /\ "large" \in lease[o] => LargeEligible(o)
              BY <1>1, <2>7 DEF LeaseShapeOf, ReleaseTier
          <3>3. /\ lease'[o] = lease[o] \ {class[o]} /\ pc'[o] = "relLarge"
                /\ class' = class /\ kind' = kind
              BY <2>7, <3>2 DEF ReleaseTier, GiveBack
          <3>4. lease'[o] \in {BaseSlots, BaseSlots \cup {"large"}} BY <3>1, <3>2, <3>3
          <3> QED BY <3>2, <3>3, <3>4 DEF LeaseShapeOf
      <2>8. CASE ReleaseLarge(o)
          <3>1. lease[o] \in {BaseSlots, BaseSlots \cup {"large"}}
              BY <1>1, <2>8 DEF LeaseShapeOf, ReleaseLarge
          <3>2. lease'[o] = lease[o] \ {"large"} /\ pc'[o] = "relGlobal"
              BY <2>8 DEF ReleaseLarge, GiveBack
          <3>3. lease'[o] = BaseSlots BY <3>1, <3>2
          <3> QED BY <3>2, <3>3 DEF LeaseShapeOf
      <2>9. CASE ReleaseGlobal(o)
          <3>1. lease[o] = BaseSlots
              BY <1>1, <2>9 DEF LeaseShapeOf, ReleaseGlobal
          <3>2. lease'[o] = lease[o] \ {"global"} /\ pc'[o] = "idle"
              BY <2>9 DEF ReleaseGlobal, GiveBack
          <3>3. lease'[o] = {} BY <3>1, <3>2
          <3> QED BY <3>2, <3>3 DEF LeaseShapeOf
      <2> QED BY <2>1, <2>2, <2>3, <2>4, <2>5, <2>6, <2>7, <2>8, <2>9 DEF Step, Acquiring, GivingBack
  <1> QED BY <1>2, <1>3 DEF LeaseShape

(* Every step keeps the account of every channel and counts no misrelease.  *)
LEMMA AccountingStep ==
  ASSUME IInv, NEW o \in Ops, Step(o)
  PROVE  SlotAccounting' /\ NoMisrelease'
  <1> USE DEF IInv
  <1>1. LeaseShapeOf(o) /\ class[o] \in Tiers /\ BaseSlots \subseteq {"global"}
      BY DEF LeaseShape, TypeOK, BaseSlots
  <1>2. ASSUME UNCHANGED <<lease, occ, misreleases>> PROVE SlotAccounting' /\ NoMisrelease'
      BY <1>2 DEF SlotAccounting, NoMisrelease, Holders, Cap
  <1>3. CASE Call(o) \/ Cancel(o) \/ StartRelease(o)
      BY <1>2, <1>3 DEF Call, Cancel, StartRelease
  <1>4. CASE TakeGlobal(o)
      <2>1. "global" \notin lease[o] BY <1>1, <1>4 DEF LeaseShapeOf, TakeGlobal
      <2> QED BY <1>4, <2>1, TakeKeepsAccounting DEF TakeGlobal, NoMisrelease
  <1>5. CASE TakeLarge(o)
      <2>1. "large" \notin lease[o] BY <1>1, <1>5 DEF LeaseShapeOf, TakeLarge
      <2> QED BY <1>5, <2>1, TakeKeepsAccounting DEF TakeLarge, NoMisrelease
  <1>6. CASE TakeTier(o)
      <2>1. class[o] \notin lease[o] BY <1>1, <1>6 DEF LeaseShapeOf, TakeTier
      <2> QED BY <1>1, <1>6, <2>1, TakeKeepsAccounting DEF TakeTier, NoMisrelease
  <1>7. CASE GivingBack(o)
      BY <1>1, <1>7, GiveBackKeepsAccounting
         DEF GivingBack, ReleaseTier, ReleaseLarge, ReleaseGlobal, NoMisrelease
  <1> QED BY <1>3, <1>4, <1>5, <1>6, <1>7 DEF Step, Acquiring

(* IInv is an inductive invariant.                                         *)
LEMMA IInvInductive ==
  /\ Init => IInv
  /\ IInv /\ [Next]_vars => IInv'
  <1>1. Init => IInv
      <2> SUFFICES ASSUME Init PROVE IInv OBVIOUS
      <2>1. TypeOK BY DEF Init, TypeOK, PCs
      <2>2. LeaseShape BY DEF Init, LeaseShape, LeaseShapeOf
      <2>3. ASSUME NEW c \in Channels
            PROVE  occ[c] = Cardinality(Holders(c)) /\ occ[c] <= Cap[c]
          <3>1. Holders(c) = {} BY DEF Init, Holders
          <3> QED BY <3>1, FS_EmptySet, CapType DEF Init
      <2> QED BY <2>1, <2>2, <2>3 DEF IInv, SlotAccounting, NoMisrelease, Init
  <1>2. IInv /\ [Next]_vars => IInv'
      <2> SUFFICES ASSUME IInv, [Next]_vars PROVE IInv' OBVIOUS
      <2>1. TypeOK' BY TypeStep DEF IInv
      <2>2. CASE UNCHANGED vars
          BY <2>1, <2>2 DEF IInv, vars, LeaseShape, LeaseShapeOf, LargeEligible, needsLargeFileSlot, BaseSlots,
                            SlotAccounting, Holders, Cap, NoMisrelease
      <2>3. CASE Next
          BY <2>1, <2>3, ShapeStep, AccountingStep DEF IInv, Next
      <2> QED BY <2>2, <2>3
  <1> QED BY <1>1, <1>2

(* THEOREM: the strengthened invariant holds of every behaviour.           *)
THEOREM StrongInvariant == Spec => []IInv
  BY IInvInductive, PTL DEF Spec

(* THEOREM: whatever is cancelled between two takes, the length of every    *)
(* channel is the number of callers that hold it and at most its capacity. *)
THEOREM AccountingCorrect == Spec => []SlotAccounting
  <1>1. IInv => SlotAccounting BY DEF IInv
  <1> QED BY <1>1, StrongInvariant, PTL

(* THEOREM: every caller holds exactly the slots its progress calls for.    *)
THEOREM LeaseShapeCorrect == Spec => []LeaseShape
  <1>1. IInv => LeaseShape BY DEF IInv
  <1> QED BY <1>1, StrongInvariant, PTL

(* THEOREM: MisreleaseCount stays zero when calls are paired.              *)
THEOREM PairedCallsNeverMisrelease == Spec => []NoMisrelease
  <1>1. IInv => NoMisrelease BY DEF IInv
  <1> QED BY <1>1, StrongInvariant, PTL

-----------------------------------------------------------------------------
(* The refinement mapping: an operation runs with what its lease records    *)
(* from the take of its tier to the start of its release.                  *)
Running == [o \in Ops |-> IF pc[o] = "running" THEN lease[o] ELSE {}]

(* Taking the tier slot is the abstract, all-or-nothing grant: the slots    *)
(* were reserved one by one, but the account shows room for all of them.   *)
LEMMA TakeTierGrants ==
  ASSUME IInv, IInv', NEW o \in Ops, TakeTier(o)
  PROVE  \E S \in Shapes : Pool!Grant(o, S)
  <1> USE DEF IInv
  <1> PICK S \in SUBSET Channels : S = lease'[o]
      BY DEF TypeOK
  <1>1. /\ pc[o] = "tier" /\ pc' = [pc EXCEPT ![o] = "running"]
        /\ lease' = [lease EXCEPT ![o] = @ \cup {class[o]}]
        /\ class' = class /\ kind' = kind
      BY DEF TakeTier, Take
  <1>2. pc \in [Ops -> PCs] /\ lease \in [Ops -> SUBSET Channels] /\ class[o] \in Tiers
      BY DEF TypeOK
  <1>3. LeaseShapeOf(o)' BY DEF LeaseShape
  <1>4. pc'[o] = "running" BY <1>1, <1>2
  <1>5. S \in Shapes
      <2>1. S \in {BaseSlots \cup {class[o]}, BaseSlots \cup {"large", class[o]}}
          BY <1>1, <1>3, <1>4 DEF LeaseShapeOf, BaseSlots
      <2>2. CASE S = BaseSlots \cup {class[o]} BY <1>2, <2>2 DEF Shapes
      <2>3. CASE S = BaseSlots \cup {"large", class[o]}
          <3>1. LargeEligible(o) BY <1>1, <1>3, <2>3 DEF LeaseShapeOf, LargeEligible, needsLargeFileSlot
          <3>2. MaxLarge > 0 /\ class[o] \in {"decode", "encode"}
              BY <1>2, <3>1 DEF LargeEligible, needsLargeFileSlot
          <3> QED BY <2>3, <3>2 DEF Shapes
      <2> QED BY <2>1, <2>2, <2>3
  <1>6. ASSUME NEW c \in S PROVE Cardinality(Pool!Users(c)) < Cap[c]
      <2>1. c \in Channels /\ o \in Holders(c)'
          BY <1>1, <1>2 DEF Holders
      <2>2. Cardinality(Holders(c)') <= Cap[c]
          BY <2>1 DEF SlotAccounting, Cap
      <2>3. Pool!Users(c) \subseteq Holders(c)' \ {o}
          BY <1>1, <1>2 DEF Pool!Users, Holders
      <2>4. IsFiniteSet(Holders(c)') /\ Cardinality(Holders(c)') \in Nat
          <3>1. Holders(c)' \subseteq Ops BY DEF Holders
          <3> QED BY <3>1, LimiterAssumption, FS_Subset, FS_CardinalityType
      <2>5. /\ IsFiniteSet(Holders(c)' \ {o})
            /\ Cardinality(Holders(c)' \ {o}) = Cardinality(Holders(c)') - 1
          BY <2>1, <2>4, FS_RemoveElement
      <2>6. /\ Cardinality(Pool!Users(c)) <= Cardinality(Holders(c)' \ {o})
            /\ IsFiniteSet(Pool!Users(c))
          BY <2>3, <2>5, FS_Subset
      <2>7. Cardinality(Pool!Users(c)) \in Nat BY <2>6, FS_CardinalityType
      <2> QED BY <2>1, <2>2, <2>4, <2>5, <2>6, <2>7, CapType
  <1>7. Running[o] = {} BY <1>1 DEF Running
  <1>8. Running' = [Running EXCEPT ![o] = S]
      BY <1>1, <1>2, <1>4 DEF Running
  <1>9. Pool!Grant(o, S)
      <2>1. [p \in Ops |-> IF pc[p] = "running" THEN lease[p] ELSE {}][o] = {}
          BY <1>7 DEF Running
      <2>2. \A c \in S : Cardinality(Pool!Users(c)) < Cap[c] BY <1>6
      <2>3. [p \in Ops |-> IF pc[p] = "running" THEN lease[p] ELSE {}]' =
              [[p \in Ops |-> IF pc[p] = "running" THEN lease[p] ELSE {}] EXCEPT ![o] = S]
          BY <1>8 DEF Running
      <2> QED BY <2>1, <2>2, <2>3, Zenon DEF Pool!Grant, Pool!Cardinality, Cardinality
  <1> QED BY <1>5, <1>9

(* Every other step finishes an operation or changes nothing SlotPool sees. *)
LEMMA StepImplements ==
  ASSUME IInv, IInv', [Next]_vars
  PROVE  [Pool!Next]_Running
  <1> USE DEF IInv
  <1>1. pc \in [Ops -> PCs] /\ lease \in [Ops -> SUBSET Channels] BY DEF TypeOK
  <1>2. CASE UNCHANGED vars BY <1>2 DEF vars, Running
  <1>3. ASSUME NEW o \in Ops, Step(o) PROVE [Pool!Next]_Running
      <2>1. CASE TakeTier(o) BY <2>1, TakeTierGrants DEF Pool!Next
      <2>2. CASE StartRelease(o)
          <3>1. pc[o] = "running" /\ pc' = [pc EXCEPT ![o] = "relTier"] /\ lease' = lease
              BY <2>2 DEF StartRelease
          <3>2. lease[o] # {}
              BY <3>1 DEF LeaseShape, LeaseShapeOf
          <3>3. Running' = [Running EXCEPT ![o] = {}] BY <1>1, <3>1 DEF Running
          <3>4. Pool!Finish(o) BY <3>1, <3>2, <3>3 DEF Pool!Finish, Running
          <3> QED BY <3>4 DEF Pool!Next
      <2>3. CASE Call(o) \/ TakeGlobal(o) \/ TakeLarge(o) \/ Cancel(o) \/ GivingBack(o)
          <3>1. /\ pc[o] # "running" /\ pc'[o] # "running"
                /\ \A p \in Ops \ {o} : pc'[p] = pc[p] /\ lease'[p] = lease[p]
              BY <1>1, <2>3
                 DEF Call, TakeGlobal, TakeLarge, Take, Then, Cancel, Waiting, GivingBack,
                     ReleaseTier, ReleaseLarge, ReleaseGlobal, GiveBack
          <3>2. Running' = Running BY <3>1 DEF Running
          <3> QED BY <3>2
      <2> QED BY <1>3, <2>1, <2>2, <2>3 DEF Step, Acquiring
  <1> QED BY <1>2, <1>3 DEF Next, vars

(* THEOREM: the slot-by-slot limiter implements the all-or-nothing pool, for *)
(* any callers and capacities: no tier ever runs more than its limit, and    *)
(* no running operation lacks one of its slots.                            *)
THEOREM LimiterImplementsPool == Spec => ImplementsPool
  <1>1. Init => Pool!Init BY DEF Init, Pool!Init
  <1>2. IInv /\ IInv' /\ [Next]_vars =>
          [Pool!Next]_([o \in Ops |-> IF pc[o] = "running" THEN lease[o] ELSE {}])
      BY StepImplements DEF Running
  <1> QED BY <1>1, <1>2, StrongInvariant, PTL DEF Spec, ImplementsPool, Pool!Spec
-----------------------------------------------------------------------------
(* Misuse.  What a stray receive breaks is one unit of one channel: the     *)
(* account of each channel is off by at most the stray receives so far.     *)
MisuseAccount ==
  \A c \in Channels : /\ occ[c] <= Cap[c]
                      /\ Cardinality(Holders(c)) <= occ[c] + strays

MisuseInv == TypeOK /\ MisuseAccount

(* A take adds a holder and fills one place of the channel.                 *)
LEMMA TakeKeepsMisuse ==
  ASSUME MisuseInv, NEW o \in Ops, NEW c \in Channels, Take(o, c), UNCHANGED strays
  PROVE  MisuseAccount'
  <1> SUFFICES ASSUME NEW d \in Channels
               PROVE  occ'[d] <= Cap[d] /\ Cardinality(Holders(d)') <= occ'[d] + strays
      BY DEF MisuseAccount, Cap
  <1>1. lease \in [Ops -> SUBSET Channels] /\ occ \in [Channels -> Nat] /\ strays \in Nat
      BY DEF MisuseInv, TypeOK
  <1>2. occ[d] <= Cap[d] /\ Cardinality(Holders(d)) <= occ[d] + strays
      BY DEF MisuseInv, MisuseAccount
  <1>3. CASE d # c
      <2>1. Holders(d)' = Holders(d) /\ occ'[d] = occ[d]
          BY <1>1, <1>3 DEF Take, Holders
      <2> QED BY <1>2, <2>1
  <1>4. CASE d = c
      <2>1. Holders(c)' = Holders(c) \cup {o} BY <1>1 DEF Take, Holders
      <2>2. occ'[c] = occ[c] + 1 /\ occ[c] < Cap[c] BY <1>1 DEF Take
      <2>3. Cardinality(Holders(c)') <= Cardinality(Holders(c)) + 1
          <3>1. CASE o \in Holders(c)
              <4>1. Holders(c)' = Holders(c) BY <2>1, <3>1
              <4> QED BY <4>1, HoldersFinite
          <3>2. CASE o \notin Holders(c)
              <4>1. Cardinality(Holders(c)') = Cardinality(Holders(c)) + 1
                  BY <2>1, <3>2, HoldersFinite, FS_AddElement
              <4> QED BY <4>1, HoldersFinite
          <3> QED BY <3>1, <3>2
      <2>4. Cardinality(Holders(c)) \in Nat /\ Cardinality(Holders(c)') \in Nat
          <3>1. IsFiniteSet(Holders(c)') BY <2>1, HoldersFinite, FS_AddElement
          <3> QED BY <3>1, HoldersFinite, FS_CardinalityType
      <2> QED BY <1>1, <1>2, <1>4, <2>2, <2>3, <2>4, CapType
  <1> QED BY <1>3, <1>4

(* A receive on behalf of a holder takes the holder out with the place it   *)
(* frees, if there is one left to free.                                     *)
LEMMA GiveBackKeepsMisuse ==
  ASSUME MisuseInv, NEW o \in Ops, NEW c \in Channels, NEW next, GiveBack(o, c, next)
  PROVE  MisuseAccount'
  <1> SUFFICES ASSUME NEW d \in Channels
               PROVE  occ'[d] <= Cap[d] /\ Cardinality(Holders(d)') <= occ'[d] + strays'
      BY DEF MisuseAccount, Cap
  <1>1. lease \in [Ops -> SUBSET Channels] /\ occ \in [Channels -> Nat] /\ strays \in Nat
      BY DEF MisuseInv, TypeOK
  <1>2. occ[d] <= Cap[d] /\ Cardinality(Holders(d)) <= occ[d] + strays
      BY DEF MisuseInv, MisuseAccount
  <1>3. strays' = strays BY DEF GiveBack
  <1>4. CASE c \notin lease[o]
      <2>1. Holders(d)' = Holders(d) /\ occ' = occ BY <1>4 DEF GiveBack, Holders
      <2> QED BY <1>2, <1>3, <2>1
  <1>5. CASE c \in lease[o] /\ d # c
      <2>1. Holders(d)' = Holders(d) /\ occ'[d] = occ[d]
          BY <1>1, <1>5 DEF GiveBack, Free, Holders
      <2> QED BY <1>2, <1>3, <2>1
  <1>6. CASE c \in lease[o] /\ d = c
      <2>1. Holders(c)' = Holders(c) \ {o} /\ o \in Holders(c)
          BY <1>1, <1>6 DEF GiveBack, Holders
      <2>2. Cardinality(Holders(c)') = Cardinality(Holders(c)) - 1
          BY <2>1, HoldersFinite, FS_RemoveElement
      <2>3. occ'[c] = IF occ[c] > 0 THEN occ[c] - 1 ELSE occ[c]
          BY <1>1, <1>6 DEF GiveBack, Free
      <2> QED BY <1>1, <1>2, <1>3, <1>6, <2>2, <2>3, HoldersFinite, CapType
  <1> QED BY <1>4, <1>5, <1>6

(* A stray receive frees a place at most and is counted.                    *)
LEMMA StrayKeepsMisuse ==
  ASSUME MisuseInv, NEW c \in Channels, Free(c), strays' = strays + 1, UNCHANGED lease
  PROVE  MisuseAccount' /\ occ' \in [Channels -> Nat] /\ misreleases' \in Nat /\ strays' \in Nat
  <1>1. occ \in [Channels -> Nat] /\ strays \in Nat /\ misreleases \in Nat
      BY DEF MisuseInv, TypeOK
  <1>2. occ' \in [Channels -> Nat] /\ misreleases' \in Nat /\ strays' \in Nat
      BY <1>1 DEF Free
  <1>3. ASSUME NEW d \in Channels
        PROVE  occ'[d] <= Cap[d] /\ Cardinality(Holders(d)') <= occ'[d] + strays'
      <2>1. Holders(d)' = Holders(d) BY DEF Holders
      <2>2. occ[d] <= Cap[d] /\ Cardinality(Holders(d)) <= occ[d] + strays
          BY DEF MisuseInv, MisuseAccount
      <2>3. occ'[d] <= occ[d] /\ occ[d] <= occ'[d] + 1 BY <1>1 DEF Free
      <2> QED BY <1>1, <1>2, <2>1, <2>2, <2>3, HoldersFinite, CapType
  <1> QED BY <1>2, <1>3 DEF MisuseAccount, Cap

(* Every step, paired or stray, keeps the account within the strays.        *)
LEMMA MisuseStep == MisuseInv /\ [MisuseNext]_vars => MisuseInv'
  <1> SUFFICES ASSUME MisuseInv, [MisuseNext]_vars PROVE MisuseInv' OBVIOUS
  <1>1. ASSUME UNCHANGED <<lease, occ, strays>> PROVE MisuseAccount'
      BY <1>1 DEF MisuseInv, MisuseAccount, Holders, Cap
  <1>2. CASE UNCHANGED vars
      BY <1>1, <1>2 DEF MisuseInv, TypeOK, vars
  <1>3. ASSUME NEW o \in Ops, Step(o) PROVE MisuseInv'
      <2>1. TypeOK' BY <1>3, TypeStep DEF MisuseInv, Next
      <2>2. class[o] \in Tiers BY DEF MisuseInv, TypeOK
      <2>3. CASE Call(o) \/ Cancel(o) \/ StartRelease(o)
          BY <1>1, <2>1, <2>3 DEF MisuseInv, Call, Cancel, StartRelease
      <2>4. CASE Acquiring(o)
          BY <2>1, <2>2, <2>4, TakeKeepsMisuse
             DEF Acquiring, TakeGlobal, TakeLarge, TakeTier, MisuseInv
      <2>5. CASE GivingBack(o)
          BY <2>1, <2>2, <2>5, GiveBackKeepsMisuse
             DEF GivingBack, ReleaseTier, ReleaseLarge, ReleaseGlobal, MisuseInv
      <2> QED BY <1>3, <2>3, <2>4, <2>5 DEF Step
  <1>4. ASSUME NEW o \in Ops, StrayTier(o) \/ StrayGlobal(o) PROVE MisuseInv'
      <2>1. PICK c \in Channels : Free(c) BY <1>4 DEF StrayTier, StrayGlobal
      <2>2. strays' = strays + 1 /\ UNCHANGED <<class, kind, lease>>
          BY <1>4 DEF StrayTier, StrayGlobal
      <2>3. MisuseAccount' /\ occ' \in [Channels -> Nat] /\ misreleases' \in Nat /\ strays' \in Nat
          BY <2>1, <2>2, StrayKeepsMisuse
      <2>4. pc' \in [Ops -> PCs]
          BY <1>4 DEF StrayTier, StrayGlobal, MisuseInv, TypeOK, PCs
      <2> QED BY <2>2, <2>3, <2>4 DEF MisuseInv, TypeOK
  <1> QED BY <1>2, <1>3, <1>4 DEF MisuseNext, Next

(* THEOREM: however often Release is called without an Acquire, a channel   *)
(* admits at most one more caller for each stray receive.                  *)
THEOREM OverAdmissionIsBounded == MisuseSpec => []OverAdmissionBounded
  <1>1. Init => MisuseInv
      <2> SUFFICES ASSUME Init PROVE MisuseInv OBVIOUS
      <2>1. IInv BY IInvInductive
      <2>2. strays = 0 BY DEF Init
      <2> QED BY <2>1, <2>2, HoldersFinite, CapType
              DEF MisuseInv, MisuseAccount, IInv, SlotAccounting, TypeOK
  <1>2. MisuseInv => OverAdmissionBounded
      <2> SUFFICES ASSUME MisuseInv, NEW c \in Channels
                   PROVE  Cardinality(Holders(c)) <= Cap[c] + strays
          BY DEF OverAdmissionBounded
      <2>1. occ[c] \in Nat /\ strays \in Nat BY DEF MisuseInv, TypeOK
      <2> QED BY <2>1, HoldersFinite, CapType DEF MisuseInv, MisuseAccount
  <1> QED BY <1>1, <1>2, MisuseStep, PTL DEF MisuseSpec

-----------------------------------------------------------------------------
(* Every stray receive is somebody's missing place or has been counted: the *)
(* places missing over all channels, and the misreleases, make the strays.  *)
Gap(c) == Cardinality(Holders(c)) - occ[c]

StrayAccount ==
  /\ \A c \in Channels : Gap(c) \in Nat
  /\ misreleases + Gap("probe") + Gap("decode") + Gap("encode") + Gap("large") + Gap("global")
       = strays

StrayInv == TypeOK /\ LeaseShape /\ StrayAccount

(* What happens to one channel is what happens to the sum.                  *)
LEMMA OneGapMoves ==
  ASSUME StrayInv, NEW c \in Channels, misreleases' \in Nat, strays' \in Nat,
         Gap(c)' \in Nat, \A d \in Channels \ {c} : Gap(d)' = Gap(d),
         misreleases' + Gap(c)' - strays' = misreleases + Gap(c) - strays
  PROVE  StrayAccount'
  <1> DEFINE g(d) == Gap(d)
             h(d) == Gap(d)'
  <1>1. misreleases \in Nat /\ strays \in Nat /\ \A d \in Channels : g(d) \in Nat
      BY DEF StrayInv, TypeOK, StrayAccount
  <1>2. misreleases + g("probe") + g("decode") + g("encode") + g("large") + g("global") = strays
      BY DEF StrayInv, StrayAccount
  <1>3. /\ h(c) \in Nat /\ \A d \in Channels \ {c} : h(d) = g(d)
        /\ misreleases' + h(c) - strays' = misreleases + g(c) - strays
      OBVIOUS
  <1> HIDE DEF g, h
  <1>4. \A d \in Channels : h(d) \in Nat BY <1>1, <1>3
  <1>5. misreleases' + h("probe") + h("decode") + h("encode") + h("large") + h("global") = strays'
      BY <1>1, <1>2, <1>3
  <1> QED BY <1>4, <1>5 DEF StrayAccount, h

LEMMA TakeKeepsStrays ==
  ASSUME StrayInv, NEW o \in Ops, NEW c \in Channels, c \notin lease[o], Take(o, c),
         UNCHANGED <<misreleases, strays>>
  PROVE  StrayAccount'
  <1>1. /\ lease \in [Ops -> SUBSET Channels] /\ occ \in [Channels -> Nat]
        /\ misreleases \in Nat /\ strays \in Nat /\ Gap(c) \in Nat
      BY DEF StrayInv, TypeOK, StrayAccount
  <1>2. Cardinality(Holders(c)') = Cardinality(Holders(c)) + 1
      <2>1. Holders(c)' = Holders(c) \cup {o} /\ o \notin Holders(c)
          BY <1>1 DEF Take, Holders
      <2> QED BY <2>1, HoldersFinite, FS_AddElement
  <1>3. occ'[c] = occ[c] + 1 BY <1>1 DEF Take
  <1>4. Gap(c)' = Gap(c) BY <1>1, <1>2, <1>3, HoldersFinite DEF Gap
  <1>5. ASSUME NEW d \in Channels \ {c} PROVE Gap(d)' = Gap(d)
      <2>1. Holders(d)' = Holders(d) /\ occ'[d] = occ[d] BY <1>1 DEF Take, Holders
      <2> QED BY <2>1 DEF Gap
  <1> QED BY <1>1, <1>4, <1>5, OneGapMoves

(* The robbed caller's release finds an empty channel and counts it.        *)
LEMMA GiveBackKeepsStrays ==
  ASSUME StrayInv, NEW o \in Ops, NEW c \in Channels, NEW next, GiveBack(o, c, next)
  PROVE  StrayAccount'
  <1>1. /\ lease \in [Ops -> SUBSET Channels] /\ occ \in [Channels -> Nat]
        /\ misreleases \in Nat /\ strays \in Nat /\ Gap(c) \in Nat
      BY DEF StrayInv, TypeOK, StrayAccount
  <1>2. strays' = strays BY DEF GiveBack
  <1>3. CASE c \notin lease[o]
      <2>1. UNCHANGED <<lease, occ, misreleases>> BY <1>3 DEF GiveBack
      <2> QED BY <1>2, <2>1 DEF StrayInv, StrayAccount, Gap, Holders
  <1>4. CASE c \in lease[o]
      <2>1. Holders(c)' = Holders(c) \ {o} /\ o \in Holders(c)
          BY <1>1, <1>4 DEF GiveBack, Holders
      <2>2. Cardinality(Holders(c)') = Cardinality(Holders(c)) - 1
          BY <2>1, HoldersFinite, FS_RemoveElement
      <2>3. Cardinality(Holders(c)) >= 1
          <3>1. Cardinality(Holders(c)) # 0 BY <2>1, HoldersFinite, FS_EmptySet
          <3> QED BY <3>1, HoldersFinite
      <2>4. Free(c) BY <1>4 DEF GiveBack
      <2>5. /\ Gap(c)' \in Nat /\ misreleases' \in Nat
            /\ misreleases' + Gap(c)' = misreleases + Gap(c)
          <3>1. CASE occ[c] > 0
              <4>1. occ'[c] = occ[c] - 1 /\ misreleases' = misreleases BY <1>1, <2>4, <3>1 DEF Free
              <4> QED BY <1>1, <2>2, <4>1, HoldersFinite DEF Gap
          <3>2. CASE ~(occ[c] > 0)
              <4>1. occ[c] = 0 BY <1>1, <3>2
              <4>2. occ'[c] = 0 /\ misreleases' = misreleases + 1 BY <2>4, <3>2, <4>1 DEF Free
              <4> QED BY <1>1, <2>2, <2>3, <4>1, <4>2, HoldersFinite DEF Gap
          <3> QED BY <3>1, <3>2
      <2>6. ASSUME NEW d \in Channels \ {c} PROVE Gap(d)' = Gap(d)
          <3>1. Holders(d)' = Holders(d) /\ occ'[d] = occ[d]
              BY <1>1, <1>4 DEF GiveBack, Free, Holders
          <3> QED BY <3>1 DEF Gap
      <2> QED BY <1>1, <1>2, <2>5, <2>6, OneGapMoves
  <1> QED BY <1>3, <1>4

(* A stray receive takes somebody's place or is counted on the spot.        *)
LEMMA StrayKeepsStrays ==
  ASSUME StrayInv, NEW c \in Channels, Free(c), strays' = strays + 1, UNCHANGED lease
  PROVE  StrayAccount'
  <1>1. /\ occ \in [Channels -> Nat] /\ misreleases \in Nat /\ strays \in Nat /\ Gap(c) \in Nat
      BY DEF StrayInv, TypeOK, StrayAccount
  <1>2. \A d \in Channels : Holders(d)' = Holders(d) BY DEF Holders
  <1>3. /\ Gap(c)' \in Nat /\ misreleases' \in Nat /\ strays' \in Nat
        /\ misreleases' + Gap(c)' - strays' = misreleases + Gap(c) - strays
      <2>1. CASE occ[c] > 0
          <3>1. occ'[c] = occ[c] - 1 /\ misreleases' = misreleases BY <1>1, <2>1 DEF Free
          <3> QED BY <1>1, <1>2, <3>1, HoldersFinite DEF Gap
      <2>2. CASE ~(occ[c] > 0)
          <3>1. occ'[c] = occ[c] /\ misreleases' = misreleases + 1 BY <2>2 DEF Free
          <3> QED BY <1>1, <1>2, <3>1, HoldersFinite DEF Gap
      <2> QED BY <2>1, <2>2
  <1>4. ASSUME NEW d \in Channels \ {c} PROVE Gap(d)' = Gap(d)
      <2>1. occ'[d] = occ[d] BY <1>1 DEF Free
      <2> QED BY <1>2, <2>1 DEF Gap
  <1> QED BY <1>3, <1>4, OneGapMoves

LEMMA StrayStep == StrayInv /\ [MisuseNext]_vars => StrayInv'
  <1> SUFFICES ASSUME StrayInv, [MisuseNext]_vars PROVE StrayInv' OBVIOUS
  <1>1. ASSUME UNCHANGED <<lease, occ, misreleases, strays>> PROVE StrayAccount'
      BY <1>1 DEF StrayInv, StrayAccount, Gap, Holders
  <1>2. CASE UNCHANGED vars
      BY <1>1, <1>2 DEF StrayInv, TypeOK, vars, LeaseShape, LeaseShapeOf, LargeEligible,
                        needsLargeFileSlot, BaseSlots
  <1>3. ASSUME NEW o \in Ops, Step(o) PROVE StrayInv'
      <2>1. TypeOK' /\ LeaseShape' BY <1>3, TypeStep, ShapeStep DEF StrayInv, Next
      <2>2. class[o] \in Tiers /\ LeaseShapeOf(o) /\ BaseSlots \subseteq {"global"}
          BY DEF StrayInv, TypeOK, LeaseShape, BaseSlots
      <2>3. CASE Call(o) \/ Cancel(o) \/ StartRelease(o)
          BY <1>1, <2>1, <2>3 DEF StrayInv, Call, Cancel, StartRelease
      <2>4. CASE TakeGlobal(o)
          <3>1. "global" \notin lease[o] BY <2>2, <2>4 DEF LeaseShapeOf, TakeGlobal
          <3> QED BY <2>1, <2>4, <3>1, TakeKeepsStrays DEF TakeGlobal, StrayInv
      <2>5. CASE TakeLarge(o)
          <3>1. "large" \notin lease[o] BY <2>2, <2>5 DEF LeaseShapeOf, TakeLarge
          <3> QED BY <2>1, <2>5, <3>1, TakeKeepsStrays DEF TakeLarge, StrayInv
      <2>6. CASE TakeTier(o)
          <3>1. class[o] \notin lease[o] BY <2>2, <2>6 DEF LeaseShapeOf, TakeTier
          <3> QED BY <2>1, <2>2, <2>6, <3>1, TakeKeepsStrays DEF TakeTier, StrayInv
      <2>7. CASE GivingBack(o)
          BY <2>1, <2>2, <2>7, GiveBackKeepsStrays
             DEF GivingBack, ReleaseTier, ReleaseLarge, ReleaseGlobal, StrayInv
      <2> QED BY <1>3, <2>3, <2>4, <2>5, <2>6, <2>7 DEF Step, Acquiring
  <1>4. ASSUME NEW o \in Ops, StrayTier(o) \/ StrayGlobal(o) PROVE StrayInv'
      <2>1. PICK c \in Channels : Free(c) BY <1>4 DEF StrayTier, StrayGlobal
      <2>2. strays' = strays + 1 /\ UNCHANGED <<class, kind, lease>>
          BY <1>4 DEF StrayTier, StrayGlobal
      <2>3. StrayAccount' BY <2>1, <2>2, StrayKeepsStrays
      <2>4. occ' \in [Channels -> Nat] /\ misreleases' \in Nat /\ strays' \in Nat
          BY <2>1, <2>2 DEF Free, StrayInv, TypeOK
      <2>5. pc' \in [Ops -> PCs]
          BY <1>4 DEF StrayTier, StrayGlobal, StrayInv, TypeOK, PCs
      <2>6. ASSUME NEW p \in Ops PROVE LeaseShapeOf(p)'
          <3>1. LeaseShapeOf(p) /\ lease'[p] = lease[p] /\ class'[p] = class[p] /\ kind'[p] = kind[p]
              BY <2>2 DEF StrayInv, LeaseShape
          <3>2. CASE p # o
              <4>1. pc'[p] = pc[p]
                  BY <1>4, <3>2 DEF StrayTier, StrayGlobal, StrayInv, TypeOK
              <4> QED BY <3>1, <3>2, <4>1, OthersKeepShape DEF StrayInv
          <3>3. CASE p = o
              <4>1. pc[o] \in {"idle", "strayGlobal"} /\ pc'[o] \in {"idle", "strayGlobal"}
                  BY <1>4 DEF StrayTier, StrayGlobal, StrayInv, TypeOK
              <4>2. lease[o] = {} BY <3>1, <3>3, <4>1 DEF LeaseShapeOf
              <4> QED BY <3>1, <3>3, <4>1, <4>2 DEF LeaseShapeOf
          <3> QED BY <3>2, <3>3
      <2> QED BY <2>2, <2>3, <2>4, <2>5, <2>6 DEF StrayInv, TypeOK, LeaseShape
  <1> QED BY <1>2, <1>3, <1>4 DEF MisuseNext, Next

(* THEOREM: a stray Release may rob a caller unseen, but once every slot is *)
(* back it has been counted and no channel has lost or gained a place;      *)
(* until then it lets at most one more caller in.                           *)
THEOREM MisuseIsContained == MisuseSpec => []MisuseContained
  <1>1. Init => StrayInv
      <2> SUFFICES ASSUME Init PROVE StrayInv OBVIOUS
      <2>1. TypeOK /\ LeaseShape /\ SlotAccounting BY IInvInductive DEF IInv
      <2>2. \A c \in Channels : Gap(c) = 0
          BY <2>1, HoldersFinite DEF SlotAccounting, Gap
      <2>3. misreleases = 0 /\ strays = 0 BY DEF Init
      <2> QED BY <2>1, <2>2, <2>3 DEF StrayInv, StrayAccount
  <1>2. StrayInv => StraysAreCounted
      <2> SUFFICES ASSUME StrayInv, \A o \in Ops : lease[o] = {}
                   PROVE  misreleases = strays /\ \A c \in Channels : occ[c] = 0
          BY DEF StraysAreCounted
      <2>1. misreleases \in Nat /\ strays \in Nat /\ occ \in [Channels -> Nat]
          BY DEF StrayInv, TypeOK
      <2>2. ASSUME NEW c \in Channels PROVE occ[c] = 0 /\ Gap(c) = 0
          <3>1. Holders(c) = {} BY DEF Holders
          <3>2. Cardinality(Holders(c)) = 0 BY <3>1, FS_EmptySet
          <3>3. Gap(c) \in Nat BY DEF StrayInv, StrayAccount
          <3>4. occ[c] \in Nat BY <2>1
          <3> QED BY <3>2, <3>3, <3>4 DEF Gap
      <2>3. misreleases = strays BY <2>1, <2>2 DEF StrayInv, StrayAccount
      <2> QED BY <2>2, <2>3
  <1>3. MisuseSpec => []StraysAreCounted BY <1>1, <1>2, StrayStep, PTL DEF MisuseSpec
  <1> QED BY <1>3, OverAdmissionIsBounded, PTL DEF MisuseContained
=============================================================================
