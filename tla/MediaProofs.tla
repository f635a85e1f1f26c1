------------------------------ MODULE MediaProofs ------------------------------
(***************************************************************************)
(* Proofs about what the library decides of media, for media of any length *)
(* and every request.                                                      *)
(*                                                                         *)
(* The plans of MediaTimeline: the probe loses no keyframe, the fixed grid *)
(* and the plans on keyframes tile the media, the tail merge keeps a       *)
(* tiling, a request for any time of a tiling is served by the segment     *)
(* that holds it, and the playlist's target covers what it lists.  The     *)
(* loops over keyframes and segments are recursive functions: that one is  *)
(* what its defining equation says (RecursionUpTo) and that what each turn *)
(* keeps holds after the last (InductionUpTo) is proved from the least     *)
(* natural number at which it would fail.                                  *)
(*                                                                         *)
(* The jobs of SegmentJobs: copies and transcodes started at any segment   *)
(* cut where the plan does, a segment made on demand is the one listed;    *)
(* what is copied and why, and which segments may share a cached one.  The *)
(* jobs of MediaJobs: what a recording or a join copies, where the samples *)
(* of a sprite sheet lie, and which moment a frame capture seeks.          *)
(*                                                                         *)
(* The files of Fragments: which prefixes pass for finished, what moving   *)
(* decode times keeps between tracks of different timescales, and that the *)
(* validator has nothing to say of what is published.                      *)
(***************************************************************************)
EXTENDS SegmentJobs, MediaJobs, Fragments, FiniteSetTheorems, FunctionTheorems, NaturalsInduction,
        WellFoundedInduction, TLAPS

(* A plan as the builders return it: at least one segment, times in units.  *)
Plans == Seq([start : Int, dur : Int]) \ {<<>>}

(* The segments follow one another without gap or overlap. *)
Chained(plan, duration) ==
  /\ plan[1].start = 0
  /\ \A i \in 1..Len(plan) - 1 : SegmentEnd(plan[i]) = plan[i + 1].start
  /\ SegmentEnd(plan[Len(plan)]) = duration

-----------------------------------------------------------------------------
(* A nonempty set of naturals has a least member.                          *)
LEMMA LeastNatural ==
  ASSUME NEW S, S \subseteq Nat, S # {}
  PROVE  \E m \in S : \A n \in S : m <= n
  <1>1. PICK m \in S : \A n \in S : ~(<<n, m>> \in OpToRel(<, Nat))
      BY WFMin, NatLessThanWellFounded
  <1>2. ASSUME NEW n \in S PROVE m <= n
      <2>1. n \in Nat /\ m \in Nat OBVIOUS
      <2>2. n < m => <<n, m>> \in OpToRel(<, Nat) BY <2>1 DEF OpToRel
      <2>3. ~(n < m) BY <1>1, <2>2, Zenon
      <2> QED BY <2>1, <2>3
  <1> QED BY <1>2

LEMMA MinIsLeast ==
  ASSUME NEW S, S \subseteq Nat, S # {}
  PROVE  Min(S) \in S /\ \A n \in S : Min(S) <= n
  BY LeastNatural DEF Min

LEMMA MaxIsGreatest ==
  ASSUME NEW bound \in Nat, NEW S, S \subseteq 0..bound, S # {}
  PROVE  Max(S) \in S /\ \A n \in S : n <= Max(S)
  <1> DEFINE Below == {bound - n : n \in S}
  <1>1. \A n \in S : n \in 0..bound /\ bound - n \in Below OBVIOUS
  <1>2. Below \subseteq Nat /\ Below # {}
      <2>1. ASSUME NEW b \in Below PROVE b \in Nat
          <3>1. PICK n \in S : b = bound - n BY <2>1
          <3>2. n \in 0..bound BY <1>1
          <3> QED BY <3>1, <3>2
      <2>2. Below # {} OBVIOUS
      <2> HIDE DEF Below
      <2> QED BY <2>1, <2>2
  <1>3. PICK m \in Below : \A n \in Below : m <= n BY <1>2, LeastNatural
  <1>4. PICK x \in S : m = bound - x BY <1>3
  <1>5. ASSUME NEW n \in S PROVE n <= x
      <2>1. n \in 0..bound /\ x \in 0..bound /\ m <= bound - n BY <1>1, <1>3, <1>4
      <2> HIDE DEF Below
      <2> QED BY <2>1, <1>4
  <1>6. \E y \in S : \A n \in S : y >= n BY <1>1, <1>5
  <1>7. Max(S) \in S /\ \A n \in S : Max(S) >= n BY <1>6 DEF Max
  <1> QED BY <1>1, <1>7

LEMMA LesserOf ==
  ASSUME NEW a \in Int, NEW b \in Int
  PROVE  Min({a, b}) = IF a <= b THEN a ELSE b
  <1>1. \E m \in {a, b} : \A k \in {a, b} : m <= k OBVIOUS
  <1>2. Min({a, b}) \in {a, b} /\ \A k \in {a, b} : Min({a, b}) <= k BY <1>1 DEF Min
  <1> QED BY <1>2

LEMMA GreaterOf ==
  ASSUME NEW a \in Int, NEW b \in Int
  PROVE  Max({a, b}) = IF a >= b THEN a ELSE b
  <1>1. \E m \in {a, b} : \A k \in {a, b} : m >= k OBVIOUS
  <1>2. Max({a, b}) \in {a, b} /\ \A k \in {a, b} : Max({a, b}) >= k BY <1>1 DEF Max
  <1> QED BY <1>2

LEMMA FunctionIsSeq ==
  ASSUME NEW n \in Nat, NEW R, NEW f \in [1..n -> R]
  PROVE  f \in Seq(R)
  OBVIOUS

LEMMA TimesMonotone ==
  ASSUME NEW i \in Nat, NEW j \in Nat, i <= j, NEW s \in Nat
  PROVE  i * s <= j * s /\ i * s \in Nat
  OBVIOUS

(* Induction up to a bound: a set that contains 0 and, with a number below  *)
(* the bound, its successor contains every number up to it.                 *)
LEMMA InductionUpTo ==
  ASSUME NEW N \in Nat, NEW S, 0 \in S, \A n \in 0..N - 1 : n \in S => n + 1 \in S
  PROVE  \A n \in 0..N : n \in S
  <1> DEFINE missing == {n \in 0..N : n \notin S}
  <1> SUFFICES ASSUME missing # {} PROVE FALSE OBVIOUS
  <1>1. missing \subseteq Nat OBVIOUS
  <1>2. PICK m \in missing : \A n \in missing : m <= n BY <1>1, LeastNatural
  <1>3. m \in 1..N BY <1>2
  <1>4. m - 1 \in 0..N - 1 /\ m - 1 \notin missing BY <1>2, <1>3
  <1>5. m - 1 \in S BY <1>4
  <1>6. (m - 1) + 1 \in S BY <1>4, <1>5
  <1> QED BY <1>2, <1>3, <1>6

(* A function defined by recursion on the naturals up to a bound exists.    *)
Recurs(f, N, base, step) ==
  \A n \in 0..N : f[n] = IF n = 0 THEN base ELSE step[n][f[n - 1]]

LEMMA RecursionUpTo ==
  ASSUME NEW N \in Nat, NEW T, NEW base \in T, NEW step \in [1..N -> [T -> T]]
  PROVE  \E f \in [0..N -> T] : Recurs(f, N, base, step)
  <1> DEFINE S == {k \in 0..N : \E f \in [0..k -> T] : Recurs(f, k, base, step)}
  <1>1. 0 \in S
      <2> DEFINE f == [n \in 0..0 |-> base]
      <2>1. f \in [0..0 -> T] OBVIOUS
      <2>2. Recurs(f, 0, base, step) BY DEF Recurs
      <2> HIDE DEF f
      <2> QED BY <2>1, <2>2
  <1>2. ASSUME NEW k \in 0..N - 1, k \in S PROVE k + 1 \in S
      <2>1. PICK f \in [0..k -> T] : Recurs(f, k, base, step) BY <1>2
      <2> DEFINE g == [n \in 0..k + 1 |-> IF n <= k THEN f[n] ELSE step[k + 1][f[k]]]
      <2>2. step[k + 1][f[k]] \in T
          <3>1. f[k] \in T /\ k + 1 \in 1..N OBVIOUS
          <3> QED BY <3>1
      <2>3. g \in [0..k + 1 -> T] BY <2>2
      <2>4. \A n \in 0..k : g[n] = f[n] OBVIOUS
      <2>5. g[k + 1] = step[k + 1][f[k]] OBVIOUS
      <2> HIDE DEF g
      <2>6. ASSUME NEW n \in 0..k + 1
            PROVE  g[n] = IF n = 0 THEN base ELSE step[n][g[n - 1]]
          <3>1. CASE n = k + 1
              <4>1. n # 0 /\ n - 1 = k /\ g[k] = f[k] BY <2>4, <3>1
              <4> QED BY <2>5, <3>1, <4>1
          <3>2. CASE n \in 0..k
              <4>1. f[n] = IF n = 0 THEN base ELSE step[n][f[n - 1]] BY <2>1, <3>2 DEF Recurs
              <4>2. n # 0 => n - 1 \in 0..k BY <3>2
              <4> QED BY <2>4, <3>2, <4>1, <4>2
          <3> QED BY <3>1, <3>2
      <2>7. Recurs(g, k + 1, base, step) BY <2>6 DEF Recurs
      <2> QED BY <2>3, <2>7
  <1>3. \A k \in 0..N : k \in S
      <2> HIDE DEF S
      <2> QED BY <1>1, <1>2, InductionUpTo
  <1>4. N \in S BY <1>3
  <1> QED BY <1>4

(* What is strictly increasing is so over any distance.                     *)
StrictlyIncreasing(times) == \A i, j \in 1..Len(times) : i < j => times[i] < times[j]

(* Increasing lists a finite set of times in order: the rank of a time in   *)
(* the set is an injection into the ranks there are, so each rank is taken. *)
LEMMA IncreasingOrders ==
  ASSUME NEW S, S \subseteq Nat, IsFiniteSet(S), NEW s, s = Increasing(S)
  PROVE  /\ s \in Seq(Nat) /\ Len(s) = Cardinality(S)
         /\ ToSet(s) = S /\ StrictlyIncreasing(s)
  <1> DEFINE below(t) == {u \in S : u < t}
             rank(t) == Cardinality(below(t))
  <1>1. PICK n \in Nat : n = Cardinality(S) BY FS_CardinalityType
  <1>2. ASSUME NEW t \in S PROVE IsFiniteSet(below(t)) /\ rank(t) \in Nat /\ rank(t) < n
      <2>1. below(t) \in SUBSET S /\ t \notin below(t) BY SMT
      <2>2. IsFiniteSet(below(t)) /\ Cardinality(below(t)) <= n
            /\ (n = Cardinality(below(t)) => S = below(t))
          <3> HIDE DEF below
          <3> QED BY <1>1, <2>1, FS_Subset
      <2>3. rank(t) \in Nat
          <3> HIDE DEF below
          <3> QED BY <2>2, FS_CardinalityType
      <2>4. rank(t) # n BY <2>1, <2>2
      <2> QED BY <2>2, <2>3, <2>4
  <1>3. ASSUME NEW t \in S, NEW u \in S, t < u PROVE rank(t) < rank(u)
      <2>1. below(t) \in SUBSET below(u) /\ t \in below(u) /\ t \notin below(t)
          <3>1. t \in Nat /\ u \in Nat OBVIOUS
          <3>2. ASSUME NEW x \in S, x < t PROVE x < u
              <4>1. x \in Nat OBVIOUS
              <4> QED BY <1>3, <3>1, <3>2, <4>1
          <3>3. ~(t < t) BY <3>1
          <3> QED BY <1>3, <3>2, <3>3
      <2>2. IsFiniteSet(below(u)) /\ rank(u) \in Nat /\ rank(t) \in Nat BY <1>1, <1>2
      <2> HIDE DEF below
      <2>3. rank(t) <= rank(u) /\ (rank(u) = rank(t) => below(u) = below(t))
          BY <2>1, <2>2, FS_Subset
      <2> QED BY <2>1, <2>2, <2>3
  <1>4. ASSUME NEW i \in 1..n PROVE \E t \in S : rank(t) = i - 1
      <2> DEFINE f == [t \in S |-> rank(t)]
      <2>1. f \in [S -> 0..n - 1]
          <3>1. ASSUME NEW t \in S PROVE rank(t) \in 0..n - 1
              <4>1. rank(t) \in Nat /\ rank(t) < n BY <1>2
              <4> HIDE DEF rank
              <4> QED BY <4>1
          <3> HIDE DEF rank
          <3> QED BY <3>1
      <2>2. \A t, u \in S : f[t] = f[u] => t = u
          <3> SUFFICES ASSUME NEW t \in S, NEW u \in S, t # u PROVE f[t] # f[u] OBVIOUS
          <3>1. t < u \/ u < t OBVIOUS
          <3>2. rank(t) \in Nat /\ rank(u) \in Nat BY <1>2
          <3>3. f[t] = rank(t) /\ f[u] = rank(u) OBVIOUS
          <3> HIDE DEF rank, f
          <3> QED BY <1>3, <3>1, <3>2, <3>3
      <2>3. f \in Injection(S, 0..n - 1)
          <3> HIDE DEF f
          <3> QED BY <2>1, <2>2 DEF Injection, IsInjective
      <2>4. IsFiniteSet(0..n - 1) /\ Cardinality(0..n - 1) = n
          <3>1. 0 \in Int /\ n - 1 \in Int /\ (n - 1) - 0 + 1 = n /\ (0 > n - 1 => n = 0) OBVIOUS
          <3> QED BY <3>1, FS_Interval
      <2>5. f \in Surjection(S, 0..n - 1)
          <3> HIDE DEF f
          <3> QED BY <1>1, <2>3, <2>4, FS_Injection
      <2>6. i - 1 \in 0..n - 1 OBVIOUS
      <2>7. PICK t \in S : f[t] = i - 1
          <3> HIDE DEF f
          <3> QED BY <2>5, <2>6 DEF Surjection
      <2> QED BY <2>7
  <1> HIDE DEF rank
  <1> DEFINE nth(i) == CHOOSE t \in S : rank(t) = i - 1
  <1>5. s = [i \in 1..n |-> nth(i)] BY <1>1 DEF Increasing, rank
  <1>6. \A i \in 1..n : nth(i) \in S /\ rank(nth(i)) = i - 1 BY <1>4, Zenon
  <1> HIDE DEF nth
  <1>7. s \in [1..n -> Nat] BY <1>5, <1>6
  <1>8. s \in Seq(Nat) /\ Len(s) = n /\ DOMAIN s = 1..n BY <1>7
  <1>9. \A i \in 1..n : s[i] \in S /\ rank(s[i]) = i - 1 BY <1>5, <1>6
  <1>10. StrictlyIncreasing(s)
      <2> SUFFICES ASSUME NEW i \in 1..n, NEW j \in 1..n, i < j PROVE s[i] < s[j]
          BY <1>8 DEF StrictlyIncreasing
      <2>1. rank(s[i]) = i - 1 /\ rank(s[j]) = j - 1 /\ s[i] \in S /\ s[j] \in S BY <1>9
      <2>2. s[j] < s[i] => rank(s[j]) < rank(s[i]) BY <1>3, <2>1
      <2>3. s[i] # s[j] BY <2>1
      <2>4. s[i] \in Nat /\ s[j] \in Nat BY <2>1
      <2> QED BY <2>1, <2>2, <2>3, <2>4
  <1>11. ToSet(s) = S
      <2>1. ASSUME NEW t \in S PROVE \E i \in 1..n : s[i] = t
          <3>1. rank(t) \in Nat /\ rank(t) < n BY <1>2 DEF rank
          <3>2. PICK i \in 1..n : i - 1 = rank(t)
              <4>1. rank(t) + 1 \in 1..n /\ (rank(t) + 1) - 1 = rank(t) BY <3>1
              <4> QED BY <4>1
          <3>3. s[i] \in S /\ rank(s[i]) = rank(t) BY <1>9, <3>2
          <3>4. s[i] < t => rank(s[i]) < rank(t) BY <1>3, <3>3
          <3>5. t < s[i] => rank(t) < rank(s[i]) BY <1>3, <3>3
          <3>6. s[i] \in Nat /\ t \in Nat BY <3>3
          <3>7. ~(rank(t) < rank(t)) BY <3>1
          <3> QED BY <3>3, <3>4, <3>5, <3>6, <3>7
      <2> QED BY <1>8, <1>9, <2>1 DEF ToSet
  <1> QED BY <1>1, <1>8, <1>10, <1>11

-----------------------------------------------------------------------------
(* The length of a plan, as a number to reason with, and what is in it.     *)
LEMMA PlanTyped ==
  ASSUME NEW plan \in Plans
  PROVE  \E n \in Nat : /\ n = Len(plan) /\ n >= 1
                        /\ DOMAIN plan = 1..n
                        /\ \A i \in 1..n : plan[i].start \in Int /\ plan[i].dur \in Int
  <1> DEFINE R == [start : Int, dur : Int]
  <1>1. plan \in Seq(R) /\ plan # <<>> BY DEF Plans
  <1>2. PICK n \in Nat : n = Len(plan) /\ plan \in [1..n -> R]
      <2> HIDE DEF R
      <2> QED BY <1>1
  <1>3. n >= 1 BY <1>1, <1>2
  <1>4. \A i \in 1..n : plan[i].start \in Int /\ plan[i].dur \in Int BY <1>2
  <1> QED BY <1>2, <1>3, <1>4

(* TilesMedia says of a plan that it is chained and has no tiny segment.    *)
LEMMA TilesAsChained ==
  ASSUME NEW plan \in Plans, NEW duration \in Int
  PROVE  TilesMedia(plan, duration) <=>
           /\ Chained(plan, duration)
           /\ Len(plan) > 1 => \A i \in 1..Len(plan) : plan[i].dur >= MinSegment
  <1>1. DOMAIN plan = 1..Len(plan) /\ plan # <<>> BY PlanTyped DEF Plans
  <1> QED BY <1>1 DEF TilesMedia, Chained, Last

-----------------------------------------------------------------------------
(* THEOREM: whatever the plan, a time of the media is served by the segment *)
(* that contains it (SegmentIndexForTime, hls_vod.go).                      *)
THEOREM EveryTimeHasItsSegment ==
  ASSUME NEW plan \in Plans, NEW duration \in Int, TilesMedia(plan, duration)
  PROVE  IndexFindsSegment(plan, duration)
  <1> SUFFICES ASSUME NEW t \in 0..duration - 1
               PROVE  LET segment == plan[SegmentIndexForTime(t, plan) + 1]
                      IN  segment.start <= t /\ t < SegmentEnd(segment)
      BY DEF IndexFindsSegment
  <1>1. PICK n \in Nat : /\ n = Len(plan) /\ n >= 1
                         /\ \A i \in 1..n : plan[i].start \in Int /\ plan[i].dur \in Int
      BY PlanTyped
  <1>2. /\ plan[1].start = 0
        /\ \A i \in 1..n - 1 : SegmentEnd(plan[i]) = plan[i + 1].start
        /\ SegmentEnd(plan[n]) = duration
        /\ n > 1 => \A i \in 1..n : plan[i].dur >= 2
      BY <1>1, TilesAsChained DEF Chained, MinSegment
  <1> DEFINE late == {i \in 2..n : plan[i].start > t}
  <1>3. SegmentIndexForTime(t, plan) =
          IF t = 0 THEN 0 ELSE IF late = {} THEN n - 1 ELSE Min(late) - 2
      <2>1. plan # <<>> BY DEF Plans
      <2>2. t <= plan[1].start <=> t = 0 BY <1>2
      <2> QED BY <1>1, <2>1, <2>2 DEF SegmentIndexForTime
  <1> SUFFICES ASSUME NEW m \in Int, m = SegmentIndexForTime(t, plan) + 1
               PROVE  m \in 1..n /\ plan[m].start <= t /\ t < SegmentEnd(plan[m])
      <2>1. SegmentIndexForTime(t, plan) + 1 \in Int
          <3>1. late # {} => Min(late) \in late BY MinIsLeast
          <3> QED BY <1>3, <3>1
      <2> QED BY <2>1
  <1>4. CASE t = 0
      <2>1. m = 1 BY <1>3, <1>4
      <2>2. CASE n = 1 BY <1>2, <2>1, <2>2, <1>4
      <2>3. CASE n > 1
          <3>1. plan[1].dur >= 2 /\ plan[1].dur \in Int BY <1>1, <1>2, <2>3
          <3> QED BY <1>1, <1>2, <1>4, <2>1, <3>1 DEF SegmentEnd
      <2> QED BY <1>1, <2>2, <2>3
  <1>5. CASE t # 0 /\ late = {}
      <2>1. m = n BY <1>3, <1>5
      <2>2. plan[n].start <= t
          <3>1. CASE n = 1 BY <1>2, <3>1
          <3>2. CASE n > 1 BY <1>1, <1>5, <3>2
          <3> QED BY <1>1, <3>1, <3>2
      <2> QED BY <1>1, <1>2, <2>1, <2>2
  <1>6. CASE t # 0 /\ late # {}
      <2>1. Min(late) \in late /\ \A i \in late : Min(late) <= i BY <1>6, MinIsLeast
      <2>2. m = Min(late) - 1 BY <1>3, <1>6, <2>1
      <2>3. m \in 1..n - 1 /\ m + 1 \in late /\ m \notin late BY <2>1, <2>2
      <2>4. plan[m].start <= t
          <3>1. CASE m = 1 BY <1>2, <3>1
          <3>2. CASE m \in 2..n BY <1>1, <2>3, <3>2
          <3> QED BY <2>3, <3>1, <3>2
      <2>5. SegmentEnd(plan[m]) > t BY <1>1, <1>2, <2>3
      <2> QED BY <1>1, <1>2, <2>3, <2>4, <2>5
  <1> QED BY <1>4, <1>5, <1>6

-----------------------------------------------------------------------------
(* A chained plan whose segments but the last are long enough, once its     *)
(* tail is merged, tiles the media.                                         *)
LEMMA MergeTiles ==
  ASSUME NEW plan \in Plans, NEW duration \in Int, Chained(plan, duration),
         \A i \in 1..Len(plan) - 1 : plan[i].dur >= MinSegment,
         plan[Len(plan)].dur >= 0
  PROVE  TilesMedia(MergeTinyTailSegment(plan), duration)
  <1>1. PICK n \in Nat : /\ n = Len(plan) /\ n >= 1
                         /\ DOMAIN plan = 1..n
                         /\ \A i \in 1..n : plan[i].start \in Int /\ plan[i].dur \in Int
      BY PlanTyped
  <1>2. /\ plan[1].start = 0
        /\ \A i \in 1..n - 1 : plan[i].start + plan[i].dur = plan[i + 1].start
        /\ plan[n].start + plan[n].dur = duration
        /\ \A i \in 1..n - 1 : plan[i].dur >= 2
        /\ plan[n].dur >= 0
      BY <1>1 DEF Chained, MinSegment, SegmentEnd
  <1>3. CASE n = 1 \/ plan[n].dur >= 2
      <2>1. MergeTinyTailSegment(plan) = plan BY <1>1, <1>3 DEF MergeTinyTailSegment, MinSegment
      <2>2. n > 1 => \A i \in 1..n : plan[i].dur >= 2
          <3> SUFFICES ASSUME n > 1, NEW i \in 1..n PROVE plan[i].dur >= 2 OBVIOUS
          <3>1. i = n \/ i \in 1..n - 1 OBVIOUS
          <3> QED BY <1>2, <1>3, <3>1
      <2> QED BY <1>1, <2>1, <2>2, TilesAsChained DEF MinSegment
  <1>4. CASE n > 1 /\ plan[n].dur < 2
      <2> DEFINE merged == [i \in 1..n - 1 |->
                              IF i = n - 1 THEN Segment(plan[i].start, plan[i].dur + plan[n].dur)
                              ELSE plan[i]]
      <2>1. MergeTinyTailSegment(plan) = merged
          BY <1>1, <1>4 DEF MergeTinyTailSegment, MinSegment
      <2> DEFINE k == n - 1
      <2>2. k \in Nat /\ k >= 1 /\ n = k + 1 BY <1>4
      <2>3. Len(merged) = k /\ DOMAIN merged = 1..k /\ merged # <<>>
          <3>1. DOMAIN merged = 1..k OBVIOUS
          <3> HIDE DEF merged
          <3>2. DOMAIN merged = 1..k /\ k \in Nat BY <3>1, <2>2
          <3> HIDE DEF k
          <3>3. merged = [i \in 1..k |-> merged[i]] BY <2>1, <3>2 DEF merged, k
          <3>4. Len([i \in 1..k |-> merged[i]]) = k BY <3>2
          <3>5. 1 \in DOMAIN merged BY <2>2, <3>2
          <3> QED BY <3>2, <3>3, <3>4, <3>5
      <2>4. \A i \in 1..k : /\ merged[i].start = plan[i].start
                            /\ merged[i].dur = (IF i = k THEN plan[i].dur + plan[n].dur ELSE plan[i].dur)
          BY DEF Segment
      <2> HIDE DEF merged
      <2>5. merged[1].start = 0 BY <1>2, <2>2, <2>4
      <2>6. ASSUME NEW i \in 1..k - 1
            PROVE  SegmentEnd(merged[i]) = merged[i + 1].start
          <3>1. i \in 1..k /\ i + 1 \in 1..k /\ i # k /\ i \in 1..n - 1 BY <2>2
          <3>2. plan[i].start + plan[i].dur = plan[i + 1].start BY <1>2, <3>1
          <3>3. /\ merged[i].start = plan[i].start /\ merged[i].dur = plan[i].dur
                /\ merged[i + 1].start = plan[i + 1].start
              BY <2>4, <3>1
          <3> QED BY <3>2, <3>3 DEF SegmentEnd
      <2>7. SegmentEnd(merged[k]) = duration
          <3>1. k \in 1..n - 1 /\ k + 1 = n BY <2>2
          <3>2. plan[k].start + plan[k].dur = plan[n].start BY <1>2, <3>1
          <3>3. merged[k].start = plan[k].start /\ merged[k].dur = plan[k].dur + plan[n].dur
              BY <2>2, <2>4
          <3>4. plan[k].start \in Int /\ plan[k].dur \in Int /\ plan[n].dur \in Int
                /\ plan[n].start \in Int
              BY <1>1, <3>1
          <3>5. plan[n].start + plan[n].dur = duration BY <1>2
          <3>6. plan[k].start + (plan[k].dur + plan[n].dur) = duration
              <4> HIDE DEF k
              <4> QED BY <3>2, <3>4, <3>5
          <3> QED BY <3>3, <3>6 DEF SegmentEnd
      <2>8. ASSUME NEW i \in 1..k PROVE merged[i].dur >= 2
          <3>1. i \in 1..n - 1 BY <2>2
          <3>2. plan[i].dur \in Int /\ plan[i].dur >= 2 BY <1>1, <1>2, <3>1
          <3>3. plan[n].dur \in Int /\ plan[n].dur >= 0 BY <1>1, <1>2
          <3>4. merged[i].dur = plan[i].dur + plan[n].dur \/ merged[i].dur = plan[i].dur
              BY <2>4
          <3> QED BY <3>2, <3>3, <3>4
      <2> QED BY <2>1, <2>3, <2>5, <2>6, <2>7, <2>8 DEF TilesMedia, Last, MinSegment
  <1>5. n = 1 \/ n > 1 BY <1>1
  <1>6. plan[n].dur >= 2 \/ plan[n].dur < 2 BY <1>1
  <1> QED BY <1>3, <1>4, <1>5, <1>6

(* Merging the tail takes no start away but the last.                       *)
LEMMA MergeKeepsStarts ==
  ASSUME NEW plan \in Plans, NEW merged, merged = MergeTinyTailSegment(plan)
  PROVE  /\ merged \in Plans
         /\ Len(merged) \in 1..Len(plan)
         /\ \A i \in 1..Len(merged) : merged[i].start = plan[i].start
  <1> DEFINE R == [start : Int, dur : Int]
  <1>1. PICK n \in Nat : /\ n = Len(plan) /\ n >= 1
                         /\ DOMAIN plan = 1..n
                         /\ \A i \in 1..n : plan[i].start \in Int /\ plan[i].dur \in Int
      BY PlanTyped
  <1>2. CASE n < 2 \/ plan[n].dur >= MinSegment
      <2>1. merged = plan BY <1>1, <1>2 DEF MergeTinyTailSegment
      <2> QED BY <1>1, <2>1
  <1>3. CASE n >= 2 /\ ~(plan[n].dur >= MinSegment)
      <2> DEFINE at(i) == IF i = n - 1 THEN Segment(plan[i].start, plan[i].dur + plan[n].dur)
                          ELSE plan[i]
                 k == n - 1
                 f == [i \in 1..k |-> at(i)]
      <2>1. merged = f BY <1>1, <1>3 DEF MergeTinyTailSegment
      <2>2. k \in Nat /\ k >= 1 /\ k <= n BY <1>1, <1>3
      <2>3. \A i \in 1..k : i \in 1..n BY <1>1
      <2>4. \A i \in 1..k : at(i) \in R
          <3> SUFFICES ASSUME NEW i \in 1..k PROVE at(i) \in R OBVIOUS
          <3>1. i \in 1..n BY <2>3
          <3>2. plan \in Seq(R) BY DEF Plans
          <3>3. plan[i] \in R
              <4> HIDE DEF R
              <4> QED BY <1>1, <3>1, <3>2
          <3>4. Segment(plan[i].start, plan[i].dur + plan[n].dur) \in R BY <1>1, <3>1 DEF Segment
          <3> QED BY <3>3, <3>4
      <2>5. \A i \in 1..k : at(i).start = plan[i].start BY DEF Segment
      <2> HIDE DEF at, R, k
      <2>6. f \in [1..k -> R] BY <2>4
      <2>7. f \in Seq(R) /\ Len(f) = k BY <2>2, <2>6, FunctionIsSeq
      <2>8. f # <<>> BY <2>2, <2>7
      <2>9. \A i \in 1..k : f[i].start = plan[i].start BY <2>5
      <2> HIDE DEF f
      <2> QED BY <1>1, <2>1, <2>2, <2>7, <2>8, <2>9 DEF Plans, R
  <1> QED BY <1>1, <1>2, <1>3

-----------------------------------------------------------------------------
(* The number of segments of a grid: the last one begins before the end.    *)
LEMMA CeilDivBounds ==
  ASSUME NEW d \in Nat, d > 0, NEW s \in Nat, s > 0
  PROVE  /\ CeilDiv(d, s) \in Nat /\ CeilDiv(d, s) >= 1
         /\ (CeilDiv(d, s) - 1) * s < d /\ d <= CeilDiv(d, s) * s
  <1> DEFINE q == (d + s - 1) \div s
  <1>1. q \in Int /\ s * q <= d + s - 1 /\ d + s - 1 < s * q + s OBVIOUS
  <1> HIDE DEF q
  <1>2. q >= 1 BY <1>1
  <1>3. (q - 1) * s < d /\ d <= q * s BY <1>1
  <1> QED BY <1>1, <1>2, <1>3 DEF CeilDiv, q

(* THEOREM: the plan of a transcode - the grid, its last segment cut at the *)
(* end of the media, a tiny tail merged - covers media of every length with *)
(* segments ffmpeg can make, and each starts on the grid                    *)
(* (FixedHLSSegmentTimeline, hls_timeline.go).                              *)
THEOREM FixedGridTiles ==
  ASSUME NEW duration \in Nat, duration > 0, NEW segmentSec \in Nat, segmentSec >= MinSegment,
         NEW plan, plan = FixedHLSSegmentTimeline(duration, segmentSec)
  PROVE  /\ plan \in Plans /\ TilesMedia(plan, duration)
         /\ \A i \in 1..Len(plan) : plan[i].start = (i - 1) * segmentSec
  <1> DEFINE n == CeilDiv(duration, segmentSec)
             at(i) == (i - 1) * segmentSec
             length(t) == IF duration > t /\ duration - t < segmentSec
                            THEN duration - t ELSE segmentSec
             grid == [i \in 1..n |-> Segment(at(i), length(at(i)))]
  <1>1. segmentSec >= 2 BY DEF MinSegment
  <1>2. n \in Nat /\ n >= 1 /\ (n - 1) * segmentSec < duration /\ duration <= n * segmentSec
      <2>1. segmentSec > 0 BY <1>1
      <2> QED BY <2>1, CeilDivBounds
  <1>3. Max({1, n}) = n
      <2>1. \E x \in {1, n} : \A y \in {1, n} : x >= y BY <1>2
      <2>2. Max({1, n}) \in {1, n} /\ \A y \in {1, n} : Max({1, n}) >= y
          BY <2>1 DEF Max
      <2> HIDE DEF n
      <2> QED BY <1>2, <2>2
  <1>4. plan = MergeTinyTailSegment(grid)
      BY <1>3 DEF FixedHLSSegmentTimeline
  <1> HIDE DEF n
  <1>5. \A i \in 1..n : at(i) \in Nat /\ at(i) + segmentSec = at(i + 1) /\ at(i) < duration
      <2> SUFFICES ASSUME NEW i \in 1..n
                   PROVE  at(i) \in Nat /\ at(i) + segmentSec = at(i + 1) /\ at(i) < duration
          OBVIOUS
      <2>1. at(i) <= at(n) /\ at(i) \in Nat
          <3>1. i - 1 \in Nat /\ n - 1 \in Nat /\ i - 1 <= n - 1 BY <1>2
          <3> QED BY <3>1, TimesMonotone
      <2>2. at(i) + segmentSec = at(i + 1) BY <1>2
      <2>3. at(n) \in Int BY <1>2
      <2> QED BY <1>2, <2>1, <2>2, <2>3
  <1>6. \A i \in 1..n - 1 : length(at(i)) = segmentSec
      <2> SUFFICES ASSUME NEW i \in 1..n - 1 PROVE length(at(i)) = segmentSec OBVIOUS
      <2>1. at(i + 1) < duration /\ at(i) + segmentSec = at(i + 1) /\ at(i) \in Nat
          BY <1>2, <1>5
      <2> HIDE DEF at
      <2> QED BY <2>1
  <1>7. at(n) + length(at(n)) = duration /\ length(at(n)) \in Nat
      <2>1. at(n) \in Nat /\ at(n) < duration /\ duration <= at(n) + segmentSec
          <3>1. at(n) \in Nat /\ at(n) + segmentSec = at(n + 1) /\ at(n) < duration
              BY <1>2, <1>5
          <3>2. at(n + 1) = n * segmentSec BY <1>2
          <3> QED BY <1>2, <3>1, <3>2
      <2> HIDE DEF at
      <2> QED BY <2>1
  <1> HIDE DEF at, length
  <1>8. \A i \in 1..n : grid[i] = Segment(at(i), length(at(i))) OBVIOUS
  <1>9. \A i \in 1..n : length(at(i)) \in Nat
      <2> SUFFICES ASSUME NEW i \in 1..n PROVE length(at(i)) \in Nat OBVIOUS
      <2>1. i = n \/ i \in 1..n - 1 BY <1>2
      <2> QED BY <1>6, <1>7, <2>1
  <1>10. grid \in [1..n -> [start : Int, dur : Int]]
      <2>1. \A i \in 1..n : Segment(at(i), length(at(i))) \in [start : Int, dur : Int]
          BY <1>5, <1>9 DEF Segment
      <2> QED BY <2>1
  <1>11. Len(grid) = n BY <1>2
  <1>12. grid \in Plans
      <2>1. grid \in Seq([start : Int, dur : Int]) BY <1>2, <1>10, FunctionIsSeq
      <2>2. Len(grid) # 0 BY <1>2, <1>11
      <2>3. Len(<<>>) = 0 OBVIOUS
      <2> QED BY <2>1, <2>2, <2>3 DEF Plans
  <1>13. \A i \in 1..n : /\ grid[i].start = at(i) /\ grid[i].dur = length(at(i))
                         /\ SegmentEnd(grid[i]) = at(i) + length(at(i))
      BY <1>8 DEF Segment, SegmentEnd
  <1> HIDE DEF grid
  <1>14. grid[1].start = 0
      <2>1. at(1) = 0 BY DEF at
      <2> QED BY <1>2, <1>13, <2>1
  <1>15. Chained(grid, duration)
      <2>1. ASSUME NEW i \in 1..n - 1 PROVE SegmentEnd(grid[i]) = grid[i + 1].start
          <3>1. i \in 1..n /\ i + 1 \in 1..n BY <1>2
          <3> QED BY <1>5, <1>6, <1>13, <3>1
      <2>2. SegmentEnd(grid[n]) = duration BY <1>2, <1>7, <1>13
      <2> QED BY <1>11, <1>14, <2>1, <2>2 DEF Chained
  <1>16. \A i \in 1..n - 1 : grid[i].dur >= MinSegment
      <2> SUFFICES ASSUME NEW i \in 1..n - 1 PROVE grid[i].dur >= MinSegment OBVIOUS
      <2>1. i \in 1..n BY <1>2
      <2> QED BY <1>6, <1>13, <2>1
  <1>17. grid[n].dur >= 0 BY <1>2, <1>7, <1>13
  <1>18. TilesMedia(plan, duration)
      BY <1>4, <1>11, <1>12, <1>15, <1>16, <1>17, MergeTiles
  <1>19. /\ plan \in Plans /\ Len(plan) \in 1..n
         /\ \A i \in 1..Len(plan) : plan[i].start = grid[i].start
      BY <1>4, <1>11, <1>12, MergeKeepsStarts
  <1>20. ASSUME NEW i \in 1..Len(plan) PROVE plan[i].start = at(i)
      <2>1. i \in 1..n BY <1>2, <1>19
      <2> QED BY <1>13, <1>19, <2>1
  <1> QED BY <1>18, <1>19, <1>20 DEF at

(* Media that is not there has a plan of one segment.                       *)
LEMMA EmptyMediaPlan ==
  ASSUME NEW segmentSec \in Nat, segmentSec >= MinSegment,
         NEW plan, plan = FixedHLSSegmentTimeline(0, segmentSec)
  PROVE  /\ plan \in Plans /\ TilesMedia(plan, segmentSec)
         /\ \A i \in 1..Len(plan) : plan[i].start = (i - 1) * segmentSec
  <1> DEFINE grid == [i \in 1..1 |-> Segment((i - 1) * segmentSec, segmentSec)]
  <1>1. segmentSec >= 2 BY DEF MinSegment
  <1>2. CeilDiv(0, segmentSec) = 0 BY <1>1 DEF CeilDiv
  <1>3. Max({1, 0}) = 1 BY GreaterOf
  <1>4. \A i \in 1..1 : ~(0 > (i - 1) * segmentSec) BY <1>1
  <1>5. plan = MergeTinyTailSegment(grid) BY <1>2, <1>3, <1>4 DEF FixedHLSSegmentTimeline
  <1>6. Len(grid) = 1 /\ grid[1] = Segment(0, segmentSec) BY <1>1
  <1>7. plan = grid BY <1>5, <1>6 DEF MergeTinyTailSegment
  <1>8. grid[1].start = 0 /\ grid[1].dur = segmentSec /\ SegmentEnd(grid[1]) = segmentSec
      BY <1>6 DEF Segment, SegmentEnd
  <1>9. grid \in Plans
      <2>1. grid \in [1..1 -> [start : Int, dur : Int]] BY <1>6 DEF Segment
      <2> HIDE DEF grid
      <2>2. grid \in Seq([start : Int, dur : Int]) BY <2>1, FunctionIsSeq
      <2>3. grid # <<>>
          <3>1. Len(<<>>) = 0 OBVIOUS
          <3> QED BY <1>6, <3>1
      <2> QED BY <2>2, <2>3 DEF Plans
  <1> HIDE DEF grid
  <1>10. Chained(grid, segmentSec) BY <1>6, <1>8 DEF Chained
  <1>11. TilesMedia(plan, segmentSec)
      <2>1. segmentSec \in Int /\ ~(Len(grid) > 1) BY <1>6
      <2> QED BY <1>7, <1>9, <1>10, <2>1, TilesAsChained
  <1>12. \A i \in 1..Len(plan) : plan[i].start = (i - 1) * segmentSec
      BY <1>1, <1>6, <1>7, <1>8
  <1> QED BY <1>7, <1>9, <1>11, <1>12


-----------------------------------------------------------------------------
(* The keyframes of a plan.                                                 *)

(* Times inside the media, each at least MinGap after the ones before it.   *)
Thin(times, duration) ==
  /\ times \in Seq(Nat)
  /\ \A i \in 1..Len(times) : times[i] < duration
  /\ \A i, j \in 1..Len(times) : i < j => times[j] - times[i] >= MinGap

LEMMA AppendKeepsThin ==
  ASSUME NEW duration \in Nat, NEW times, Thin(times, duration), NEW t \in Nat, t < duration,
         times = <<>> \/ t - times[Len(times)] >= MinGap
  PROVE  Thin(Append(times, t), duration)
  <1> DEFINE longer == Append(times, t)
  <1>1. PICK n \in Nat : n = Len(times) BY DEF Thin
  <1>2. /\ longer \in Seq(Nat) /\ Len(longer) = n + 1 /\ longer[n + 1] = t
        /\ \A i \in 1..n : longer[i] = times[i] /\ times[i] \in Nat
      BY <1>1 DEF Thin
  <1>3. n > 0 => t - times[n] >= MinGap BY <1>1, <1>2 DEF Thin
  <1> HIDE DEF longer
  <1>4. ASSUME NEW i \in 1..n PROVE times[i] < duration /\ t - times[i] >= MinGap
      <2>1. times[i] < duration BY <1>1 DEF Thin
      <2>2. i < n => times[n] - times[i] >= MinGap BY <1>1 DEF Thin
      <2>3. times[i] \in Nat /\ n \in 1..n BY <1>2
      <2>4. times[n] \in Nat BY <1>2, <2>3
      <2>5. i = n \/ i < n OBVIOUS
      <2> QED BY <1>3, <2>1, <2>2, <2>3, <2>4, <2>5 DEF MinGap
  <1>5. ASSUME NEW i \in 1..n + 1, NEW j \in 1..n + 1, i < j
        PROVE  longer[j] - longer[i] >= MinGap
      <2>1. i \in 1..n /\ (j \in 1..n \/ j = n + 1) BY <1>5
      <2>2. j \in 1..n => times[j] - times[i] >= MinGap BY <1>1, <1>5, <2>1 DEF Thin
      <2> QED BY <1>2, <1>4, <2>1, <2>2
  <1>6. ASSUME NEW i \in 1..n + 1 PROVE longer[i] < duration
      <2>1. i \in 1..n \/ i = n + 1 OBVIOUS
      <2> QED BY <1>2, <1>4, <2>1
  <1>7. Thin(longer, duration) BY <1>2, <1>5, <1>6 DEF Thin
  <1> QED BY <1>7 DEF longer

(* Thinning keeps some of the keyframes inside the media, far enough apart. *)
LEMMA ThinnedAreThin ==
  ASSUME NEW duration \in Nat, NEW keyframes \in Seq(Int),
         NEW thinned, thinned = ThinnedKeyframes(keyframes, duration)
  PROVE  /\ Thin(thinned, duration)
         /\ \A i \in 1..Len(thinned) : thinned[i] \in ToSet(keyframes)
  <1> DEFINE N == Len(keyframes)
             T == Seq(Int)
             Keeps(out, t) ==
               0 <= t /\ t < duration /\ (out = <<>> \/ t - out[Len(out)] >= MinGap)
             Next(n, out) == IF Keeps(out, keyframes[n]) THEN Append(out, keyframes[n]) ELSE out
             step == [n \in 1..N |-> [out \in T |-> Next(n, out)]]
             Def(f) == [n \in 0..N |->
                          IF n = 0 THEN <<>>
                          ELSE IF Keeps(f[n - 1], keyframes[n]) THEN Append(f[n - 1], keyframes[n])
                          ELSE f[n - 1]]
             kept == CHOOSE f : f = Def(f)
  <1>1. N \in Nat /\ DOMAIN keyframes = 1..N /\ \A n \in 1..N : keyframes[n] \in Int OBVIOUS
  <1>2. thinned = kept[N] BY DEF ThinnedKeyframes
  <1>3. \A n \in 1..N, out \in T : Next(n, out) \in T
      <2> SUFFICES ASSUME NEW n \in 1..N, NEW out \in T PROVE Next(n, out) \in T OBVIOUS
      <2>1. keyframes[n] \in Int BY <1>1
      <2>2. Append(out, keyframes[n]) \in T BY <2>1
      <2> HIDE DEF Keeps, T, N
      <2> QED BY <2>2
  <1> HIDE DEF N
  <1>4. step \in [1..N -> [T -> T]]
      <2> HIDE DEF Next, T
      <2> QED BY <1>3
  <1>5. <<>> \in T OBVIOUS
  <1>6. \A n \in 1..N, out \in T : step[n][out] = Next(n, out)
      <2> HIDE DEF Next, T
      <2> QED OBVIOUS
  <1>7. PICK f \in [0..N -> T] : Recurs(f, N, <<>>, step)
      <2> HIDE DEF step, T
      <2> QED BY <1>1, <1>4, <1>5, RecursionUpTo
  <1> HIDE DEF step, T
  <1>8. \A n \in 0..N : f[n] = IF n = 0 THEN <<>> ELSE Next(n, f[n - 1])
      <2> SUFFICES ASSUME NEW n \in 0..N PROVE f[n] = IF n = 0 THEN <<>> ELSE Next(n, f[n - 1])
          OBVIOUS
      <2>1. n # 0 => n \in 1..N /\ n - 1 \in 0..N /\ f[n - 1] \in T BY <1>1
      <2> HIDE DEF Next
      <2> QED BY <1>6, <1>7, <2>1 DEF Recurs
  <1> HIDE DEF Keeps
  <1>9. f = Def(f) BY <1>8
  <1>10. kept = Def(kept)
      <2> HIDE DEF Def
      <2> QED BY <1>9
  <1> HIDE DEF kept
  <1>11. \A n \in 0..N : kept[n] = IF n = 0 THEN <<>> ELSE Next(n, kept[n - 1]) BY <1>10
  <1> HIDE DEF Def
  <1> DEFINE Good(out) == /\ Thin(out, duration)
                          /\ \A i \in 1..Len(out) : out[i] \in ToSet(keyframes)
             S == {n \in 0..N : Good(kept[n])}
  <1>12. 0 \in S
      <2>1. kept[0] = <<>> BY <1>1, <1>11
      <2>2. Good(<<>>) BY DEF Thin
      <2> HIDE DEF Good
      <2> QED BY <1>1, <2>1, <2>2
  <1>13. ASSUME NEW n \in 0..N - 1, n \in S PROVE n + 1 \in S
      <2>1. n + 1 \in 0..N /\ n + 1 \in 1..N /\ n + 1 # 0 /\ (n + 1) - 1 = n BY <1>1
      <2>2. kept[n + 1] = Next(n + 1, kept[n]) BY <1>11, <2>1
      <2>3. Good(kept[n]) BY <1>13
      <2> DEFINE out == kept[n]
                 t == keyframes[n + 1]
      <2>4. t \in Int /\ t \in ToSet(keyframes) BY <1>1, <2>1 DEF ToSet
      <2>5. CASE Keeps(out, t)
          <3>1. kept[n + 1] = Append(out, t) BY <2>2, <2>5
          <3>2. t \in Nat /\ t < duration /\ (out = <<>> \/ t - out[Len(out)] >= MinGap)
              BY <2>4, <2>5 DEF Keeps
          <3>3. Thin(out, duration) BY <2>3
          <3> HIDE DEF out, t
          <3>4. Thin(Append(out, t), duration) BY <3>2, <3>3, AppendKeepsThin
          <3>5. out \in Seq(Nat) BY <3>3 DEF Thin
          <3>6. \A i \in 1..Len(Append(out, t)) : Append(out, t)[i] \in ToSet(keyframes)
              BY <2>3, <2>4, <3>2, <3>5 DEF out
          <3> QED BY <2>1, <3>1, <3>4, <3>6
      <2>6. CASE ~Keeps(out, t)
          <3>1. kept[n + 1] = kept[n] BY <2>2, <2>6
          <3> HIDE DEF Good
          <3> QED BY <2>1, <2>3, <3>1
      <2> QED BY <2>5, <2>6
  <1>14. N \in S
      <2> HIDE DEF S
      <2>1. \A n \in 0..N : n \in S BY <1>1, <1>12, <1>13, InductionUpTo
      <2> QED BY <1>1, <2>1
  <1> QED BY <1>2, <1>14

(* The keyframes a plan is made from: from 0, in order, inside the media    *)
(* and, but for the first, MinGap apart.                                    *)
PreparedFor(keyframes, duration) ==
  /\ keyframes \in Seq(Nat) /\ StrictlyIncreasing(keyframes)
  /\ ToSet(keyframes) \subseteq 0..duration - 1
  /\ keyframes # <<>> => keyframes[1] = 0
  /\ \A a, b \in ToSet(keyframes) : 0 < a /\ a < b => b - a >= MinGap

LEMMA SanitizedArePrepared ==
  ASSUME NEW duration \in Nat, NEW keyframes \in Seq(Int),
         NEW clean, clean = SanitizeHLSKeyframes(keyframes, duration)
  PROVE  /\ PreparedFor(clean, duration)
         /\ clean # <<>> => duration > 0
         /\ ToSet(clean) \subseteq {0} \cup ToSet(keyframes)
  <1> DEFINE thinned == ThinnedKeyframes(keyframes, duration)
  <1>1. CASE clean = <<>>
      <2>1. ToSet(clean) = {} BY <1>1 DEF ToSet
      <2> QED BY <1>1, <2>1 DEF PreparedFor, StrictlyIncreasing
  <1>2. CASE clean # <<>>
      <2>1. clean = FromZero(thinned) /\ duration > 0 BY <1>2 DEF SanitizeHLSKeyframes
      <2>2. /\ Thin(thinned, duration)
            /\ \A i \in 1..Len(thinned) : thinned[i] \in ToSet(keyframes)
          BY ThinnedAreThin
      <2> HIDE DEF thinned
      <2>3. PICK n \in Nat : n = Len(thinned) BY <2>2 DEF Thin
      <2>4. thinned \in Seq(Nat) /\ DOMAIN thinned = 1..n /\ \A i \in 1..n : thinned[i] \in Nat
          BY <2>2, <2>3 DEF Thin
      <2>5. n > 0 BY <1>2, <2>1, <2>3, <2>4 DEF FromZero
      <2>6. \A i \in 1..n : thinned[i] < duration BY <2>2, <2>3 DEF Thin
      <2>7. \A i, j \in 1..n : i < j => thinned[j] - thinned[i] >= 2 BY <2>2, <2>3 DEF Thin, MinGap
      <2>8. Head(thinned) = thinned[1] /\ thinned # <<>> BY <2>3, <2>4, <2>5
      <2>9. CASE thinned[1] = 0
          <3>1. clean = thinned BY <2>1, <2>8, <2>9 DEF FromZero
          <3>2. StrictlyIncreasing(clean)
              <4> SUFFICES ASSUME NEW i \in 1..n, NEW j \in 1..n, i < j PROVE thinned[i] < thinned[j]
                  BY <2>3, <3>1 DEF StrictlyIncreasing
              <4>1. thinned[i] \in Nat /\ thinned[j] \in Nat /\ thinned[j] - thinned[i] >= 2
                  BY <2>4, <2>7
              <4> QED BY <4>1
          <3>3. ASSUME NEW a \in ToSet(clean) PROVE \E i \in 1..n : a = thinned[i]
              BY <2>4, <3>1 DEF ToSet
          <3>4. ToSet(clean) \subseteq 0..duration - 1
              <4> SUFFICES ASSUME NEW a \in ToSet(clean) PROVE a \in 0..duration - 1 OBVIOUS
              <4>1. PICK i \in 1..n : a = thinned[i] BY <3>3
              <4> QED BY <2>4, <2>6, <4>1
          <3>5. ASSUME NEW a \in ToSet(clean), NEW b \in ToSet(clean), 0 < a, a < b
                PROVE  b - a >= MinGap
              <4>1. PICK i \in 1..n : a = thinned[i] BY <3>3
              <4>2. PICK j \in 1..n : b = thinned[j] BY <3>3
              <4>3. a \in Nat /\ b \in Nat BY <2>4, <4>1, <4>2
              <4>4. i < j => b - a >= 2 BY <2>7, <4>1, <4>2
              <4>5. j < i => a - b >= 2 BY <2>7, <4>1, <4>2
              <4>6. i # j BY <3>5, <4>1, <4>2, <4>3
              <4> QED BY <3>5, <4>3, <4>4, <4>5, <4>6 DEF MinGap
          <3>6. \A a \in ToSet(clean) : a \in ToSet(keyframes) BY <2>2, <2>3, <3>3
          <3> QED BY <2>1, <2>4, <2>9, <3>1, <3>2, <3>4, <3>5, <3>6 DEF PreparedFor
      <2>10. CASE thinned[1] # 0
          <3> DEFINE longer == <<0>> \o thinned
          <3>1. clean = longer BY <2>1, <2>8, <2>10 DEF FromZero
          <3>2. /\ longer \in Seq(Nat) /\ Len(longer) = n + 1 /\ DOMAIN longer = 1..n + 1
                /\ longer[1] = 0
                /\ \A i \in 2..n + 1 : longer[i] = thinned[i - 1]
              BY <2>3, <2>4
          <3> HIDE DEF longer
          <3>3. \A i \in 1..n : thinned[i] > 0
              <4> SUFFICES ASSUME NEW i \in 1..n PROVE thinned[i] > 0 OBVIOUS
              <4>1. 1 \in 1..n /\ (i = 1 \/ 1 < i) BY <2>5
              <4>2. 1 < i => thinned[i] - thinned[1] >= 2 BY <2>7, <4>1
              <4> QED BY <2>4, <2>10, <4>1, <4>2
          <3>4. StrictlyIncreasing(clean)
              <4> SUFFICES ASSUME NEW i \in 1..n + 1, NEW j \in 1..n + 1, i < j
                           PROVE  longer[i] < longer[j]
                  BY <3>1, <3>2 DEF StrictlyIncreasing
              <4>1. j - 1 \in 1..n /\ j \in 2..n + 1 OBVIOUS
              <4>2. CASE i = 1 BY <3>2, <3>3, <4>1, <4>2
              <4>3. CASE i # 1
                  <5>1. i - 1 \in 1..n /\ i \in 2..n + 1 /\ i - 1 < j - 1 BY <4>3
                  <5>2. thinned[j - 1] - thinned[i - 1] >= 2 BY <2>7, <4>1, <5>1
                  <5>3. thinned[j - 1] \in Nat /\ thinned[i - 1] \in Nat BY <2>4, <4>1, <5>1
                  <5> QED BY <3>2, <4>1, <5>1, <5>2, <5>3, SMTT(30)
              <4> QED BY <4>2, <4>3
          <3>5. ASSUME NEW a \in ToSet(clean) PROVE a = 0 \/ \E i \in 1..n : a = thinned[i]
              <4>1. PICK i \in 1..n + 1 : a = longer[i] BY <3>1, <3>2 DEF ToSet
              <4>2. i = 1 \/ (i \in 2..n + 1 /\ i - 1 \in 1..n) OBVIOUS
              <4> QED BY <3>2, <4>1, <4>2
          <3>6. ToSet(clean) \subseteq 0..duration - 1
              <4> SUFFICES ASSUME NEW a \in ToSet(clean) PROVE a \in 0..duration - 1 OBVIOUS
              <4>1. a = 0 \/ \E i \in 1..n : a = thinned[i] BY <3>5
              <4> QED BY <2>1, <2>4, <2>6, <4>1
          <3>7. ASSUME NEW a \in ToSet(clean), NEW b \in ToSet(clean), 0 < a, a < b
                PROVE  b - a >= MinGap
              <4>1. PICK i \in 1..n : a = thinned[i] BY <3>5, <3>7
              <4>2. a \in Nat BY <2>4, <4>1
              <4>3. PICK j \in 1..n : b = thinned[j]
                  <5>1. b # 0 BY <3>7, <4>2
                  <5> QED BY <3>5, <5>1
              <4>4. b \in Nat BY <2>4, <4>3
              <4>5. i < j => b - a >= 2 BY <2>7, <4>1, <4>3
              <4>6. j < i => a - b >= 2 BY <2>7, <4>1, <4>3
              <4>7. i # j BY <3>7, <4>1, <4>2, <4>3
              <4> QED BY <3>7, <4>2, <4>4, <4>5, <4>6, <4>7 DEF MinGap
          <3>8. \A a \in ToSet(clean) : a \in {0} \cup ToSet(keyframes) BY <2>2, <2>3, <3>5
          <3> QED BY <2>1, <3>1, <3>2, <3>4, <3>6, <3>7, <3>8 DEF PreparedFor
      <2> QED BY <2>9, <2>10
  <1> QED BY <1>1, <1>2

-----------------------------------------------------------------------------
(* The segments cut by an end that is always later than its start: where    *)
(* they lie.                                                                *)
EndsLater(end, duration) ==
  \A s \in 0..duration - 1, n \in 1..duration : end[n][s] \in s + 1..duration

LEMMA CutTimesRecur ==
  ASSUME NEW duration \in Nat, NEW end, EndsLater(end, duration)
  PROVE  LET at == CutTimes(end, duration)
         IN  /\ \A n \in 0..duration : at[n] \in 0..duration
             /\ at[0] = 0
             /\ \A n \in 1..duration :
                  at[n] = IF at[n - 1] >= duration THEN at[n - 1] ELSE end[n][at[n - 1]]
  <1> DEFINE T == 0..duration
             Next(n, s) == IF s >= duration THEN s ELSE end[n][s]
             step == [n \in 1..duration |-> [s \in T |-> Next(n, s)]]
             Def(f) == [n \in 0..duration |->
                          IF n = 0 THEN 0 ELSE IF f[n - 1] >= duration THEN f[n - 1] ELSE end[n][f[n - 1]]]
  <1>1. \A n \in 1..duration, s \in T : Next(n, s) \in T BY DEF EndsLater
  <1>2. step \in [1..duration -> [T -> T]] BY <1>1
  <1>3. 0 \in T OBVIOUS
  <1>4. \A n \in 1..duration, s \in T : step[n][s] = Next(n, s) OBVIOUS
  <1>5. PICK f \in [0..duration -> T] : Recurs(f, duration, 0, step)
      <2> HIDE DEF step, T
      <2> QED BY <1>2, <1>3, RecursionUpTo
  <1> HIDE DEF step
  <1>6. \A n \in 0..duration : f[n] = IF n = 0 THEN 0 ELSE Next(n, f[n - 1])
      <2> SUFFICES ASSUME NEW n \in 0..duration
                   PROVE  f[n] = IF n = 0 THEN 0 ELSE Next(n, f[n - 1])
          OBVIOUS
      <2>1. n # 0 => n \in 1..duration /\ n - 1 \in 0..duration /\ f[n - 1] \in T OBVIOUS
      <2> HIDE DEF T, Next
      <2> QED BY <1>4, <1>5, <2>1 DEF Recurs
  <1>7. f = Def(f) BY <1>6
  <1> DEFINE at == CutTimes(end, duration)
  <1>8. at = CHOOSE g : g = Def(g) BY DEF CutTimes
  <1>9. at = Def(at)
      <2> HIDE DEF Def, at
      <2> QED BY <1>7, <1>8
  <1>10. \A n \in 0..duration : at[n] = IF n = 0 THEN 0 ELSE Next(n, at[n - 1])
      <2> HIDE DEF at
      <2> QED BY <1>9
  <1> HIDE DEF at, Def
  <1>11. \A n \in 0..duration : at[n] \in T
      <2> DEFINE S == {n \in 0..duration : at[n] \in T}
      <2>1. 0 \in S BY <1>10, <1>3
      <2>2. ASSUME NEW n \in 0..duration - 1, n \in S PROVE n + 1 \in S
          <3>1. n + 1 \in 1..duration /\ n + 1 \in 0..duration /\ (n + 1) - 1 = n /\ at[n] \in T BY <2>2
          <3>2. at[n + 1] = Next(n + 1, at[n]) BY <1>10, <3>1
          <3> HIDE DEF T, Next
          <3> QED BY <1>1, <3>1, <3>2
      <2>3. \A n \in 0..duration : n \in S
          <3> HIDE DEF S
          <3> QED BY <2>1, <2>2, InductionUpTo
      <2> QED BY <2>3
  <1>12. at[0] = 0 BY <1>10
  <1>13. \A n \in 1..duration : at[n] = Next(n, at[n - 1]) BY <1>10
  <1> QED BY <1>11, <1>12, <1>13 DEF at

(* The cuts up to the first that is the end of the media.                   *)
LEMMA SegmentsOfCuts ==
  ASSUME NEW duration \in Nat, duration > 0, NEW end, EndsLater(end, duration),
         NEW at, at = CutTimes(end, duration)
  PROVE  \E m \in 1..duration :
           /\ SegmentsCutAt(at, duration) = [i \in 1..m |-> Segment(at[i - 1], at[i] - at[i - 1])]
           /\ at[0] = 0 /\ at[m] = duration
           /\ \A i \in 0..m - 1 : at[i] \in 0..duration - 1
           /\ \A i \in 1..m : at[i] = end[i][at[i - 1]] /\ at[i] > at[i - 1]
  <1>1. /\ \A n \in 0..duration : at[n] \in 0..duration
        /\ at[0] = 0
        /\ \A n \in 1..duration :
             at[n] = IF at[n - 1] >= duration THEN at[n - 1] ELSE end[n][at[n - 1]]
      BY CutTimesRecur
  <1>2. \A n \in 0..duration : at[n] >= n
      <2> DEFINE S == {n \in 0..duration : at[n] >= n}
      <2>1. 0 \in S BY <1>1
      <2>2. ASSUME NEW n \in 0..duration - 1, n \in S PROVE n + 1 \in S
          <3>1. n + 1 \in 1..duration /\ (n + 1) - 1 = n /\ n + 1 \in 0..duration OBVIOUS
          <3>2. at[n] \in 0..duration /\ at[n] >= n BY <1>1, <2>2
          <3>3. at[n + 1] = IF at[n] >= duration THEN at[n] ELSE end[n + 1][at[n]] BY <1>1, <3>1
          <3>4. CASE at[n] >= duration BY <3>1, <3>2, <3>3, <3>4
          <3>5. CASE at[n] < duration
              <4>1. at[n] \in 0..duration - 1 BY <3>2, <3>5
              <4>2. end[n + 1][at[n]] \in at[n] + 1..duration BY <3>1, <4>1 DEF EndsLater
              <4> QED BY <3>1, <3>2, <3>3, <3>5, <4>2
          <3> QED BY <3>2, <3>4, <3>5
      <2>3. \A n \in 0..duration : n \in S
          <3> HIDE DEF S
          <3> QED BY <2>1, <2>2, InductionUpTo
      <2> QED BY <2>3
  <1> DEFINE done == {n \in 1..duration : at[n] >= duration}
             m == Min(done)
  <1>3. done \subseteq Nat /\ done # {}
      <2>1. duration \in done BY <1>2
      <2> QED BY <2>1
  <1>4. m \in done /\ \A n \in done : m <= n
      <2> HIDE DEF done
      <2> QED BY <1>3, MinIsLeast
  <1>5. SegmentsCutAt(at, duration) = [i \in 1..m |-> Segment(at[i - 1], at[i] - at[i - 1])]
      BY DEF SegmentsCutAt
  <1> HIDE DEF m
  <1>6. m \in 1..duration /\ at[m] = duration
      <2>1. m \in 1..duration /\ at[m] >= duration BY <1>4
      <2>2. at[m] \in 0..duration BY <1>1, <2>1
      <2> QED BY <2>1, <2>2
  <1>7. ASSUME NEW i \in 0..m - 1 PROVE at[i] \in 0..duration - 1
      <2>1. at[i] \in 0..duration BY <1>1, <1>6
      <2>2. i # 0 => i \in 1..duration /\ i \notin done BY <1>4, <1>6
      <2>3. at[i] < duration BY <1>1, <2>1, <2>2
      <2> QED BY <2>1, <2>3
  <1>8. ASSUME NEW i \in 1..m PROVE at[i] = end[i][at[i - 1]] /\ at[i] > at[i - 1]
      <2>1. i - 1 \in 0..m - 1 /\ i \in 1..duration BY <1>6
      <2>2. at[i - 1] \in 0..duration - 1 BY <1>7, <2>1
      <2>3. at[i] = end[i][at[i - 1]] BY <1>1, <2>1, <2>2
      <2>4. end[i][at[i - 1]] \in at[i - 1] + 1..duration BY <2>1, <2>2 DEF EndsLater
      <2> QED BY <2>2, <2>3, <2>4
  <1> QED BY <1>1, <1>5, <1>6, <1>7, <1>8

(* The ends of segments that start on keyframes are keyframes, far enough   *)
(* from their starts, or the end of the media.                              *)
EndsOnKeyframes(end, K, duration) ==
  \A n \in 1..duration, s \in K :
    end[n][s] # duration => end[n][s] \in K /\ end[n][s] - s >= MinSegment

LEMMA CutsTile ==
  ASSUME NEW duration \in Nat, duration > 0, NEW end, EndsLater(end, duration),
         NEW K, K \subseteq 0..duration - 1, 0 \in K, EndsOnKeyframes(end, K, duration),
         NEW merged, merged = MergeTinyTailSegment(SegmentsCutAt(CutTimes(end, duration), duration))
  PROVE  /\ merged \in Plans /\ TilesMedia(merged, duration)
         /\ \A i \in 1..Len(merged) : merged[i].start \in K
  <1> DEFINE at == CutTimes(end, duration)
             plan == SegmentsCutAt(at, duration)
             R == [start : Int, dur : Int]
  <1>1. PICK m \in 1..duration :
           /\ plan = [i \in 1..m |-> Segment(at[i - 1], at[i] - at[i - 1])]
           /\ at[0] = 0 /\ at[m] = duration
           /\ \A i \in 0..m - 1 : at[i] \in 0..duration - 1
           /\ \A i \in 1..m : at[i] = end[i][at[i - 1]] /\ at[i] > at[i - 1]
      <2> HIDE DEF at
      <2>1. at = CutTimes(end, duration) BY DEF at
      <2> QED BY <2>1, SegmentsOfCuts
  <1> HIDE DEF at, plan
  <1>2. m \in Nat /\ m >= 1 OBVIOUS
  <1>3. \A i \in 0..m : at[i] \in 0..duration
      <2> SUFFICES ASSUME NEW i \in 0..m PROVE at[i] \in 0..duration OBVIOUS
      <2>1. i = m \/ i \in 0..m - 1 OBVIOUS
      <2> QED BY <1>1, <2>1
  <1>4. \A i \in 1..m : /\ plan[i].start = at[i - 1] /\ plan[i].dur = at[i] - at[i - 1]
                        /\ plan[i] \in R
      <2> SUFFICES ASSUME NEW i \in 1..m
                   PROVE  /\ plan[i].start = at[i - 1] /\ plan[i].dur = at[i] - at[i - 1]
                          /\ plan[i] \in R
          OBVIOUS
      <2>1. i \in 0..m /\ i - 1 \in 0..m OBVIOUS
      <2>2. at[i] \in Int /\ at[i - 1] \in Int BY <1>3, <2>1
      <2>3. plan[i] = Segment(at[i - 1], at[i] - at[i - 1]) BY <1>1
      <2> QED BY <2>2, <2>3 DEF Segment
  <1>5. plan \in Plans /\ Len(plan) = m
      <2> HIDE DEF R
      <2>1. plan \in [1..m -> R] BY <1>1, <1>4
      <2>2. plan \in Seq(R) /\ Len(plan) = m BY <1>2, <2>1, FunctionIsSeq
      <2> QED BY <1>2, <2>2 DEF Plans, R
  <1>6. \A i \in 0..m - 1 : at[i] \in K
      <2> DEFINE S == {i \in 0..m - 1 : at[i] \in K}
      <2>1. 0 \in S BY <1>1
      <2>2. ASSUME NEW i \in 0..(m - 1) - 1, i \in S PROVE i + 1 \in S
          <3>1. i + 1 \in 1..m - 1 /\ i + 1 \in 0..m - 1 /\ i + 1 \in 1..m /\ i + 1 \in 1..duration
                /\ (i + 1) - 1 = i OBVIOUS
          <3>2. at[i + 1] = end[i + 1][at[i]] /\ at[i + 1] \in 0..duration - 1 /\ at[i] \in K
              BY <1>1, <2>2, <3>1
          <3>3. at[i + 1] # duration BY <3>2
          <3>4. at[i + 1] \in K BY <3>1, <3>2, <3>3 DEF EndsOnKeyframes
          <3> QED BY <3>1, <3>4
      <2>3. m - 1 \in Nat OBVIOUS
      <2>4. \A i \in 0..m - 1 : i \in S
          <3> HIDE DEF S
          <3> QED BY <2>1, <2>2, <2>3, InductionUpTo
      <2> QED BY <2>4
  <1>7. \A i \in 1..m - 1 : plan[i].dur >= MinSegment
      <2> SUFFICES ASSUME NEW i \in 1..m - 1 PROVE plan[i].dur >= MinSegment OBVIOUS
      <2>1. i \in 1..m /\ i \in 0..m - 1 /\ i - 1 \in 0..m - 1 /\ i \in 1..duration OBVIOUS
      <2>2. at[i] = end[i][at[i - 1]] /\ at[i] # duration /\ at[i - 1] \in K BY <1>1, <1>6, <2>1
      <2>3. at[i] - at[i - 1] >= MinSegment BY <2>1, <2>2 DEF EndsOnKeyframes
      <2> QED BY <1>4, <2>1, <2>3
  <1>8. Chained(plan, duration)
      <2>1. plan[1].start = 0
          <3>1. 1 \in 1..m /\ 1 - 1 = 0 BY <1>2
          <3>2. plan[1].start = at[1 - 1] BY <1>4, <3>1
          <3> QED BY <1>1, <3>1, <3>2
      <2>2. ASSUME NEW i \in 1..m - 1 PROVE SegmentEnd(plan[i]) = plan[i + 1].start
          <3>1. i \in 1..m /\ i + 1 \in 1..m /\ (i + 1) - 1 = i /\ i \in 0..m /\ i - 1 \in 0..m OBVIOUS
          <3>2. at[i] \in Int /\ at[i - 1] \in Int BY <1>3, <3>1
          <3>3. plan[i].start = at[i - 1] /\ plan[i].dur = at[i] - at[i - 1] /\ plan[i + 1].start = at[i]
              BY <1>4, <3>1
          <3> QED BY <3>2, <3>3 DEF SegmentEnd
      <2>3. SegmentEnd(plan[m]) = duration
          <3>1. m \in 1..m /\ m - 1 \in 0..m OBVIOUS
          <3>2. plan[m].start = at[m - 1] /\ plan[m].dur = at[m] - at[m - 1] BY <1>4, <3>1
          <3>3. at[m - 1] \in Int /\ at[m] = duration BY <1>1, <1>3, <3>1
          <3> QED BY <3>2, <3>3 DEF SegmentEnd
      <2> QED BY <1>5, <2>1, <2>2, <2>3 DEF Chained
  <1>9. plan[m].dur >= 0
      <2>1. m \in 1..m /\ m - 1 \in 0..m - 1 OBVIOUS
      <2> QED BY <1>1, <1>4, <2>1
  <1>10. TilesMedia(merged, duration)
      BY <1>5, <1>7, <1>8, <1>9, MergeTiles DEF plan, at
  <1>11. /\ merged \in Plans /\ Len(merged) \in 1..m
         /\ \A i \in 1..Len(merged) : merged[i].start = plan[i].start
      BY <1>5, MergeKeepsStarts DEF plan, at
  <1>12. ASSUME NEW i \in 1..Len(merged) PROVE merged[i].start \in K
      <2>1. i \in 1..m /\ i - 1 \in 0..m - 1 BY <1>11
      <2> QED BY <1>4, <1>6, <1>11, <2>1
  <1> QED BY <1>10, <1>11, <1>12

(* The first keyframe at or after a time, when there is one.                *)
LEMMA FirstIsFirst ==
  ASSUME NEW keyframes, ToSet(keyframes) \subseteq Nat, NEW time, NEW otherwise,
         NEW k, k = FirstAtOrAfter(keyframes, time, otherwise)
  PROVE  /\ (\E t \in ToSet(keyframes) : t >= time) =>
              /\ k \in ToSet(keyframes) /\ k >= time
              /\ \A t \in ToSet(keyframes) : t >= time => k <= t
         /\ (\A t \in ToSet(keyframes) : ~(t >= time)) => k = otherwise
  <1> DEFINE later == {t \in ToSet(keyframes) : t >= time}
  <1>1. k = IF later = {} THEN otherwise ELSE Min(later) BY DEF FirstAtOrAfter
  <1>2. CASE later = {} BY <1>1, <1>2
  <1>3. CASE later # {}
      <2>1. later \subseteq Nat OBVIOUS
      <2>2. Min(later) \in later /\ \A t \in later : Min(later) <= t
          <3> HIDE DEF later
          <3> QED BY <1>3, <2>1, MinIsLeast
      <2> QED BY <1>1, <1>3, <2>2
  <1> QED BY <1>2, <1>3

(* Ends that are the first keyframe at least some time later, and not less  *)
(* than MinSegment later in the first segment.                              *)
LEMMA EndsOfPlan ==
  ASSUME NEW duration \in Nat, duration > 0, NEW keyframes, PreparedFor(keyframes, duration),
         keyframes # <<>>, NEW after, NEW end,
         end = [n \in 1..duration |-> [s \in 0..duration - 1 |->
                  FirstAtOrAfter(keyframes, after[n][s], duration)]],
         \A n \in 1..duration, s \in 0..duration - 1 :
           after[n][s] \in Nat /\ after[n][s] > s /\ (s = 0 => after[n][s] >= MinSegment)
  PROVE  EndsLater(end, duration) /\ EndsOnKeyframes(end, ToSet(keyframes), duration)
  <1> DEFINE K == ToSet(keyframes)
  <1>1. K \subseteq 0..duration - 1 /\ \A a, b \in K : 0 < a /\ a < b => b - a >= MinGap
      BY DEF PreparedFor
  <1>2. K \subseteq Nat
      <2> HIDE DEF K
      <2> QED BY <1>1
  <1>3. \A n \in 1..duration, s \in 0..duration - 1 :
          end[n][s] = FirstAtOrAfter(keyframes, after[n][s], duration)
      OBVIOUS
  <1>4. ASSUME NEW n \in 1..duration, NEW s \in 0..duration - 1
        PROVE  end[n][s] = duration \/ (end[n][s] \in K /\ end[n][s] >= after[n][s])
      <2>1. \/ \E t \in K : t >= after[n][s]
            \/ \A t \in K : ~(t >= after[n][s]) OBVIOUS
      <2> QED BY <1>2, <1>3, <2>1, FirstIsFirst
  <1> HIDE DEF K
  <1>5. ASSUME NEW n \in 1..duration, NEW s \in 0..duration - 1 PROVE end[n][s] \in s + 1..duration
      <2>1. after[n][s] \in Nat /\ after[n][s] > s OBVIOUS
      <2>2. end[n][s] \in K => end[n][s] \in 0..duration - 1 BY <1>1
      <2> QED BY <1>4, <2>1, <2>2
  <1>6. ASSUME NEW n \in 1..duration, NEW s \in K, end[n][s] # duration
        PROVE  end[n][s] \in K /\ end[n][s] - s >= MinSegment
      <2>1. s \in 0..duration - 1 BY <1>1
      <2>2. end[n][s] \in K /\ end[n][s] >= after[n][s] BY <1>4, <1>6, <2>1
      <2>3. after[n][s] \in Nat /\ after[n][s] > s /\ (s = 0 => after[n][s] >= MinSegment) BY <2>1
      <2>4. end[n][s] \in Nat BY <1>2, <2>2
      <2>5. s > 0 => end[n][s] - s >= MinGap BY <1>1, <2>1, <2>2, <2>3, <2>4
      <2>6. MinGap = 2 /\ MinSegment = 2 BY DEF MinGap, MinSegment
      <2> QED BY <2>1, <2>2, <2>3, <2>4, <2>5, <2>6
  <1> QED BY <1>5, <1>6 DEF EndsLater, EndsOnKeyframes, K

LEMMA StartsAtZero ==
  ASSUME NEW duration \in Nat, NEW keyframes, PreparedFor(keyframes, duration), keyframes # <<>>
  PROVE  0 \in ToSet(keyframes) /\ FromZero(keyframes) = keyframes
  <1>1. keyframes \in Seq(Nat) /\ keyframes[1] = 0 BY DEF PreparedFor
  <1>2. 1 \in DOMAIN keyframes /\ Head(keyframes) = keyframes[1] BY <1>1
  <1> QED BY <1>1, <1>2 DEF ToSet, FromZero

LEMMA SegmentOrDefault ==
  ASSUME NEW given \in Nat, given >= MinSegment \/ given = 0
  PROVE  OrDefault(given) \in Nat /\ OrDefault(given) >= MinSegment
  BY DEF OrDefault, MinSegment, DefaultSegment

(* THEOREM: the plan of a copy - each segment ends on a keyframe - covers   *)
(* the media with segments ffmpeg can make (vodCopyModeSegmentTimeline,     *)
(* hls_vod.go).                                                             *)
THEOREM CopyPlanTiles ==
  ASSUME NEW duration \in Nat, duration > 0, NEW keyframes, PreparedFor(keyframes, duration),
         keyframes # <<>>, NEW segmentSec \in Nat, segmentSec >= MinSegment,
         NEW plan, plan = VodCopyModeSegmentTimeline(duration, keyframes, segmentSec)
  PROVE  plan \in Plans /\ TilesMedia(plan, duration) /\ CutsOnKeyframes(plan, keyframes)
         /\ \A i \in 1..Len(plan) : plan[i].start \in ToSet(keyframes)
  <1> DEFINE time(n, s) == Max({s + 1, n * segmentSec})
             after == [n \in 1..duration |-> [s \in 0..duration - 1 |-> time(n, s)]]
             end == [n \in 1..duration |-> [s \in 0..duration - 1 |->
                       FirstAtOrAfter(keyframes, time(n, s), duration)]]
  <1>1. 0 \in ToSet(keyframes) /\ FromZero(keyframes) = keyframes BY StartsAtZero
  <1>2. plan = MergeTinyTailSegment(SegmentsCutAt(CutTimes(end, duration), duration))
      BY <1>1 DEF VodCopyModeSegmentTimeline
  <1>3. ASSUME NEW n \in 1..duration, NEW s \in 0..duration - 1
        PROVE  time(n, s) \in Nat /\ time(n, s) > s /\ (s = 0 => time(n, s) >= MinSegment)
      <2>1. n * segmentSec \in Nat /\ n * segmentSec >= segmentSec BY DEF MinSegment
      <2>2. s + 1 \in Int /\ n * segmentSec \in Int BY <2>1
      <2>3. time(n, s) = IF s + 1 >= n * segmentSec THEN s + 1 ELSE n * segmentSec
          BY <2>2, GreaterOf
      <2> HIDE DEF time
      <2>4. CASE s + 1 >= n * segmentSec
          <3>1. time(n, s) = s + 1 BY <2>3, <2>4
          <3>2. s + 1 >= MinSegment BY <2>1, <2>4 DEF MinSegment
          <3> QED BY <3>1, <3>2
      <2>5. CASE ~(s + 1 >= n * segmentSec)
          <3>1. time(n, s) = n * segmentSec BY <2>3, <2>5
          <3>2. n * segmentSec > s /\ n * segmentSec >= MinSegment BY <2>1, <2>5 DEF MinSegment
          <3> QED BY <2>1, <3>1, <3>2
      <2> QED BY <2>4, <2>5
  <1> HIDE DEF time
  <1>4. end = [n \in 1..duration |-> [s \in 0..duration - 1 |->
                 FirstAtOrAfter(keyframes, after[n][s], duration)]] OBVIOUS
  <1>5. \A n \in 1..duration, s \in 0..duration - 1 :
          after[n][s] \in Nat /\ after[n][s] > s /\ (s = 0 => after[n][s] >= MinSegment)
      BY <1>3
  <1> HIDE DEF end, after
  <1>6. EndsLater(end, duration) /\ EndsOnKeyframes(end, ToSet(keyframes), duration)
      BY <1>4, <1>5, EndsOfPlan
  <1>7. ToSet(keyframes) \subseteq 0..duration - 1 BY DEF PreparedFor
  <1>8. /\ plan \in Plans /\ TilesMedia(plan, duration)
        /\ \A i \in 1..Len(plan) : plan[i].start \in ToSet(keyframes)
      BY <1>1, <1>2, <1>6, <1>7, CutsTile
  <1> QED BY <1>8 DEF CutsOnKeyframes

(* THEOREM: so does the plan of segments made on demand, each at least the  *)
(* segment length from its own start (BuildHLSSegmentTimeline,              *)
(* hls_timeline.go).                                                        *)
THEOREM DemandPlanTiles ==
  ASSUME NEW duration \in Nat, duration > 0, NEW keyframes, PreparedFor(keyframes, duration),
         keyframes # <<>>, NEW given \in Nat, given >= MinSegment \/ given = 0,
         NEW plan, plan = BuildHLSSegmentTimeline(duration, keyframes, given, 0)
  PROVE  plan \in Plans /\ TilesMedia(plan, duration)
  <1> DEFINE segmentSec == OrDefault(given)
             after == [n \in 1..duration |-> [s \in 0..duration - 1 |-> s + segmentSec]]
             end == [n \in 1..duration |-> [s \in 0..duration - 1 |->
                       FirstAtOrAfter(keyframes, s + segmentSec, duration)]]
  <1>1. 0 \in ToSet(keyframes) /\ FromZero(keyframes) = keyframes BY StartsAtZero
  <1>2. segmentSec \in Nat /\ segmentSec >= MinSegment BY SegmentOrDefault
  <1>3. HLSMediaTimelineDuration(duration, 0) = duration /\ ~(duration <= 0)
        /\ NormalizeHLSKeyframeTimes(keyframes, 0) = keyframes
      BY DEF HLSMediaTimelineDuration, NormalizeHLSKeyframeTimes
  <1>4. plan = MergeTinyTailSegment(SegmentsCutAt(CutTimes(end, duration), duration))
      BY <1>1, <1>3 DEF BuildHLSSegmentTimeline
  <1> HIDE DEF segmentSec
  <1>5. end = [n \in 1..duration |-> [s \in 0..duration - 1 |->
                 FirstAtOrAfter(keyframes, after[n][s], duration)]] OBVIOUS
  <1>6. \A n \in 1..duration, s \in 0..duration - 1 :
          after[n][s] \in Nat /\ after[n][s] > s /\ (s = 0 => after[n][s] >= MinSegment)
      <2>1. \A n \in 1..duration, s \in 0..duration - 1 : after[n][s] = s + segmentSec OBVIOUS
      <2> HIDE DEF after
      <2> QED BY <1>2, <2>1 DEF MinSegment
  <1> HIDE DEF end, after
  <1>7. EndsLater(end, duration) /\ EndsOnKeyframes(end, ToSet(keyframes), duration)
      BY <1>5, <1>6, EndsOfPlan
  <1>8. ToSet(keyframes) \subseteq 0..duration - 1 BY DEF PreparedFor
  <1> QED BY <1>1, <1>4, <1>7, <1>8, CutsTile

-----------------------------------------------------------------------------
(* In a tiling no segment is empty and none reaches past the end.           *)
LEMMA SegmentsWithinMedia ==
  ASSUME NEW plan \in Plans, NEW duration \in Nat, duration > 0, TilesMedia(plan, duration),
         NEW i \in 1..Len(plan)
  PROVE  plan[i].dur \in 1..duration
  <1>1. PICK n \in Nat : /\ n = Len(plan) /\ n >= 1
                         /\ \A k \in 1..n : plan[k].start \in Int /\ plan[k].dur \in Int
      BY PlanTyped
  <1>2. /\ plan[1].start = 0
        /\ \A k \in 1..n - 1 : plan[k].start + plan[k].dur = plan[k + 1].start
        /\ plan[n].start + plan[n].dur = duration
        /\ n > 1 => \A k \in 1..n : plan[k].dur >= 2
      BY <1>1, TilesAsChained DEF Chained, MinSegment, SegmentEnd
  <1>3. CASE n = 1 BY <1>1, <1>2, <1>3
  <1>4. CASE n > 1
      <2>1. \A k \in 1..n : plan[k].dur >= 2 /\ plan[k].start \in Int /\ plan[k].dur \in Int
          BY <1>1, <1>2, <1>4
      <2>2. \A k \in 1..n : plan[k].start >= 0
          <3> DEFINE Bad == {k \in 1..n : plan[k].start < 0}
          <3> SUFFICES ASSUME Bad # {} PROVE FALSE BY <2>1
          <3>1. PICK k \in Bad : \A j \in Bad : k <= j
              <4>1. Bad \subseteq Nat OBVIOUS
              <4> QED BY <4>1, LeastNatural
          <3>2. k # 1 BY <1>2, <3>1
          <3>3. k - 1 \in 1..n - 1 /\ k - 1 \notin Bad BY <3>1, <3>2
          <3>4. plan[k - 1].start + plan[k - 1].dur = plan[k].start BY <1>2, <3>3
          <3>5. plan[k - 1].start >= 0 BY <2>1, <3>3
          <3>6. plan[k - 1].dur >= 2 /\ plan[k - 1].start \in Int /\ plan[k - 1].dur \in Int
              BY <2>1, <3>3
          <3>7. plan[k].start < 0 BY <3>1
          <3>8. plan[k - 1].start + plan[k - 1].dur >= 0 BY <3>5, <3>6
          <3> HIDE DEF Bad
          <3> QED BY <3>4, <3>6, <3>7, <3>8
      <2>3. \A k \in 1..n : plan[k].start + plan[k].dur <= duration
          <3> DEFINE Bad == {j \in 0..n - 1 : plan[n - j].start + plan[n - j].dur > duration}
          <3>1. ASSUME Bad # {} PROVE FALSE
              <4>1. PICK j \in Bad : \A h \in Bad : j <= h
                  <5>1. Bad \subseteq Nat OBVIOUS
                  <5> QED BY <3>1, <5>1, LeastNatural
              <4> DEFINE k == n - j
              <4>2. k \in 1..n /\ plan[k].start + plan[k].dur > duration BY <4>1
              <4>3. k # n BY <1>2, <4>2
              <4>4. k \in 1..n - 1 /\ k + 1 \in 1..n /\ j - 1 \in 0..n - 1 /\ j - 1 \notin Bad
                  <5>1. j \in 0..n - 1 /\ j # 0 BY <4>1, <4>3
                  <5>2. j - 1 \in 0..n - 1 /\ ~(j <= j - 1) BY <5>1
                  <5>3. j - 1 \notin Bad
                      <6> HIDE DEF Bad, k
                      <6> QED BY <4>1, <5>2
                  <5>4. k \in 1..n - 1 /\ k + 1 \in 1..n
                      <6> HIDE DEF Bad
                      <6> QED BY <5>1
                  <5> QED BY <5>2, <5>3, <5>4
              <4>5. n - (j - 1) = k + 1 BY <4>1
              <4>6. ~(plan[k + 1].start + plan[k + 1].dur > duration) BY <4>4, <4>5
              <4>7. plan[k].start + plan[k].dur = plan[k + 1].start BY <1>2, <4>4
              <4>8. plan[k + 1].dur >= 2 /\ plan[k + 1].start \in Int /\ plan[k + 1].dur \in Int
                  BY <2>1, <4>4
              <4> HIDE DEF k
              <4> QED BY <4>2, <4>6, <4>7, <4>8
          <3>2. ASSUME NEW k \in 1..n PROVE plan[k].start + plan[k].dur <= duration
              <4>1. n - k \in 0..n - 1 /\ n - (n - k) = k OBVIOUS
              <4>2. n - k \notin Bad BY <3>1
              <4>3. ~(plan[k].start + plan[k].dur > duration) BY <4>1, <4>2
              <4>4. plan[k].start \in Int /\ plan[k].dur \in Int BY <2>1
              <4> QED BY <4>3, <4>4
          <3> QED BY <3>2
      <2>4. /\ plan[i].start >= 0 /\ plan[i].start + plan[i].dur <= duration
            /\ plan[i].dur >= 2 /\ plan[i].start \in Int /\ plan[i].dur \in Int
          BY <1>1, <2>1, <2>2, <2>3
      <2> QED BY <2>4
  <1>5. n = 1 \/ n > 1 BY <1>1
  <1> QED BY <1>3, <1>4, <1>5

(* THEOREM: whatever a plan's longest segment, #EXT-X-TARGETDURATION is not *)
(* exceeded by any duration the playlist lists (BuildVODPlaylist, hls_vod). *)
THEOREM TargetDurationCovers ==
  ASSUME NEW plan \in Plans, NEW duration \in Nat, duration > 0, TilesMedia(plan, duration),
         NEW segmentSec \in Nat
  PROVE  TargetCovers(BuildVODPlaylist(plan, segmentSec))
  <1>1. PICK n \in Nat : n = Len(plan) /\ n >= 1 /\ DOMAIN plan = 1..n
      BY PlanTyped
  <1>2. \A i \in 1..n : plan[i].dur \in 1..duration BY <1>1, SegmentsWithinMedia
  <1> DEFINE durs == {0} \cup {plan[i].dur : i \in DOMAIN plan}
             longest == Max(durs)
  <1>3. durs \subseteq 0..duration /\ durs # {} BY <1>1, <1>2
  <1>4. longest \in durs /\ \A d \in durs : d <= longest BY <1>3, MaxIsGreatest
  <1>5. \A i \in 1..n : plan[i].dur \in durs BY <1>1
  <1> HIDE DEF durs
  <1>6. longest \in 0..duration BY <1>3, <1>4
  <1>7. longest > 0
      <2>1. plan[1].dur \in 1..duration /\ plan[1].dur <= longest BY <1>1, <1>2, <1>4, <1>5
      <2> QED BY <1>6, <2>1
  <1>8. VODTargetDurationSec(plan) = CeilDiv(longest, 4)
      BY <1>6, <1>7 DEF VODTargetDurationSec, OrDefault, UnitsPerSecond, durs
  <1> HIDE DEF longest
  <1>9. longest <= CeilDiv(longest, 4) * 4 /\ CeilDiv(longest, 4) \in Nat
      <2>1. longest \in Nat BY <1>6
      <2>2. /\ CeilDiv(longest, 4) \in Nat /\ CeilDiv(longest, 4) >= 1
            /\ (CeilDiv(longest, 4) - 1) * 4 < longest /\ longest <= CeilDiv(longest, 4) * 4
          <3>1. 4 \in Nat /\ 4 > 0 OBVIOUS
          <3> QED BY <1>7, <2>1, <3>1, CeilDivBounds, Zenon
      <2> QED BY <2>2
  <1> DEFINE playlist == BuildVODPlaylist(plan, segmentSec)
  <1>10. /\ playlist.target = CeilDiv(longest, 4)
         /\ DOMAIN playlist.segments = 1..n
         /\ \A i \in 1..n : playlist.segments[i] = plan[i].dur
      BY <1>1, <1>2, <1>8 DEF BuildVODPlaylist
  <1> HIDE DEF playlist
  <1>11. ASSUME NEW i \in 1..n PROVE playlist.segments[i] <= 4 * playlist.target
      <2>1. plan[i].dur <= longest /\ plan[i].dur \in Int BY <1>2, <1>4, <1>5
      <2> QED BY <1>6, <1>9, <1>10, <2>1
  <1>12. TargetCovers(playlist) BY <1>10, <1>11 DEF TargetCovers, UnitsPerSecond
  <1> QED BY <1>12 DEF playlist

-----------------------------------------------------------------------------
(* What ffprobe says of packets: whether they begin a keyframe, and times   *)
(* that are -1 when it does not know them.                                  *)
IsProbeOf(packets, n) ==
  packets \in [1..n -> [key : BOOLEAN, pts : Nat \cup {-1}, dts : Nat \cup {-1}]]

Spread(count, gop, frameUnits) == [i \in 1..count |-> (i - 1) * gop * frameUnits]

LEMMA SpreadKeyframes ==
  ASSUME NEW count \in Nat \ {0}, NEW gop \in Nat \ {0}, NEW frameUnits \in Nat \ {0},
         NEW times, times = Spread(count, gop, frameUnits)
  PROVE  /\ Len(times) = count /\ times # <<>> /\ times[1] = 0
         /\ \A i \in 1..count - 1 : times[i] < times[i + 1]
  <1>1. PICK step \in Nat : step = gop * frameUnits /\ step > 0 OBVIOUS
  <1>2. \A i \in 1..count : times[i] = (i - 1) * gop * frameUnits BY DEF Spread
  <1>3. \A i \in 1..count : (i - 1) * gop * frameUnits = (i - 1) * step BY <1>1
  <1>4. Len(times) = count BY DEF Spread
  <1>5. \A i \in 1..count : times[i] = (i - 1) * step BY <1>2, <1>3
  <1>6. ASSUME NEW i \in 1..count - 1 PROVE times[i] < times[i + 1]
      <2>1. i \in 1..count /\ i + 1 \in 1..count /\ (i + 1) - 1 = i OBVIOUS
      <2>2. times[i] = (i - 1) * step /\ times[i + 1] = i * step BY <1>5, <2>1
      <2>3. i * step = (i - 1) * step + step BY <1>1
      <2>4. (i - 1) * step \in Int OBVIOUS
      <2> QED BY <1>1, <2>2, <2>3, <2>4
  <1>7. times[1] = 0 BY <1>1, <1>5
  <1>8. times # <<>>
      <2>1. Len(<<>>) = 0 OBVIOUS
      <2> QED BY <1>4, <2>1
  <1> QED BY <1>4, <1>6, <1>7, <1>8

(* THEOREM: the probe loses no keyframe and invents none: its times are in  *)
(* order and are those of the packets, of the frames when the packets show  *)
(* no keyframe, or one for each keyframe when no time is known              *)
(* (ProbeVideoKeyframeTimes, hls_keyframes.go).                             *)
THEOREM ProbesFindKeyframes ==
  ASSUME NEW n \in Nat, NEW packets, IsProbeOf(packets, n),
         NEW frames \in SUBSET Int, IsFiniteSet(frames), NEW frameUnits \in Nat \ {0}
  PROVE  ProbeFindsKeyframes(packets, frames, frameUnits)
  <1> DEFINE times == ProbeVideoKeyframeTimes(packets, frames, frameUnits)
             keys == KeyPackets(packets)
             Time(i) == KeyframeTime(packets[i])
             known == {Time(i) : i \in keys} \ {-1}
             shown == {t \in frames : t >= 0}
  <1>1. DOMAIN packets = 1..n BY DEF IsProbeOf
  <1>2. keys \subseteq 1..n /\ IsFiniteSet(keys)
      <2>1. keys \in SUBSET (1..n) BY <1>1 DEF KeyPackets
      <2>2. IsFiniteSet(1..n) BY FS_Interval
      <2> HIDE DEF keys
      <2> QED BY <2>1, <2>2, FS_Subset
  <1> HIDE DEF keys
  <1>3. \A i \in keys : Time(i) \in Nat \cup {-1}
      <2> SUFFICES ASSUME NEW i \in keys PROVE Time(i) \in Nat \cup {-1} OBVIOUS
      <2>1. packets[i] \in [key : BOOLEAN, pts : Nat \cup {-1}, dts : Nat \cup {-1}]
          BY <1>2 DEF IsProbeOf
      <2> QED BY <2>1 DEF KeyframeTime
  <1>4. known = {t \in {Time(i) : i \in keys} : t >= 0} /\ known \subseteq Nat
      <2> HIDE DEF Time
      <2>1. \A t \in {Time(i) : i \in keys} : t \in Nat \cup {-1} BY <1>3
      <2>2. \A t \in Nat \cup {-1} : t >= 0 <=> t # -1 OBVIOUS
      <2> QED BY <2>1, <2>2
  <1>5. IsFiniteSet(known)
      <2>1. IsFiniteSet({Time(i) : i \in keys})
          <3> DEFINE f == [i \in keys |-> Time(i)]
                     T == {Time(i) : i \in keys}
          <3> HIDE DEF Time
          <3>1. f \in [keys -> T] /\ \A t \in T : \E i \in keys : f[i] = t OBVIOUS
          <3> HIDE DEF f, T
          <3>2. f \in Surjection(keys, T) BY <3>1 DEF Surjection
          <3>3. IsFiniteSet(T) BY <1>2, <3>2, FS_Surjection
          <3> QED BY <3>3 DEF T
      <2>2. known \in SUBSET {Time(i) : i \in keys} OBVIOUS
      <2> HIDE DEF known, Time
      <2> QED BY <2>1, <2>2, FS_Subset
  <1>6. shown = frames \cap Nat /\ shown \subseteq Nat
      <2>1. \A t \in frames : t \in Int OBVIOUS
      <2>2. \A t \in Int : t >= 0 <=> t \in Nat OBVIOUS
      <2> QED BY <2>1, <2>2, Zenon
  <1>7. IsFiniteSet(shown)
      <2>1. shown \in SUBSET frames OBVIOUS
      <2> HIDE DEF shown
      <2> QED BY <2>1, FS_Subset
  <1>8. times = IF KeyframesByPacket(packets, frameUnits) # <<>>
                  THEN KeyframesByPacket(packets, frameUnits) ELSE Increasing(shown)
      BY DEF ProbeVideoKeyframeTimes, KeyframesByFrame, SortDedupeKeyframeTimes
  <1>9. KeyframesByPacket(packets, frameUnits) =
          IF Increasing(known) = <<>> /\ keys # {}
            THEN SyntheticKeyframeTimes(packets, keys, frameUnits) ELSE Increasing(known)
      BY <1>4 DEF KeyframesByPacket, SortDedupeKeyframeTimes, keys
  <1> HIDE DEF known, shown, times, Time
  <1>10. /\ Increasing(known) \in Seq(Nat) /\ ToSet(Increasing(known)) = known
         /\ StrictlyIncreasing(Increasing(known))
      BY <1>4, <1>5, IncreasingOrders
  <1>11. /\ Increasing(shown) \in Seq(Nat) /\ ToSet(Increasing(shown)) = shown
         /\ StrictlyIncreasing(Increasing(shown))
      BY <1>6, <1>7, IncreasingOrders
  <1>12. \A s \in Seq(Nat) : s = <<>> <=> ToSet(s) = {}
      <2> SUFFICES ASSUME NEW s \in Seq(Nat) PROVE s = <<>> <=> ToSet(s) = {} OBVIOUS
      <2>1. DOMAIN s = 1..Len(s) /\ Len(s) \in Nat OBVIOUS
      <2>2. s # <<>> => s[1] \in ToSet(s) BY <2>1 DEF ToSet
      <2>3. s = <<>> => ToSet(s) = {} BY DEF ToSet
      <2> QED BY <2>2, <2>3
  <1>13. \A s \in Seq(Nat) : StrictlyIncreasing(s) => \A i \in 1..Len(s) - 1 : s[i] < s[i + 1]
      <2> SUFFICES ASSUME NEW s \in Seq(Nat), StrictlyIncreasing(s), NEW i \in 1..Len(s) - 1
                   PROVE  s[i] < s[i + 1]
          OBVIOUS
      <2>1. i \in 1..Len(s) /\ i + 1 \in 1..Len(s) /\ i < i + 1 OBVIOUS
      <2> QED BY <2>1 DEF StrictlyIncreasing
  <1> DEFINE Right == /\ \A i \in 1..Len(times) - 1 : times[i] < times[i + 1]
                      /\ IF known # {} THEN ToSet(times) = known
                         ELSE IF keys # {} THEN Len(times) = Cardinality(keys) /\ times[1] = 0
                         ELSE ToSet(times) = frames \cap Nat
  <1>14. ASSUME known # {} PROVE Right
      <2>1. Increasing(known) # <<>> BY <1>10, <1>12, <1>14
      <2>2. times = Increasing(known) BY <1>8, <1>9, <2>1
      <2> QED BY <1>10, <1>13, <1>14, <2>2
  <1>15. ASSUME known = {}, keys # {} PROVE Right
      <2>1. Increasing(known) = <<>> BY <1>10, <1>12, <1>15
      <2>2. KeyframesByPacket(packets, frameUnits) = SyntheticKeyframeTimes(packets, keys, frameUnits)
          BY <1>9, <1>15, <2>1
      <2>3. PICK count \in Nat \ {0} : count = Cardinality(keys)
          <3>1. Cardinality(keys) \in Nat BY <1>2, FS_CardinalityType
          <3>2. Cardinality(keys) # 0 BY <1>2, <1>15, FS_EmptySet
          <3> QED BY <3>1, <3>2
      <2>4. PICK gop \in Nat \ {0} : gop = Max({1, Len(packets) \div count})
          <3>1. Len(packets) = n BY <1>1 DEF IsProbeOf
          <3>2. n \div count \in Int OBVIOUS
          <3>3. Max({1, n \div count}) = IF 1 >= n \div count THEN 1 ELSE n \div count
              BY <3>2, GreaterOf
          <3> QED BY <3>1, <3>2, <3>3
      <2> DEFINE spread == Spread(count, gop, frameUnits)
      <2>5. SyntheticKeyframeTimes(packets, keys, frameUnits) = spread
          BY <2>3, <2>4 DEF SyntheticKeyframeTimes, Spread
      <2>6. /\ Len(spread) = count /\ spread # <<>> /\ spread[1] = 0
            /\ \A i \in 1..count - 1 : spread[i] < spread[i + 1]
          BY SpreadKeyframes
      <2> HIDE DEF spread
      <2>7. times = spread BY <1>8, <2>2, <2>5, <2>6
      <2> QED BY <1>15, <2>3, <2>6, <2>7
  <1>16. ASSUME known = {}, keys = {} PROVE Right
      <2>1. Increasing(known) = <<>> BY <1>10, <1>12, <1>16
      <2>2. times = Increasing(shown) BY <1>8, <1>9, <1>16, <2>1
      <2> QED BY <1>6, <1>11, <1>13, <1>16, <2>2
  <1>17. Right BY <1>14, <1>15, <1>16
  <1> QED BY <1>17 DEF ProbeFindsKeyframes, known, keys, Time, times

-----------------------------------------------------------------------------
(* The length of the media of a plan: one segment when it is not known.     *)
LengthPlanned(duration, segmentSec) == IF duration <= 0 THEN segmentSec ELSE duration

(* A file as its probe and the caller describe it: keyframes of container   *)
(* time, a duration, where its container starts, the segment length.        *)
IsFile(keyframes, duration, startTime, segmentSec) ==
  /\ keyframes \in Seq(Nat) /\ duration \in Nat /\ startTime \in Nat
  /\ segmentSec \in Nat /\ segmentSec >= MinSegment

LEMMA NormalizedTimes ==
  ASSUME NEW keyframes \in Seq(Nat), NEW startTime \in Nat,
         NEW times, times = NormalizeHLSKeyframeTimes(keyframes, startTime)
  PROVE  /\ times \in Seq(Nat) /\ Len(times) = Len(keyframes)
         /\ \A i \in 1..Len(keyframes) : times[i] = NonNegative(keyframes[i] - startTime)
  <1>1. PICK n \in Nat : n = Len(keyframes) /\ DOMAIN keyframes = 1..n
                         /\ \A i \in 1..n : keyframes[i] \in Nat
      OBVIOUS
  <1>2. CASE startTime <= 0
      <2>1. times = keyframes /\ startTime = 0 BY <1>2 DEF NormalizeHLSKeyframeTimes
      <2>2. \A i \in 1..n : keyframes[i] = NonNegative(keyframes[i] - startTime)
          BY <1>1, <2>1 DEF NonNegative
      <2> QED BY <1>1, <2>1, <2>2
  <1>3. CASE ~(startTime <= 0)
      <2>1. times = [i \in 1..n |-> NonNegative(keyframes[i] - startTime)]
          BY <1>1, <1>3 DEF NormalizeHLSKeyframeTimes
      <2>2. \A i \in 1..n : NonNegative(keyframes[i] - startTime) \in Nat BY <1>1 DEF NonNegative
      <2>3. times \in [1..n -> Nat] BY <2>1, <2>2
      <2>4. times \in Seq(Nat) /\ Len(times) = n BY <2>3, FunctionIsSeq
      <2> QED BY <1>1, <2>1, <2>4
  <1> QED BY <1>2, <1>3

LEMMA PreparedFile ==
  ASSUME NEW keyframes, NEW duration, NEW startTime, NEW segmentSec,
         IsFile(keyframes, duration, startTime, segmentSec),
         NEW media, media = PrepareHLSMediaTimeline(keyframes, duration, startTime)
  PROVE  /\ media.duration \in Nat /\ media.duration = HLSMediaTimelineDuration(duration, startTime)
         /\ PreparedFor(media.keyframes, media.duration)
         /\ media.keyframes # <<>> => media.duration > 0
         /\ ToSet(media.keyframes) \subseteq
              {0} \cup ToSet(NormalizeHLSKeyframeTimes(keyframes, startTime))
  <1>1. keyframes \in Seq(Nat) /\ duration \in Nat /\ startTime \in Nat BY DEF IsFile
  <1>2. media.duration = HLSMediaTimelineDuration(duration, startTime)
        /\ media.keyframes = SanitizeHLSKeyframes(NormalizeHLSKeyframeTimes(keyframes, startTime),
                                                  media.duration)
      BY DEF PrepareHLSMediaTimeline
  <1>3. media.duration \in Nat BY <1>1, <1>2 DEF HLSMediaTimelineDuration, NonNegative
  <1>4. NormalizeHLSKeyframeTimes(keyframes, startTime) \in Seq(Int)
      <2>1. NormalizeHLSKeyframeTimes(keyframes, startTime) \in Seq(Nat) BY <1>1, NormalizedTimes
      <2>2. \A s \in Seq(Nat) : s \in Seq(Int)
          <3> SUFFICES ASSUME NEW s \in Seq(Nat) PROVE s \in Seq(Int) OBVIOUS
          <3>1. s \in [1..Len(s) -> Int] /\ Len(s) \in Nat OBVIOUS
          <3> QED BY <3>1, FunctionIsSeq
      <2> QED BY <2>1, <2>2
  <1> QED BY <1>2, <1>3, <1>4, SanitizedArePrepared

(* The plan of a file: of the grid, or of its keyframes.                    *)
LEMMA FilePlan ==
  ASSUME NEW keyframes, NEW duration, NEW startTime, NEW segmentSec,
         IsFile(keyframes, duration, startTime, segmentSec),
         NEW media, media = PrepareHLSMediaTimeline(keyframes, duration, startTime),
         NEW plan, plan = BuildVODSegmentList(duration, segmentSec, startTime, keyframes)
  PROVE  /\ plan \in Plans /\ TilesMedia(plan, LengthPlanned(media.duration, segmentSec))
         /\ media.keyframes # <<>> =>
              /\ CutsOnKeyframes(plan, media.keyframes)
              /\ \A i \in 1..Len(plan) : plan[i].start \in ToSet(media.keyframes)
         /\ media.keyframes = <<>> => plan = BuildVODSegmentListFixedGrid(media.duration, segmentSec)
  <1>1. /\ media.duration \in Nat /\ PreparedFor(media.keyframes, media.duration)
        /\ media.keyframes # <<>> => media.duration > 0
      BY PreparedFile
  <1>2. segmentSec \in Nat /\ segmentSec >= MinSegment /\ OrDefault(segmentSec) = segmentSec
      BY DEF IsFile, OrDefault, MinSegment
  <1>3. CASE media.keyframes = <<>>
      <2>1. plan = FixedHLSSegmentTimeline(media.duration, segmentSec)
            /\ plan = BuildVODSegmentListFixedGrid(media.duration, segmentSec)
          BY <1>2, <1>3 DEF BuildVODSegmentList, BuildVODSegmentListFixedGrid
      <2>2. CASE media.duration = 0
          <3>1. plan = FixedHLSSegmentTimeline(0, segmentSec) BY <2>1, <2>2, Zenon
          <3>2. LengthPlanned(0, segmentSec) = segmentSec BY DEF LengthPlanned
          <3>3. TilesMedia(plan, LengthPlanned(media.duration, segmentSec)) /\ plan \in Plans
              BY <1>2, <2>2, <3>1, <3>2, EmptyMediaPlan, Zenon
          <3> QED BY <1>3, <2>1, <3>3
      <2>3. CASE media.duration # 0
          <3>1. media.duration > 0 /\ LengthPlanned(media.duration, segmentSec) = media.duration
              BY <1>1, <2>3 DEF LengthPlanned
          <3> QED BY <1>1, <1>2, <1>3, <2>1, <3>1, FixedGridTiles
      <2> QED BY <2>2, <2>3
  <1>4. CASE media.keyframes # <<>>
      <2>1. plan = VodCopyModeSegmentTimeline(media.duration, media.keyframes, segmentSec)
          BY <1>2, <1>4 DEF BuildVODSegmentList, BuildVODSegmentListKeyframe
      <2>2. media.duration > 0 /\ LengthPlanned(media.duration, segmentSec) = media.duration
          BY <1>1, <1>4 DEF LengthPlanned
      <2> QED BY <1>1, <1>2, <1>4, <2>1, <2>2, CopyPlanTiles
  <1> QED BY <1>3, <1>4

(* THEOREM: for every file, the segments listed for it and those made on    *)
(* demand cover its media with segments ffmpeg can make; with keyframes to  *)
(* go by each begins on one; a request for any time is served by the        *)
(* segment that holds it, and the playlist's target covers what it lists    *)
(* (buildVODSegmentList, hls_vod.go; buildHLSSegmentTimeline,               *)
(* hls_timeline.go).                                                        *)
THEOREM FilePlansServe ==
  ASSUME NEW keyframes, NEW duration, NEW startTime, NEW segmentSec,
         IsFile(keyframes, duration, startTime, segmentSec),
         NEW media, media = PrepareHLSMediaTimeline(keyframes, duration, startTime),
         NEW length, length = LengthPlanned(media.duration, segmentSec),
         NEW plan, plan = BuildVODSegmentList(duration, segmentSec, startTime, keyframes)
  PROVE  /\ TilesMedia(plan, length)
         /\ TilesMedia(BuildHLSSegmentTimeline(media.duration, media.keyframes, segmentSec, 0), length)
         /\ media.keyframes # <<>> => CutsOnKeyframes(plan, media.keyframes)
         /\ IndexFindsSegment(plan, length)
         /\ TargetCovers(BuildVODPlaylist(plan, segmentSec))
  <1>1. /\ media.duration \in Nat /\ PreparedFor(media.keyframes, media.duration)
        /\ media.keyframes # <<>> => media.duration > 0
      BY PreparedFile
  <1>2. segmentSec \in Nat /\ segmentSec >= MinSegment /\ OrDefault(segmentSec) = segmentSec
        /\ segmentSec > 0
      BY DEF IsFile, OrDefault, MinSegment
  <1>3. length \in Nat /\ length > 0 BY <1>1, <1>2 DEF LengthPlanned
  <1>4. /\ plan \in Plans /\ TilesMedia(plan, length)
        /\ media.keyframes # <<>> => CutsOnKeyframes(plan, media.keyframes)
      BY FilePlan
  <1>5. IndexFindsSegment(plan, length) BY <1>3, <1>4, EveryTimeHasItsSegment
  <1>6. TargetCovers(BuildVODPlaylist(plan, segmentSec))
      BY <1>2, <1>3, <1>4, TargetDurationCovers
  <1> DEFINE demand == BuildHLSSegmentTimeline(media.duration, media.keyframes, segmentSec, 0)
  <1>7. CASE media.keyframes # <<>>
      <2>1. media.duration > 0 /\ length = media.duration BY <1>1, <1>7 DEF LengthPlanned
      <2>2. TilesMedia(demand, length) BY <1>1, <1>2, <1>7, <2>1, DemandPlanTiles
      <2> QED BY <1>4, <1>5, <1>6, <2>2
  <1>8. CASE media.keyframes = <<>>
      <2>1. HLSMediaTimelineDuration(media.duration, 0) = media.duration
          BY DEF HLSMediaTimelineDuration
      <2>2. FromZero(NormalizeHLSKeyframeTimes(media.keyframes, 0)) = <<>>
          BY <1>8 DEF NormalizeHLSKeyframeTimes, FromZero
      <2>3. demand = FixedHLSSegmentTimeline(length, segmentSec)
          BY <1>2, <2>1, <2>2 DEF BuildHLSSegmentTimeline, LengthPlanned
      <2>4. TilesMedia(demand, length) BY <1>2, <1>3, <2>3, FixedGridTiles
      <2> QED BY <1>4, <1>5, <1>6, <1>8, <2>4
  <1> QED BY <1>7, <1>8

-----------------------------------------------------------------------------
(* The starts of a tiling, from 0 on.                                       *)
LEMMA StartsIncrease ==
  ASSUME NEW plan \in Plans, NEW duration \in Nat, duration > 0, TilesMedia(plan, duration)
  PROVE  /\ \A i \in 1..Len(plan) : plan[i].start \in Nat
         /\ \A i, j \in 1..Len(plan) : i < j => plan[i].start < plan[j].start
  <1>1. PICK n \in Nat : /\ n = Len(plan) /\ n >= 1
                         /\ \A k \in 1..n : plan[k].start \in Int /\ plan[k].dur \in Int
      BY PlanTyped
  <1>2. /\ plan[1].start = 0
        /\ \A k \in 1..n - 1 : plan[k].start + plan[k].dur = plan[k + 1].start
      BY <1>1, TilesAsChained DEF Chained, SegmentEnd
  <1>3. ASSUME NEW k \in 1..n - 1 PROVE plan[k].start < plan[k + 1].start
      <2>1. k \in 1..n /\ k + 1 \in 1..n OBVIOUS
      <2>2. plan[k].dur \in 1..duration BY <1>1, <2>1, SegmentsWithinMedia
      <2> QED BY <1>1, <1>2, <2>1, <2>2
  <1>4. ASSUME NEW i \in 1..n PROVE \A k \in 0..n - i : plan[i].start + k <= plan[i + k].start
      <2> DEFINE S == {k \in 0..n - i : plan[i].start + k <= plan[i + k].start}
                 N == n - i
      <2>1. N \in Nat OBVIOUS
      <2>2. 0 \in S BY <1>1
      <2>3. ASSUME NEW k \in 0..N - 1, k \in S PROVE k + 1 \in S
          <3>1. i + k \in 1..n - 1 /\ (i + k) + 1 = i + (k + 1) /\ i + k \in 1..n /\ i + (k + 1) \in 1..n
                /\ k + 1 \in 0..n - i
              OBVIOUS
          <3>2. plan[i + k].start < plan[i + (k + 1)].start BY <1>3, <3>1
          <3>3. plan[i].start + k <= plan[i + k].start BY <2>3
          <3>4. plan[i].start \in Int /\ plan[i + k].start \in Int /\ plan[i + (k + 1)].start \in Int
              BY <1>1, <3>1
          <3> QED BY <3>1, <3>2, <3>3, <3>4
      <2>4. \A k \in 0..N : k \in S
          <3> HIDE DEF S, N
          <3> QED BY <2>1, <2>2, <2>3, InductionUpTo
      <2> QED BY <2>4
  <1>5. ASSUME NEW i \in 1..n PROVE plan[i].start \in Nat
      <2>1. 1 \in 1..n /\ i - 1 \in 0..n - 1 /\ 1 + (i - 1) = i BY <1>1
      <2>2. plan[1].start + (i - 1) <= plan[1 + (i - 1)].start BY <1>4, <2>1
      <2> QED BY <1>1, <1>2, <2>1, <2>2
  <1>6. ASSUME NEW i \in 1..n, NEW j \in 1..n, i < j PROVE plan[i].start < plan[j].start
      <2>1. j - i \in 0..n - i /\ i + (j - i) = j BY <1>6
      <2>2. plan[i].start + (j - i) <= plan[i + (j - i)].start BY <1>4, <2>1
      <2>3. plan[i].start \in Int /\ plan[j].start \in Int BY <1>1
      <2> QED BY <1>6, <2>1, <2>2, <2>3
  <1> QED BY <1>1, <1>5, <1>6

(* A seek to a keyframe lands on it.                                        *)
LEMMA SeekLandsOnKeyframe ==
  ASSUME NEW keyframes \in Seq(Nat), StrictlyIncreasing(keyframes), NEW t \in ToSet(keyframes)
  PROVE  KeyframeSeekBefore(keyframes, t) = t
  <1>1. PICK n \in Nat : n = Len(keyframes) /\ DOMAIN keyframes = 1..n
                         /\ \A i \in 1..n : keyframes[i] \in Nat
      OBVIOUS
  <1>2. PICK i \in 1..n : t = keyframes[i] BY <1>1 DEF ToSet
  <1> DEFINE late == {j \in DOMAIN keyframes : keyframes[j] > t}
             m == IF late = {} THEN n ELSE Min(late) - 1
  <1>3. KeyframeSeekBefore(keyframes, t) = IF t <= 0 \/ m = 0 THEN 0 ELSE keyframes[m]
      BY <1>1 DEF KeyframeSeekBefore
  <1>4. \A j \in 1..n : j \in late <=> i < j
      <2> SUFFICES ASSUME NEW j \in 1..n PROVE keyframes[j] > keyframes[i] <=> i < j
          BY <1>1, <1>2
      <2>1. i < j => keyframes[i] < keyframes[j] BY <1>1 DEF StrictlyIncreasing
      <2>2. j < i => keyframes[j] < keyframes[i] BY <1>1 DEF StrictlyIncreasing
      <2>3. keyframes[i] \in Nat /\ keyframes[j] \in Nat BY <1>1
      <2>4. i = j \/ i < j \/ j < i OBVIOUS
      <2> QED BY <2>1, <2>2, <2>3, <2>4
  <1>5. late \subseteq 1..n BY <1>1
  <1> HIDE DEF late
  <1>6. m = i
      <2>1. CASE late = {}
          <3>1. n \in 1..n BY <1>2
          <3> QED BY <1>4, <2>1, <3>1
      <2>2. CASE late # {}
          <3>1. late \subseteq Nat BY <1>5
          <3>2. Min(late) \in late /\ \A j \in late : Min(late) <= j BY <2>2, <3>1, MinIsLeast
          <3>3. Min(late) \in 1..n /\ i < Min(late) BY <1>4, <1>5, <3>2
          <3>4. i + 1 \in 1..n BY <3>3
          <3>5. Min(late) <= i + 1 BY <1>4, <3>2, <3>4
          <3> QED BY <2>2, <3>3, <3>5
      <2> QED BY <2>1, <2>2
  <1>7. t \in Nat BY <1>1, <1>2
  <1> HIDE DEF m
  <1> QED BY <1>2, <1>3, <1>6, <1>7

(* Every seek into keyframes that begin with 0 lands on one of them.        *)
LEMMA SeekLandsOnSome ==
  ASSUME NEW keyframes \in Seq(Nat), keyframes # <<>>, keyframes[1] = 0, NEW time \in Nat
  PROVE  KeyframeSeekBefore(keyframes, time) \in ToSet(keyframes)
  <1>1. PICK n \in Nat : n = Len(keyframes) /\ DOMAIN keyframes = 1..n /\ n >= 1
      OBVIOUS
  <1> DEFINE late == {j \in DOMAIN keyframes : keyframes[j] > time}
             m == IF late = {} THEN n ELSE Min(late) - 1
  <1>2. KeyframeSeekBefore(keyframes, time) = IF time <= 0 \/ m = 0 THEN 0 ELSE keyframes[m]
      BY <1>1 DEF KeyframeSeekBefore
  <1>3. 1 \in 1..n /\ 0 \in ToSet(keyframes) BY <1>1 DEF ToSet
  <1>4. m \in 0..n
      <2>1. late # {} => Min(late) \in late
          <3>1. late \subseteq Nat BY <1>1
          <3> HIDE DEF late
          <3> QED BY <3>1, MinIsLeast
      <2> QED BY <1>1, <2>1
  <1>5. m \in 1..n => keyframes[m] \in ToSet(keyframes) BY <1>1 DEF ToSet
  <1> HIDE DEF m
  <1>6. m = 0 \/ m \in 1..n BY <1>4
  <1> QED BY <1>2, <1>3, <1>5, <1>6

(* ffmpeg cuts at a keyframe that is named a millisecond early.             *)
LEMMA CutsWhereNamed ==
  ASSUME NEW keyframes \in Seq(Nat), NEW t \in ToSet(keyframes), NEW origin \in Nat, origin <= t,
         NEW millis, millis = [i \in DOMAIN keyframes |-> UnitMillis * keyframes[i]]
  PROVE  FirstAtOrAfter(millis, UnitMillis * origin + EmittedCut(t - origin), -1) = UnitMillis * t
  <1>1. PICK n \in Nat : n = Len(keyframes) /\ DOMAIN keyframes = 1..n
                         /\ \A i \in 1..n : keyframes[i] \in Nat
      OBVIOUS
  <1>2. PICK i \in 1..n : t = keyframes[i] BY <1>1 DEF ToSet
  <1>3. t \in Nat BY <1>1, <1>2
  <1>4. DOMAIN millis = 1..n /\ \A j \in 1..n : millis[j] = 250 * keyframes[j]
      BY <1>1 DEF UnitMillis
  <1>5. ToSet(millis) \subseteq Nat
      <2> SUFFICES ASSUME NEW x \in ToSet(millis) PROVE x \in Nat OBVIOUS
      <2>1. PICK j \in 1..n : x = 250 * keyframes[j] BY <1>4 DEF ToSet
      <2>2. keyframes[j] \in Nat BY <1>1
      <2> QED BY <2>1, <2>2
  <1>6. PICK time : time = UnitMillis * origin + EmittedCut(t - origin) OBVIOUS
  <1>7. time = 250 * t - 1 BY <1>3, <1>6 DEF EmittedCut, UnitMillis
  <1>8. PICK none : none = -1 OBVIOUS
  <1>9. PICK k : k = FirstAtOrAfter(millis, time, none) OBVIOUS
  <1>10. 250 * t \in ToSet(millis) /\ 250 * t >= time BY <1>2, <1>3, <1>4, <1>7, SMTT(30) DEF ToSet
  <1>11. k \in ToSet(millis) /\ k >= time /\ k <= 250 * t BY <1>5, <1>9, <1>10, FirstIsFirst, SMTT(30)
  <1>12. PICK j \in 1..n : k = 250 * keyframes[j] BY <1>4, <1>11 DEF ToSet
  <1>13. k = 250 * t
      <2>1. PICK p \in Nat : p = keyframes[j] BY <1>1
      <2>2. 250 * p >= 250 * t - 1 /\ 250 * p <= 250 * t BY <1>7, <1>11, <1>12, <2>1
      <2>3. p = t BY <1>3, <2>2
      <2> QED BY <1>12, <2>1, <2>3
  <1>14. UnitMillis * t = 250 * t BY DEF UnitMillis
  <1> QED BY <1>6, <1>8, <1>9, <1>13, <1>14, Zenon

-----------------------------------------------------------------------------
(* A plan in order: as its jobs need it.                                    *)
InOrder(plan) ==
  /\ plan \in Plans
  /\ \A i \in 1..Len(plan) : plan[i].start \in Nat
  /\ \A i, j \in 1..Len(plan) : i < j => plan[i].start < plan[j].start

(* A job of a plan, from its index-th segment up to stop.                   *)
IsJobOf(job, plan, index, stop, startTime) ==
  /\ index \in 1..Len(plan) /\ stop \in 0..Len(plan) /\ startTime \in Nat
  /\ job.plan = plan /\ job.startTime = startTime /\ job.startSec = plan[index].start
  /\ job.startIndex = index - 1 /\ job.stopIndex = stop

(* THEOREM: a video copy restarted at any segment of a plan on keyframes    *)
(* cuts the file where the plan does, and one with a hand-off ends there    *)
(* (buildHLSVODFFmpegArgs, hls_vod_job.go; hls_vod_copy.go).                *)
THEOREM RestartsFollowPlans ==
  ASSUME NEW plan, InOrder(plan), NEW index, NEW stop, NEW startTime,
         NEW job, IsJobOf(job, plan, index, stop, startTime),
         ~job.remux, job.videoCopy, job.seekTimes # <<>>,
         job.seekTimes \in Seq(Nat), StrictlyIncreasing(job.seekTimes),
         NEW fileKeyframes \in Seq(Nat), StrictlyIncreasing(fileKeyframes),
         \A i \in 1..Len(plan) : plan[i].start \in ToSet(job.seekTimes) \cap ToSet(fileKeyframes)
  PROVE  RestartFollowsPlan(job, fileKeyframes)
  <1> DEFINE args == BuildHLSVODFFmpegArgs(job)
  <1>1. PICK n \in Nat : n = Len(plan) /\ DOMAIN plan = 1..n /\ plan # <<>>
      BY PlanTyped DEF InOrder, Plans
  <1>2. PICK s \in Nat : s = plan[index].start /\ s = job.startSec
      BY DEF InOrder, IsJobOf
  <1>3. /\ index \in 1..n /\ stop \in 0..n /\ startTime \in Nat /\ job.plan = plan
        /\ job.startTime = startTime /\ job.startIndex = index - 1 /\ job.stopIndex = stop
      BY <1>1 DEF IsJobOf
  <1>4. s \in ToSet(job.seekTimes) /\ s \in ToSet(fileKeyframes) BY <1>1, <1>2, <1>3
  <1>5. KeyframeSeekBefore(job.seekTimes, s) = s /\ KeyframeSeekBefore(fileKeyframes, s) = s
      BY <1>4, SeekLandsOnKeyframe
  <1>6. Copies(job) BY DEF Copies
  <1>7. VodInputSeekMediaSec(job) = s
      BY <1>2, <1>5, <1>6 DEF VodInputSeekMediaSec, NonNegative
  <1>8. VodCopyKeyframeSeekSec(job.startSec, job.seekTimes) = s
      BY <1>2, <1>5 DEF VodCopyKeyframeSeekSec, NonNegative
  <1>9. Padded(job, s) = s + startTime
      BY <1>3 DEF Padded, HLSInputSeekSec, NonNegative
  <1>10. args.seek = s + startTime
      BY <1>3, <1>7, <1>9 DEF BuildHLSVODFFmpegArgs, NonNegative
  <1>11. VodCopyUsesExplicitSegmentCuts(job) BY <1>1, <1>3, <1>6 DEF VodCopyUsesExplicitSegmentCuts
  <1>12. args.cuts = VODCopySegmentCutTimesRel(plan, s, index - 1)
      BY <1>3, <1>8, <1>11 DEF BuildHLSVODFFmpegArgs
  <1>13. args.bound = VodJobStopDurationSec(job) BY DEF BuildHLSVODFFmpegArgs
  <1> HIDE DEF args
  <1>14. ASSUME NEW i \in index + 1..n PROVE plan[i].start \in Nat /\ plan[i].start > s
                                            /\ plan[i].start \in ToSet(fileKeyframes)
      <2>1. i \in 1..n /\ index < i BY <1>3
      <2> QED BY <1>1, <1>2, <1>3, <2>1 DEF InOrder
  <1>15. args.cuts = {plan[i].start - s : i \in index + 1..n}
      <2>1. \A i \in index + 1..n : plan[i].start - s \in Nat \ {0} BY <1>14
      <2>2. (index - 1) + 2 = index + 1 BY <1>3
      <2>3. args.cuts = {plan[i].start - s : i \in index + 1..n} \cap (Nat \ {0})
          BY <1>1, <1>12, <2>2 DEF VODCopySegmentCutTimesRel
      <2> QED BY <2>1, <2>3
  <1> DEFINE millis == [i \in DOMAIN fileKeyframes |-> UnitMillis * fileKeyframes[i]]
             cut(t) == FirstAtOrAfter(millis, UnitMillis * s + EmittedCut(t), -1)
  <1>16. MuxerCuts(fileKeyframes, s, args.cuts) = {cut(t) : t \in args.cuts} BY DEF MuxerCuts
  <1>17. ASSUME NEW i \in index + 1..n PROVE cut(plan[i].start - s) = UnitMillis * plan[i].start
      <2>1. plan[i].start \in ToSet(fileKeyframes) /\ s <= plan[i].start BY <1>2, <1>14
      <2> QED BY <2>1, CutsWhereNamed
  <1> HIDE DEF cut, millis
  <1>18. MuxerCuts(fileKeyframes, s, args.cuts) = {UnitMillis * plan[i].start : i \in index + 1..n}
      <2>1. {cut(t) : t \in args.cuts} = {cut(plan[i].start - s) : i \in index + 1..n}
          BY <1>15
      <2>2. {cut(plan[i].start - s) : i \in index + 1..n}
              = {UnitMillis * plan[i].start : i \in index + 1..n}
          BY <1>17
      <2> QED BY <1>16, <2>1, <2>2
  <1>19. SeekLandsOn(fileKeyframes, args.seek - job.startTime) = s
      <2>1. args.seek - job.startTime = s BY <1>3, <1>10
      <2> QED BY <1>5, <2>1 DEF SeekLandsOn
  <1>20. JobBoundaries(job, fileKeyframes)
           = {UnitMillis * s} \cup {UnitMillis * plan[i].start : i \in index + 1..n}
      BY <1>8, <1>18, <1>19 DEF JobBoundaries, args
  <1>21. PlannedBoundaries(job) = {UnitMillis * plan[i].start : i \in index..n}
      <2>1. (index - 1) + 1 = index BY <1>3
      <2> QED BY <1>1, <1>3, <2>1 DEF PlannedBoundaries
  <1>22. {UnitMillis * plan[i].start : i \in index..n}
           = {UnitMillis * s} \cup {UnitMillis * plan[i].start : i \in index + 1..n}
      <2>1. \A i : i \in index..n <=> i = index \/ i \in index + 1..n BY <1>3
      <2>2. UnitMillis * s = UnitMillis * plan[index].start BY <1>2
      <2> QED BY <2>1, <2>2
  <1>23. JobBoundaries(job, fileKeyframes) = PlannedBoundaries(job) BY <1>20, <1>21, <1>22
  <1>24. ASSUME job.stopIndex > job.startIndex, job.stopIndex < Len(job.plan)
         PROVE  /\ args.bound > 0
                /\ args.seek - job.startTime + args.bound = job.plan[job.stopIndex + 1].start
      <2>1. stop + 1 \in index + 1..n BY <1>1, <1>3, <1>24
      <2>2. PICK e \in Nat : e = plan[stop + 1].start /\ e > s BY <1>14, <2>1
      <2>3. VodJobStopDurationSec(job) = NonNegative(e - (s + startTime - startTime))
          BY <1>1, <1>3, <1>6, <1>8, <1>9, <1>24, <2>2 DEF VodJobStopDurationSec
      <2>4. args.bound = e - s BY <1>3, <1>13, <2>2, <2>3 DEF NonNegative
      <2> QED BY <1>3, <1>10, <2>2, <2>4, SMTT(30)
  <1> QED BY <1>23, <1>24 DEF RestartFollowsPlan, args

(* THEOREM: a transcode started at any segment of the grid lists its        *)
(* segments where the grid has them, forces a keyframe at each and ends at  *)
(* the hand-off (buildHLSVODFFmpegArgs, hls_vod_job.go).                    *)
THEOREM TranscodesFollowGrid ==
  ASSUME NEW plan, InOrder(plan), NEW index, NEW stop, NEW startTime,
         NEW job, IsJobOf(job, plan, index, stop, startTime),
         ~job.remux, ~job.videoCopy, job.seekTimes = <<>>,
         NEW segmentSec \in Nat, segmentSec > 0, job.segmentSec = segmentSec,
         \A i \in 1..Len(plan) : plan[i].start = (i - 1) * segmentSec
  PROVE  TranscodeFollowsGrid(job)
  <1> DEFINE args == BuildHLSVODFFmpegArgs(job)
  <1>1. PICK n \in Nat : n = Len(plan) /\ DOMAIN plan = 1..n /\ plan # <<>>
      BY PlanTyped DEF InOrder, Plans
  <1>2. PICK s \in Nat : s = plan[index].start /\ s = job.startSec
      BY DEF InOrder, IsJobOf
  <1>3. /\ index \in 1..n /\ stop \in 0..n /\ startTime \in Nat /\ job.plan = plan
        /\ job.startTime = startTime /\ job.startIndex = index - 1 /\ job.stopIndex = stop
      BY <1>1 DEF IsJobOf
  <1>4. ~Copies(job) /\ OrDefault(job.segmentSec) = segmentSec BY DEF Copies, OrDefault
  <1>5. ~VodCopyUsesExplicitSegmentCuts(job) BY <1>4 DEF VodCopyUsesExplicitSegmentCuts
  <1>6. VodInputSeekMediaSec(job) = s BY <1>2, <1>4 DEF VodInputSeekMediaSec, NonNegative
  <1>7. Padded(job, s) = s + startTime BY <1>3 DEF Padded, HLSInputSeekSec, NonNegative
  <1>8. /\ args.seek = s + startTime /\ args.offset = s /\ args.number = index - 1
        /\ args.forced = segmentSec /\ args.hlsTime = segmentSec
        /\ args.bound = VodJobStopDurationSec(job)
      BY <1>2, <1>3, <1>4, <1>5, <1>6, <1>7 DEF BuildHLSVODFFmpegArgs, NonNegative
  <1> HIDE DEF args
  <1>9. s = (index - 1) * segmentSec BY <1>1, <1>2, <1>3
  <1>10. KeyframesOnGrid(args)
      <2>1. segmentSec % segmentSec = 0 OBVIOUS
      <2> QED BY <1>8, <2>1 DEF KeyframesOnGrid
  <1>11. args.seek = NonNegative(args.offset + job.startTime) BY <1>3, <1>8 DEF NonNegative
  <1>12. ASSUME NEW i \in job.startIndex + 1..Len(job.plan)
         PROVE  job.plan[i].start = args.offset + (i - 1 - args.number) * args.hlsTime
      <2>1. i \in index..n /\ i \in 1..n BY <1>1, <1>3
      <2>2. plan[i].start = (i - 1) * segmentSec BY <1>1, <2>1
      <2>3. (i - 1) * segmentSec = (index - 1) * segmentSec + (i - 1 - (index - 1)) * segmentSec
          BY <1>3, <2>1
      <2> QED BY <1>3, <1>8, <1>9, <2>2, <2>3
  <1>13. ASSUME job.stopIndex > job.startIndex, job.stopIndex < Len(job.plan)
         PROVE  args.offset + args.bound = job.plan[job.stopIndex + 1].start
      <2>1. stop + 1 \in 1..n /\ index < stop + 1 BY <1>1, <1>3, <1>13
      <2>2. PICK e \in Nat : e = plan[stop + 1].start /\ e > s BY <1>1, <1>2, <1>3, <2>1 DEF InOrder
      <2>3. VodJobStopDurationSec(job) = NonNegative(e - s)
          BY <1>1, <1>2, <1>3, <1>4, <1>13, <2>2 DEF VodJobStopDurationSec
      <2> QED BY <1>3, <1>8, <2>2, <2>3 DEF NonNegative
  <1> QED BY <1>10, <1>11, <1>12, <1>13 DEF TranscodeFollowsGrid, args

(* THEOREM: a continuous copy says of its first segment the time of the     *)
(* keyframe ffmpeg lands on, when the file starts on one                    *)
(* (buildHLSContinuousArgs, hls_continuous.go).                             *)
THEOREM CopiesStartOnKeyframes ==
  ASSUME NEW job, job.startSec \in Nat, job.startTime \in Nat,
         NEW fileKeyframes \in Seq(Nat), StrictlyIncreasing(fileKeyframes)
  PROVE  CopyStartsOnKeyframe(job, fileKeyframes)
  <1> DEFINE args == BuildHLSContinuousArgs(job, fileKeyframes, FALSE)
             start == job.startTime
             media == NormalizeHLSKeyframeTimes(fileKeyframes, start)
  <1> SUFFICES ASSUME Copies(job), job.startSec > 0, fileKeyframes # <<>>,
                      Head(fileKeyframes) = start
               PROVE  SeekLandsOn(fileKeyframes, args.seek) = start + args.offset
      BY DEF CopyStartsOnKeyframe
  <1>1. PICK n \in Nat : n = Len(fileKeyframes) /\ DOMAIN fileKeyframes = 1..n /\ n >= 1
                         /\ \A i \in 1..n : fileKeyframes[i] \in Nat
      OBVIOUS
  <1>2. fileKeyframes[1] = start BY <1>1
  <1>3. /\ media \in Seq(Nat) /\ Len(media) = n
        /\ \A i \in 1..n : media[i] = NonNegative(fileKeyframes[i] - start)
      BY <1>1, NormalizedTimes
  <1> HIDE DEF media
  <1>4. ASSUME NEW i \in 1..n PROVE media[i] + start = fileKeyframes[i]
      <2>1. i = 1 \/ fileKeyframes[1] < fileKeyframes[i] BY <1>1 DEF StrictlyIncreasing
      <2>2. fileKeyframes[i] >= start /\ fileKeyframes[i] \in Nat BY <1>1, <1>2, <2>1
      <2> QED BY <1>3, <2>2 DEF NonNegative
  <1>5. media # <<>> /\ media[1] = 0
      <2>1. 1 \in 1..n /\ start \in Nat BY <1>1
      <2>2. PICK first : first = media[1] OBVIOUS
      <2>3. first + start = start BY <1>2, <1>4, <2>1, <2>2
      <2>4. first \in Nat
          <3>1. first = NonNegative(fileKeyframes[1] - start) /\ fileKeyframes[1] \in Nat
              BY <1>1, <1>3, <2>1, <2>2
          <3> QED BY <2>1, <3>1 DEF NonNegative
      <2>5. media # <<>>
          <3>1. Len(media) # 0 /\ Len(<<>>) = 0 BY <1>1, <1>3
          <3> QED BY <3>1
      <2> QED BY <2>1, <2>2, <2>3, <2>4, <2>5
  <1>6. PICK s : s = KeyframeSeekBefore(media, job.startSec) /\ s \in ToSet(media)
      BY <1>3, <1>5, SeekLandsOnSome
  <1>7. PICK i \in 1..n : s = media[i] BY <1>3, <1>6 DEF ToSet
  <1>8. s \in Nat /\ s + start \in ToSet(fileKeyframes) BY <1>1, <1>3, <1>4, <1>7 DEF ToSet
  <1>9. SnapContinuousCopyStart(job, fileKeyframes) = s
      BY <1>6 DEF SnapContinuousCopyStart, media
  <1>10. args.seek = s + start /\ args.offset = s
      BY <1>8, <1>9 DEF BuildHLSContinuousArgs, HLSInputSeekSec, NonNegative
  <1>11. KeyframeSeekBefore(fileKeyframes, s + start) = s + start BY <1>8, SeekLandsOnKeyframe
  <1>12. s + start = start + s BY <1>8
  <1> QED BY <1>10, <1>11, <1>12 DEF SeekLandsOn

(* THEOREM: a segment made on demand starts and ends where the list has it, *)
(* and is a transport stream only when it is encoded                        *)
(* (buildHLSSegmentFFmpegArgs, hls_build.go).                               *)
THEOREM SegmentsAreAsListed ==
  ASSUME NEW plan, InOrder(plan), \A i \in 1..Len(plan) : plan[i].dur > 0,
         NEW params, params.startTime \in Nat, NEW seekTimes \in Seq(Nat),
         StrictlyIncreasing(seekTimes),
         seekTimes # <<>> => \A i \in 1..Len(plan) : plan[i].start \in ToSet(seekTimes),
         NEW segmentSec
  PROVE  SegmentAsListed(params, plan, seekTimes, segmentSec)
  <1>1. PICK n \in Nat : n = Len(plan) /\ DOMAIN plan = 1..n
                         /\ \A i \in 1..n : plan[i].dur \in Int
      BY PlanTyped DEF InOrder
  <1> SUFFICES ASSUME NEW i \in 1..n, NEW wanted \in {"fmp4", "mpegts"},
                      NEW opts, opts = BuildHLSSegmentOptions(params, i - 1, plan, seekTimes, segmentSec),
                      NEW args, args = BuildHLSSegmentFFmpegArgs(opts, SegmentMux(params, wanted)),
                      args.mux # "refused"
               PROVE  /\ args.seek = NonNegative(plan[i].start + params.startTime)
                      /\ args.offset = plan[i].start
                      /\ args.bound = plan[i].dur
                      /\ args.mux = "mpegts" => args.codecs.video = "encode"
      BY <1>1 DEF SegmentAsListed
  <1>2. PICK s \in Nat : s = plan[i].start BY <1>1 DEF InOrder
  <1>3. plan[i].dur > 0 /\ plan[i].dur \in Int BY <1>1
  <1>4. seekTimes # <<>> => KeyframeSeekBefore(seekTimes, s) = s
      BY <1>1, <1>2, SeekLandsOnKeyframe
  <1>5. i - 1 < Len(plan) /\ (i - 1) + 1 = i BY <1>1
  <1>6. /\ opts.job = params /\ opts.timeline = s /\ opts.dur = plan[i].dur
        /\ opts.seek = HLSInputSeekSec(s, params.startTime)
      BY <1>2, <1>4, <1>5 DEF BuildHLSSegmentOptions
  <1>7. opts.seek = s + params.startTime BY <1>6 DEF HLSInputSeekSec, NonNegative
  <1>8. PICK dur \in Int : dur = plan[i].dur /\ dur > 0 BY <1>3
  <1>9. PICK start \in Nat : start = params.startTime OBVIOUS
  <1>10. PICK mux : mux = SegmentMux(params, wanted) OBVIOUS
  <1>11. PICK codecs : codecs = JobCodecs(params, TRUE) OBVIOUS
  <1>12. PICK forced : forced = IF Copies(params) THEN 0 ELSE WholeSeconds(dur) OBVIOUS
  <1>13. args = [seek |-> s + start, codecs |-> codecs, forced |-> forced, bound |-> dur,
                 offset |-> s, mux |-> mux]
      <2>1. OrDefault(opts.dur) = dur BY <1>6, <1>8 DEF OrDefault
      <2>2. NonNegative(opts.seek) = s + start BY <1>7, <1>9 DEF NonNegative
      <2>3. NonNegative(opts.timeline) = s BY <1>6 DEF NonNegative
      <2> QED BY <1>6, <1>10, <1>11, <1>12, <2>1, <2>2, <2>3 DEF BuildHLSSegmentFFmpegArgs
  <1>14. args.mux # "refused" /\ args.mux = mux /\ args.codecs = codecs BY <1>13
  <1>15. codecs.video = IF Copies(params) THEN "copy" ELSE "encode"
      BY <1>11 DEF JobCodecs
  <1>16. args.mux = "mpegts" => args.codecs.video = "encode"
      <2> SUFFICES ASSUME mux = "mpegts" PROVE codecs.video = "encode" BY <1>14
      <2>1. wanted = "mpegts" /\ ~Copies(params)
          BY <1>10, <1>14 DEF SegmentMux
      <2> QED BY <1>15, <2>1
  <1>17. /\ args.seek = NonNegative(plan[i].start + params.startTime)
        /\ args.offset = plan[i].start /\ args.bound = plan[i].dur
      BY <1>2, <1>8, <1>9, <1>13 DEF NonNegative
  <1> QED BY <1>16, <1>17

-----------------------------------------------------------------------------
(* The pipeline of a file.                                                  *)
LEMMA PathOfParams ==
  ASSUME NEW info, NEW opts, NEW fps
  PROVE  LET params == BuildHLSSegmentParams(info, opts, fps)
         IN  /\ params.remux <=> CanFMP4StreamCopy(info) /\ ~NeedsFullVideoTranscode(info, opts)
             /\ params.videoCopy <=> UseVideoCopy(info, opts)
             /\ params.remux \in BOOLEAN /\ params.videoCopy \in BOOLEAN
             /\ params.omitAudio = FALSE
             /\ ~Copies(params) => params.profile = DefaultHLSVideoProfile(opts.maxHeight)
  <1> DEFINE path == BuildHLSSegmentBuildInput(info, opts)
             params == BuildHLSSegmentParams(info, opts, fps)
  <1>1. /\ params.remux = path.remux /\ params.videoCopy = path.videoCopy
        /\ params.omitAudio = FALSE
        /\ params.profile = IF path.remux \/ path.videoCopy THEN [codec |-> ""]
                            ELSE DefaultHLSVideoProfile(opts.maxHeight)
      BY DEF BuildHLSSegmentParams
  <1>2. /\ path.remux = (CanFMP4StreamCopy(info) /\ ~NeedsFullVideoTranscode(info, opts))
        /\ path.videoCopy = UseVideoCopy(info, opts)
      BY DEF BuildHLSSegmentBuildInput
  <1>3. path.remux \in BOOLEAN /\ path.videoCopy \in BOOLEAN
      BY <1>2 DEF UseVideoCopy
  <1> HIDE DEF path, params
  <1>4. ~Copies(params) => ~(path.remux \/ path.videoCopy) BY <1>1 DEF Copies
  <1> QED BY <1>1, <1>2, <1>3, <1>4 DEF params

(* THEOREM: whatever file a segment is asked of, one pipeline is chosen;    *)
(* video is copied only when it is H.264 of an allowed height that nobody   *)
(* wants encoded, and audio only next to it and when it is AAC or absent.   *)
THEOREM PipelineIsJustified ==
  ASSUME NEW info, NEW opts, opts.maxHeight \in Nat, info.height \in Int
  PROVE  PipelineJustified(info, opts)
  <1> DEFINE params == BuildHLSSegmentParams(info, opts, 0)
             codecs == JobCodecs(params, TRUE)
  <1>1. /\ params.remux <=> CanFMP4StreamCopy(info) /\ ~NeedsFullVideoTranscode(info, opts)
        /\ params.videoCopy <=> UseVideoCopy(info, opts)
        /\ params.omitAudio = FALSE
        /\ ~Copies(params) => params.profile = DefaultHLSVideoProfile(opts.maxHeight)
      BY PathOfParams
  <1> HIDE DEF params
  <1>2. /\ codecs.video = IF Copies(params) THEN "copy" ELSE "encode"
        /\ codecs.audio = IF params.omitAudio THEN "none" ELSE IF params.remux THEN "copy" ELSE "aac"
      BY DEF JobCodecs
  <1> HIDE DEF codecs
  <1>3. ~(params.remux /\ params.videoCopy) BY <1>1 DEF UseVideoCopy
  <1>4. codecs.video = "copy" => Copies(params) BY <1>2
  <1>5. Copies(params) =>
          /\ info.video \in H264Names /\ info.hasVideo /\ ~opts.force
          /\ (opts.maxHeight = 0 \/ info.height <= opts.maxHeight)
      <2>1. Copies(params) =>
              /\ info.video \in H264Names /\ info.hasVideo /\ ~NeedsFullVideoTranscode(info, opts)
          BY <1>1, Zenon DEF Copies, UseVideoCopy, CanFMP4StreamCopy, CanH264VideoCopy
      <2>2. ~NeedsFullVideoTranscode(info, opts) =>
              ~opts.force /\ ~(opts.maxHeight > 0 /\ info.height > opts.maxHeight)
          BY Zenon DEF NeedsFullVideoTranscode
      <2>3. ~(opts.maxHeight > 0 /\ info.height > opts.maxHeight) =>
              opts.maxHeight = 0 \/ info.height <= opts.maxHeight
          OBVIOUS
      <2> QED BY <2>1, <2>2, <2>3, Zenon
  <1>6. codecs.audio = "copy" => params.remux BY <1>1, <1>2
  <1>7. params.remux => info.audio \in {"", "aac"} /\ codecs.video = "copy"
      BY <1>1, <1>2 DEF CanFMP4StreamCopy, Copies
  <1>8. codecs.video = "encode" => params.profile.codec # ""
      <2>1. codecs.video = "encode" => ~Copies(params) BY <1>2
      <2>2. DefaultHLSVideoProfile(opts.maxHeight).codec = "h264" BY DEF DefaultHLSVideoProfile
      <2> QED BY <1>1, <2>1, <2>2
  <1> QED BY <1>3, <1>4, <1>5, <1>6, <1>7, <1>8 DEF PipelineJustified, params, codecs

(* THEOREM: requests for segments of one file that are to be made           *)
(* differently are never given the same cached segment.                     *)
THEOREM KeysTellApart ==
  ASSUME NEW info, NEW opts, NEW other
  PROVE  KeyTellsApart(info, opts, other)
  <1> DEFINE Params(o) == BuildHLSSegmentParams(info, o, DefaultFPS)
             Path(o) == BuildHLSSegmentBuildInput(info, o)
             Both(o) == Path(o).remux \/ Path(o).videoCopy
  <1>1. SUFFICES ASSUME HLSCacheFingerprint(Params(opts)) = HLSCacheFingerprint(Params(other))
                 PROVE  Params(opts) = Params(other)
      BY DEF KeyTellsApart
  <1> DEFINE Built(remux, copy, height, gop, decode) ==
               [remux |-> remux, videoCopy |-> copy, maxHeight |-> height, gop |-> gop,
                video |-> info.video, startTime |-> info.startTime, omitAudio |-> FALSE,
                decode |-> decode,
                profile |-> IF remux \/ copy THEN [codec |-> ""]
                            ELSE DefaultHLSVideoProfile(height)]
  <1>2. ASSUME NEW o
        PROVE  Params(o) = Built(Params(o).remux, Params(o).videoCopy, Params(o).maxHeight,
                                 Params(o).gop, Params(o).decode)
      BY DEF BuildHLSSegmentParams
  <1> HIDE DEF Params, Built
  <1>3. /\ Params(opts).remux = Params(other).remux
        /\ Params(opts).videoCopy = Params(other).videoCopy
        /\ Params(opts).maxHeight = Params(other).maxHeight
        /\ Params(opts).gop = Params(other).gop
        /\ Params(opts).decode = Params(other).decode
      BY <1>1 DEF HLSCacheFingerprint
  <1> QED BY <1>2, <1>3

-----------------------------------------------------------------------------
(* Jobs on whole files: what the requests must be; a probe may say anything. *)
IsRecordRequest(opts) == opts.mode \in {"copy", "transcode", "auto"}

IsJoinRequest(opts) == opts.width \in Int /\ opts.height \in Int /\ opts.fps \in Int

IsFrameRequest(opts) ==
  /\ opts.at.kind \in {"first", "seconds", "percent"} /\ opts.at.value \in Int
  /\ opts.duration \in Int

IsSheetRequest(opts) ==
  /\ opts.columns \in Int /\ opts.rows \in Int /\ opts.count \in Int
  /\ opts.interval \in Int /\ opts.start \in Int /\ opts.end \in Int /\ opts.duration \in Int

-----------------------------------------------------------------------------
(* What the plan of a recording owes to the facts it was made from.         *)
LEMMA PlanFollowsFacts ==
  ASSUME NEW opts, IsRecordRequest(opts), NEW facts
  PROVE  LET plan == DecideSegmentPlan(opts, facts)
         IN  /\ plan.video = "copy" => \/ "copy" \in {opts.mode, opts.codec}
                                       \/ /\ facts.probed /\ facts.video \in Mp4VideoCopyable
                                          /\ opts.codec \in {"", facts.video}
             /\ plan.video # "copy" /\ plan.codec = "copy" => opts.codec = "copy"
             /\ plan.audio = "copy" => \/ opts.audio = "copy" \/ RecordModeOf(opts) = "copy"
                                       \/ facts.probed /\ facts.audio \in Mp4AudioCopyable
             /\ plan.hwDecode => facts.probed /\ facts.depth > 0 /\ plan.video # "copy"
             /\ plan.aligned = opts.aligned /\ plan.seconds = opts.seconds
  <1> DEFINE mode == RecordModeOf(opts)
             video == DecideVideo(mode, opts.codec, facts)
             audio == DecideAudio(mode, opts.audio, facts)
  <1>1. opts.mode \in {"copy", "transcode", "auto"} BY DEF IsRecordRequest
  <1>2. mode \in {"copy", "transcode", "auto"} /\ (mode = "copy" => "copy" \in {opts.mode, opts.codec})
      BY <1>1 DEF RecordModeOf
  <1>3. video.action = "copy" => \/ mode = "copy"
                                 \/ /\ facts.probed /\ facts.video \in Mp4VideoCopyable
                                    /\ opts.codec \in {"", facts.video}
      BY <1>2 DEF DecideVideo, AutoTarget, Or
  <1>4. video.action # "copy" /\ video.codec = "copy" => opts.codec = "copy"
      BY <1>2 DEF DecideVideo, AutoTarget, Or, Mp4VideoCopyable
  <1>5. audio = "copy" => \/ opts.audio = "copy" \/ mode = "copy"
                          \/ facts.probed /\ facts.audio \in Mp4AudioCopyable
      BY <1>2 DEF DecideAudio
  <1> QED BY <1>2, <1>3, <1>4, <1>5 DEF DecideSegmentPlan

(* THEOREM: however a recording is asked for and whatever the probe says or *)
(* fails to say, streams are copied only when the caller forces it or the   *)
(* source is known to fit, and hardware decoding is set up whole.           *)
THEOREM RecordingIsJustified ==
  ASSUME NEW opts, IsRecordRequest(opts), NEW info,
         NEW decodes \in BOOLEAN, NEW filters \in BOOLEAN
  PROVE  RecordingJustified(opts, info, decodes, filters)
  <1> DEFINE record == SegmentRecord(opts, info, decodes, filters)
             probes == (opts.mode = "auto" \/ opts.hwDecode) /\ opts.codec # "copy"
             facts == IF probes THEN SourceFactsFromProbe(info) ELSE NoFacts
             plan == DecideSegmentPlan(opts, facts)
  <1> SUFFICES ASSUME ~record.refused
               PROVE  LET args == record.args
                      IN  /\ args.video = "copy" =>
                               \/ "copy" \in {opts.mode, opts.codec}
                               \/ /\ info.valid /\ info.video \in Mp4VideoCopyable
                                  /\ opts.codec \in {"", info.video}
                          /\ args.audio = "copy" /\ opts.audio # "copy"
                               /\ RecordModeOf(opts) # "copy" =>
                                 info.valid /\ info.audio \in Mp4AudioCopyable
                          /\ args.hwDecoder =>
                               args.hwFilter /\ info.valid /\ BitDepthFromPixFmt(info.format) > 0
                          /\ args.atClock => SecondsPerDay % args.seconds = 0
      BY DEF RecordingJustified
  <1>1. facts.probed = TRUE => /\ info.valid /\ facts.video = info.video /\ facts.audio = info.audio
                               /\ facts.depth = BitDepthFromPixFmt(info.format)
      BY DEF SourceFactsFromProbe, NoFacts
  <1>2. facts.probed \in BOOLEAN BY DEF SourceFactsFromProbe, NoFacts
  <1>3. CASE UsesIntent(opts)
      <2>1. /\ ValidateSegmentOptions(opts)
            /\ record.args = BuildSegmentRecordArgs(plan, decodes, filters)
          BY <1>3 DEF SegmentRecord, PlanSegmentRecord
      <2>2. /\ plan.video = "copy" => \/ "copy" \in {opts.mode, opts.codec}
                                      \/ /\ facts.probed /\ facts.video \in Mp4VideoCopyable
                                         /\ opts.codec \in {"", facts.video}
            /\ plan.video # "copy" /\ plan.codec = "copy" => opts.codec = "copy"
            /\ plan.audio = "copy" => \/ opts.audio = "copy" \/ RecordModeOf(opts) = "copy"
                                      \/ facts.probed /\ facts.audio \in Mp4AudioCopyable
            /\ plan.hwDecode => facts.probed /\ facts.depth > 0 /\ plan.video # "copy"
            /\ plan.aligned = opts.aligned /\ plan.seconds = opts.seconds
          <3> HIDE DEF facts
          <3> QED BY PlanFollowsFacts
      <2> HIDE DEF plan, facts
      <2>3. /\ record.args.video = "copy" => plan.video = "copy" \/ plan.codec = "copy"
            /\ record.args.audio = plan.audio
            /\ record.args.hwDecoder => plan.hwDecode
            /\ record.args.hwDecoder /\ plan.video # "copy" => record.args.hwFilter
            /\ record.args.seconds = plan.seconds /\ record.args.atClock = plan.aligned
          <3> HIDE DEF record
          <3>1. /\ record.args.video = (IF plan.video = "copy" THEN "copy" ELSE plan.codec)
                /\ record.args.audio = plan.audio
                /\ record.args.seconds = plan.seconds /\ record.args.atClock = plan.aligned
              BY <2>1 DEF BuildSegmentRecordArgs
          <3>2. /\ record.args.hwDecoder = (plan.hwDecode /\ decodes /\ filters)
                /\ record.args.hwFilter =
                     ((plan.hwDecode /\ decodes /\ filters) /\ plan.video # "copy")
              BY <2>1 DEF BuildSegmentRecordArgs
          <3> QED BY <3>1, <3>2
      <2>4. opts.aligned => SecondsPerDay % opts.seconds = 0
          BY <2>1 DEF ValidateSegmentOptions
      <2> HIDE DEF record
      <2>5. record.args.video = "copy" => \/ "copy" \in {opts.mode, opts.codec}
                                         \/ /\ info.valid /\ info.video \in Mp4VideoCopyable
                                            /\ opts.codec \in {"", info.video}
          BY <1>1, <1>2, <2>2, <2>3
      <2>6. record.args.audio = "copy" /\ opts.audio # "copy" /\ RecordModeOf(opts) # "copy" =>
              info.valid /\ info.audio \in Mp4AudioCopyable
          BY <1>1, <1>2, <2>2, <2>3
      <2>7. record.args.hwDecoder =>
              record.args.hwFilter /\ info.valid /\ BitDepthFromPixFmt(info.format) > 0
          BY <1>1, <1>2, <2>2, <2>3
      <2>8. record.args.atClock => SecondsPerDay % record.args.seconds = 0
          BY <2>2, <2>3, <2>4
      <2> QED BY <2>5, <2>6, <2>7, <2>8
  <1>4. CASE ~UsesIntent(opts)
      <2>1. /\ record.args.video = Or(opts.codec, "h264") /\ record.args.audio = "aac"
            /\ record.args.hwDecoder = FALSE /\ record.args.atClock = FALSE
          BY <1>4 DEF SegmentRecord
      <2>2. record.args.video = "copy" => opts.codec = "copy" BY <2>1 DEF Or
      <2> HIDE DEF record
      <2> QED BY <2>1, <2>2
  <1> QED BY <1>3, <1>4

-----------------------------------------------------------------------------
(* THEOREM: any number of files are joined without re-encoding only when    *)
(* each was probed, all are interchangeable and nothing is to change.       *)
THEOREM JoinIsJustified ==
  ASSUME NEW opts, IsJoinRequest(opts), NEW n \in Nat, NEW probes, DOMAIN probes = 1..n
  PROVE  JoinJustified(opts, probes)
  <1> DEFINE joined == ConcatMedia(opts, probes)
             facts == [i \in DOMAIN probes |-> SourceFactsFromProbe(probes[i])]
  <1> SUFFICES ASSUME ~joined.refused, joined.args.video = "copy", opts.codec # "copy"
               PROVE  /\ opts.fps = 0 /\ opts.width = 0
                      /\ \A i \in DOMAIN probes :
                           /\ probes[i].valid
                           /\ \A j \in DOMAIN probes :
                                /\ probes[i].video = probes[j].video
                                /\ probes[i].size = probes[j].size
                                /\ probes[i].hasAudio = probes[j].hasAudio
                                /\ probes[i].rate = probes[j].rate
      BY DEF JoinJustified
  <1>1. probes # <<>> /\ ValidateConcatOptions(opts)
        /\ joined.args = BuildConcatMediaArgs(opts, DecideConcatPlan(opts, facts))
      BY DEF ConcatMedia
  <1>2. DecideConcatPlan(opts, facts) = "copy"
      <2> DEFINE action == DecideConcatPlan(opts, facts)
      <2> HIDE DEF action, joined
      <2>1. joined.args.video = (IF action = "copy" THEN "copy" ELSE Or(opts.codec, "h264"))
          <3>1. joined.args = BuildConcatMediaArgs(opts, action) BY <1>1 DEF action
          <3>2. BuildConcatMediaArgs(opts, action).video
                  = (IF action = "copy" THEN "copy" ELSE Or(opts.codec, "h264"))
              BY ZenonT(30) DEF BuildConcatMediaArgs
          <3> QED BY <3>1, <3>2
      <2>2. action = "copy" BY <2>1 DEF Or
      <2> QED BY <2>2 DEF action
  <1>3. /\ opts.fps = 0 /\ ~(opts.width > 0 /\ opts.height > 0)
        /\ \A i \in DOMAIN facts : facts[i].probed /\ CompleteFacts(facts[i]) /\ facts[i] = facts[1]
      BY <1>2 DEF DecideConcatPlan
  <1>4. opts.width = 0
      BY <1>1, <1>3 DEF ValidateConcatOptions, IsJoinRequest
  <1>5. ASSUME NEW i \in 1..n
        PROVE  /\ probes[i].valid
               /\ facts[1].video = probes[i].video /\ facts[1].size = probes[i].size
               /\ facts[1].hasAudio = probes[i].hasAudio /\ facts[1].rate = probes[i].rate
      <2>1. facts[i] = SourceFactsFromProbe(probes[i]) OBVIOUS
      <2>2. facts[i].probed /\ facts[i] = facts[1] BY <1>3
      <2> HIDE DEF facts
      <2>3. probes[i].valid
          <3> SUFFICES ASSUME ~probes[i].valid PROVE FALSE OBVIOUS
          <3>1. facts[i] = NoFacts BY <2>1 DEF SourceFactsFromProbe
          <3>2. NoFacts.probed = FALSE BY DEF NoFacts
          <3> QED BY <2>2, <3>1, <3>2
      <2> QED BY <2>1, <2>2, <2>3 DEF SourceFactsFromProbe
  <1> HIDE DEF facts, joined
  <1> QED BY <1>3, <1>4, <1>5
-----------------------------------------------------------------------------
(* The side of the square a number of samples without a grid is laid in.    *)
LEMMA RootExists ==
  ASSUME NEW n \in Nat \ {0}
  PROVE  \E c \in 1..n : c * c >= n /\ (c - 1) * (c - 1) < n
  <1> DEFINE S == {c \in Nat : c * c >= n}
  <1>1. n \in S OBVIOUS
  <1>2. PICK c \in S : \A d \in S : c <= d BY <1>1, LeastNatural
  <1>3. c <= n BY <1>1, <1>2
  <1>4. c # 0 OBVIOUS
  <1>5. c - 1 \in Nat /\ c - 1 \notin S BY <1>2, <1>4
  <1>6. (c - 1) * (c - 1) < n BY <1>5
  <1> QED BY <1>2, <1>3, <1>4, <1>6

LEMMA DividedFits ==
  ASSUME NEW a \in Nat \ {0}, NEW b \in Nat \ {0}
  PROVE  Divided(a, b) \in Nat \ {0} /\ a <= Divided(a, b) * b
  BY DEF Divided

(* A grid has a cell for each of its samples, and at least one.             *)
LEMMA GridFits ==
  ASSUME NEW opts, IsSheetRequest(opts)
  PROVE  LET grid == SpriteGrid(opts)
         IN  /\ grid.columns \in Nat \ {0} /\ grid.rows \in Nat \ {0}
             /\ grid.count \in Nat \ {0}
             /\ grid.count <= grid.columns * grid.rows
  <1> DEFINE wanted  == IF opts.count > 0 THEN opts.count
                        ELSE IF opts.columns * opts.rows > 0 THEN opts.columns * opts.rows
                        ELSE 100
             columns == IF opts.columns > 0 THEN opts.columns
                        ELSE IF opts.rows > 0 THEN Divided(wanted, opts.rows)
                        ELSE CHOOSE c \in 1..wanted : c * c >= wanted /\ (c - 1) * (c - 1) < wanted
             rows    == IF opts.rows > 0 THEN opts.rows ELSE Divided(wanted, columns)
  <1>1. opts.columns \in Int /\ opts.rows \in Int /\ opts.count \in Int BY DEF IsSheetRequest
  <1>2. wanted \in Nat \ {0} BY <1>1
  <1> HIDE DEF wanted
  <1>3. columns \in Nat \ {0}
      <2>1. CASE opts.columns > 0 BY <1>1, <2>1
      <2>2. CASE opts.columns <= 0 /\ opts.rows > 0 BY <1>1, <1>2, <2>2, DividedFits
      <2>3. CASE opts.columns <= 0 /\ opts.rows <= 0
          <3> DEFINE Root(c) == c * c >= wanted /\ (c - 1) * (c - 1) < wanted
          <3>1. columns = CHOOSE c \in 1..wanted : Root(c) BY <1>1, <2>3
          <3>2. \E c \in 1..wanted : Root(c) BY <1>2, RootExists
          <3> HIDE DEF Root, columns
          <3>3. columns \in 1..wanted BY <3>1, <3>2, Zenon
          <3> QED BY <1>2, <3>3
      <2> QED BY <1>1, <2>1, <2>2, <2>3
  <1> HIDE DEF columns
  <1>4. rows \in Nat \ {0}
      <2>1. CASE opts.rows > 0 BY <1>1, <2>1
      <2>2. CASE opts.rows <= 0 BY <1>1, <1>2, <1>3, <2>2, DividedFits
      <2> QED BY <1>1, <2>1, <2>2
  <1> HIDE DEF rows
  <1>5. columns * rows \in Nat \ {0} BY <1>3, <1>4
  <1>6. Min({wanted, columns * rows}) \in Nat \ {0} /\ Min({wanted, columns * rows}) <= columns * rows
      <2> DEFINE cells == columns * rows
      <2>1. cells \in Nat \ {0} BY <1>5
      <2> HIDE DEF cells
      <2>2. \E m \in {wanted, cells} : \A k \in {wanted, cells} : m <= k BY <1>2, <2>1
      <2>3. Min({wanted, cells}) \in {wanted, cells} /\ Min({wanted, cells}) <= cells
          BY <2>2 DEF Min
      <2> QED BY <1>2, <2>1, <2>3 DEF cells
  <1>7. SpriteGrid(opts) = [columns |-> columns, rows |-> rows, count |-> Min({wanted, columns * rows})]
      BY DEF SpriteGrid, wanted, columns, rows
  <1> QED BY <1>3, <1>4, <1>6, <1>7

(* Samples laid out row by row have cells of their own inside the grid.     *)
LEMMA CellsApart ==
  ASSUME NEW c \in Nat \ {0}, NEW r \in Nat \ {0}, NEW n \in Nat \ {0}, n <= c * r
  PROVE  /\ Cardinality({<<i % c, i \div c>> : i \in 0..n - 1}) = n
         /\ {<<i % c, i \div c>> : i \in 0..n - 1} \subseteq (0..c - 1) \X (0..r - 1)
  <1> DEFINE S == 0..n - 1
             cell == [i \in S |-> <<i % c, i \div c>>]
             cells == {<<i % c, i \div c>> : i \in S}
  <1>1. ASSUME NEW i \in S
        PROVE  /\ i = c * (i \div c) + (i % c)
               /\ i % c \in 0..c - 1 /\ i \div c \in 0..r - 1
      <2>1. i = c * (i \div c) + (i % c) /\ i % c \in 0..c - 1 /\ i \div c \in Nat OBVIOUS
      <2>2. i \div c < r
          <3>1. i < c * r OBVIOUS
          <3>2. c * (i \div c) < c * r BY <2>1, <3>1
          <3> QED BY <2>1, <3>2
      <2> QED BY <2>1, <2>2
  <1>2. cells \subseteq (0..c - 1) \X (0..r - 1)
      <2> SUFFICES ASSUME NEW i \in S PROVE <<i % c, i \div c>> \in (0..c - 1) \X (0..r - 1)
          OBVIOUS
      <2> QED BY <1>1
  <1>3. cell \in [S -> cells] OBVIOUS
  <1>4. \A i, j \in S : cell[i] = cell[j] => i = j
      <2> SUFFICES ASSUME NEW i \in S, NEW j \in S, cell[i] = cell[j] PROVE i = j
          OBVIOUS
      <2>1. i % c = j % c /\ i \div c = j \div c OBVIOUS
      <2>2. c * (i \div c) + (i % c) = c * (j \div c) + (j % c) BY <2>1
      <2> QED BY <1>1, <2>2
  <1>5. \A t \in cells : \E i \in S : cell[i] = t OBVIOUS
  <1>6. cell \in Bijection(S, cells)
      <2> HIDE DEF cell, cells, S
      <2> QED BY <1>3, <1>4, <1>5, Fun_IsBij
  <1>7. ExistsBijection(S, cells)
      <2> HIDE DEF cell, cells, S
      <2> QED BY <1>6 DEF ExistsBijection
  <1>8. IsFiniteSet(S) /\ Cardinality(S) = n
      <2>1. 0 \in Int /\ n - 1 \in Int /\ ~(0 > n - 1) OBVIOUS
      <2>2. IsFiniteSet(0..n - 1) /\ Cardinality(0..n - 1) = (n - 1) - 0 + 1 BY <2>1, FS_Interval
      <2> QED BY <2>2
  <1>9. Cardinality(cells) = n
      <2> HIDE DEF cells, S
      <2> QED BY <1>7, <1>8, FS_Bijection
  <1> QED BY <1>2, <1>9

LEMMA SheetEnds ==
  ASSUME NEW opts, IsSheetRequest(opts)
  PROVE  SpriteEnd(opts) \in Int
  <1> DEFINE end == IF opts.end <= 0 \/ opts.end > opts.duration THEN opts.duration ELSE opts.end
  <1>1. end \in Int /\ opts.start \in Int BY DEF IsSheetRequest
  <1>2. SpriteEnd(opts) = Max({opts.start, end}) BY DEF SpriteEnd
  <1> HIDE DEF end
  <1>3. \E m \in {opts.start, end} : \A k \in {opts.start, end} : m >= k BY <1>1
  <1>4. Max({opts.start, end}) \in {opts.start, end} BY <1>3 DEF Max
  <1> QED BY <1>1, <1>2, <1>4

(* THEOREM: whatever grid, count, interval and window are asked for, every  *)
(* sample of a sprite sheet has a cell of its own inside the grid, its cue  *)
(* names that cell and ends where the next begins, and the bound given to   *)
(* ffmpeg lies after the last sample and before the one that would follow.  *)
THEOREM SheetsHoldTheirSamples ==
  ASSUME NEW opts, IsSheetRequest(opts), NEW webvtt \in BOOLEAN, NEW wide \in Int
  PROVE  SheetHoldsSamples(opts, webvtt, wide)
  <1> DEFINE sheet == SpriteSheet(opts, webvtt, wide)
             grid == SpriteGrid(opts)
             interval == SpriteInterval(opts, grid.count)
             cues == [i \in 0..grid.count - 1 |->
                        [start |-> opts.start * interval[2] + i * interval[1],
                         end |-> opts.start * interval[2] + (i + 1) * interval[1],
                         column |-> i % grid.columns, row |-> i \div grid.columns]]
             tenths == 10 * interval[1] * (grid.count - 1)
  <1>1. /\ sheet.grid = grid /\ sheet.interval = interval /\ sheet.cues = cues
        /\ sheet.bound = 2 * (IF tenths < interval[2] THEN interval[2] ELSE tenths)
                           + 10 * interval[1]
        /\ sheet.keyframesOnly = (interval[1] >= wide * interval[2] /\ ~webvtt)
      BY DEF SpriteSheet
  <1>2. PICK c \in Nat \ {0}, r \in Nat \ {0}, n \in Nat \ {0} :
          grid.columns = c /\ grid.rows = r /\ grid.count = n /\ n <= c * r
      BY GridFits
  <1>3. PICK a \in Nat \ {0}, b \in Nat \ {0} : interval[1] = a /\ interval[2] = b /\ b <= n
      <2>1. opts.start \in Int /\ opts.interval \in Int BY DEF IsSheetRequest
      <2>2. SpriteEnd(opts) \in Int BY SheetEnds
      <2>3. SpriteInterval(opts, n) = <<SpriteInterval(opts, n)[1], SpriteInterval(opts, n)[2]>>
            /\ SpriteInterval(opts, n)[1] \in Nat \ {0} /\ SpriteInterval(opts, n)[2] \in Nat \ {0}
            /\ SpriteInterval(opts, n)[2] <= n
          BY <1>2, <2>1, <2>2 DEF SpriteInterval
      <2> QED BY <1>2, <2>3
  <1>4. opts.start \in Int BY DEF IsSheetRequest
  <1> HIDE DEF sheet, grid, interval
  <1>5. \A i \in 0..n - 1 :
          /\ cues[i].column = i % c /\ cues[i].row = i \div c
          /\ cues[i].start = opts.start * b + i * a
          /\ cues[i].end = opts.start * b + (i + 1) * a
      BY <1>2, <1>3
  <1>6. DOMAIN cues = 0..n - 1 BY <1>2
  <1> HIDE DEF cues
  <1>7. {<<sheet.cues[i].column, sheet.cues[i].row>> : i \in DOMAIN sheet.cues}
          = {<<i % c, i \div c>> : i \in 0..n - 1}
      BY <1>1, <1>5, <1>6
  <1>8. \A i \in 1..n - 1 : sheet.cues[i].start = sheet.cues[i - 1].end
      <2> SUFFICES ASSUME NEW i \in 1..n - 1 PROVE cues[i].start = cues[i - 1].end BY <1>1
      <2>1. i \in 0..n - 1 /\ i - 1 \in 0..n - 1 /\ (i - 1) + 1 = i OBVIOUS
      <2> QED BY <1>5, <2>1
  <1>9. /\ 20 * (sheet.cues[n - 1].start - opts.start * b) < sheet.bound
        /\ sheet.bound < 20 * (sheet.cues[n - 1].end - opts.start * b)
      <2> DEFINE s == opts.start * b
                 m == (n - 1) * a
      <2>1. /\ s \in Int /\ m \in Int /\ (n - 1 + 1) * a = m + a /\ 10 * a * (n - 1) = 10 * m
            /\ n - 1 <= m
          BY <1>4
      <2>2. n - 1 \in 0..n - 1 OBVIOUS
      <2>3. cues[n - 1].start = s + m /\ cues[n - 1].end = s + (m + a) BY <1>5, <2>1, <2>2
      <2>4. sheet.bound = 2 * (IF 10 * m < b THEN b ELSE 10 * m) + 10 * a
          BY <1>1, <1>2, <1>3, <2>1
      <2> HIDE DEF s, m
      <2>5. 20 * (cues[n - 1].start - s) < sheet.bound /\ sheet.bound < 20 * (cues[n - 1].end - s)
          BY <1>3, <2>1, <2>3, <2>4
      <2> QED BY <1>1, <2>5 DEF s
  <1>10. webvtt => ~sheet.keyframesOnly BY <1>1
  <1>11. /\ Cardinality({<<i % c, i \div c>> : i \in 0..n - 1}) = n
         /\ {<<i % c, i \div c>> : i \in 0..n - 1} \subseteq (0..c - 1) \X (0..r - 1)
      <2>1. n <= c * r BY <1>2
      <2> QED BY <2>1, CellsApart
  <1>12. sheet.grid.count = n /\ sheet.grid.columns = c /\ sheet.grid.rows = r
         /\ sheet.interval[2] = b
      BY <1>1, <1>2, <1>3
  <1> QED BY <1>7, <1>8, <1>9, <1>10, <1>11, <1>12 DEF SheetHoldsSamples, sheet

(* THEOREM: a sheet without an interval of its own takes its last sample at *)
(* the end of its window, whatever the window and the number of samples.    *)
THEOREM SamplesReachTheEnd ==
  ASSUME NEW opts, IsSheetRequest(opts)
  PROVE  SamplesSpanWindow(opts)
  <1> DEFINE sheet == SpriteSheet(opts, TRUE, 2)
             grid == SpriteGrid(opts)
             interval == SpriteInterval(opts, grid.count)
             cues == [i \in 0..grid.count - 1 |->
                        [start |-> opts.start * interval[2] + i * interval[1],
                         end |-> opts.start * interval[2] + (i + 1) * interval[1],
                         column |-> i % grid.columns, row |-> i \div grid.columns]]
  <1>1. sheet.grid = grid /\ sheet.interval = interval /\ sheet.cues = cues
      BY DEF SpriteSheet
  <1> HIDE DEF sheet
  <1>2. PICK n \in Nat \ {0} : grid.count = n BY GridFits
  <1>3. SUFFICES ASSUME opts.interval = 0, n > 1, SpriteEnd(opts) > opts.start
                 PROVE  cues[n - 1].start = SpriteEnd(opts) * interval[2]
      BY <1>1, <1>2 DEF SamplesSpanWindow, sheet
  <1>4. PICK s \in Int, e \in Int : s = opts.start /\ e = SpriteEnd(opts)
      BY SheetEnds DEF IsSheetRequest
  <1>5. interval = <<e - s, n - 1>> BY <1>2, <1>3, <1>4 DEF SpriteInterval
  <1>6. n - 1 \in 0..n - 1 OBVIOUS
  <1>7. cues[n - 1].start = s * (n - 1) + (n - 1) * (e - s) BY <1>2, <1>4, <1>5, <1>6
  <1> HIDE DEF cues, interval
  <1>8. s * (n - 1) + (n - 1) * (e - s) = e * (n - 1) OBVIOUS
  <1> QED BY <1>4, <1>5, <1>7, <1>8

-----------------------------------------------------------------------------
(* THEOREM: the moment a frame capture seeks lies inside the media when its *)
(* duration is known, its encoder is one of the detected build, and a       *)
(* percentage silently becomes the first frame only when the duration is    *)
(* not known and is to be probed.                                           *)
THEOREM FramesAreReachable ==
  ASSUME NEW opts, IsFrameRequest(opts), NEW encoders
  PROVE  FrameReachable(opts, encoders)
  <1>1. PICK d \in Int, v \in Int : d = opts.duration /\ v = opts.at.value
      BY DEF IsFrameRequest
  <1>2. opts.at.kind \in {"first", "seconds", "percent"} BY DEF IsFrameRequest
  <1> DEFINE seek == ResolveFrameSeekSec(opts.at, d)
             encoder == ResolveFrameEncoder(opts.format, encoders)
  <1>3. ASSUME v >= 0
        PROVE  /\ d > 0 => 0 <= seek /\ seek <= 100 * d
               /\ opts.at.kind = "percent" /\ v > 0 /\ seek = 0 => d <= 0
      <2>1. CASE opts.at.kind = "seconds"
          <3>1. seek = IF d > 0 /\ v > d THEN 100 * d - 1 ELSE 100 * v
              BY <1>1, <2>1 DEF ResolveFrameSeekSec
          <3> HIDE DEF seek
          <3> QED BY <1>3, <2>1, <3>1
      <2>2. CASE opts.at.kind = "percent"
          <3>1. seek = IF d <= 0 THEN 0 ELSE d * Min({v, 100})
              BY <1>1, <2>2 DEF ResolveFrameSeekSec
          <3>2. Min({v, 100}) = IF v <= 100 THEN v ELSE 100
              <4>1. 100 \in Int OBVIOUS
              <4> QED BY <4>1, LesserOf
          <3>3. PICK m \in 0..100 : m = Min({v, 100}) /\ (v > 0 => m > 0) BY <1>3, <3>2
          <3> HIDE DEF seek
          <3>4. d > 0 => seek = d * m BY <3>1, <3>3
          <3>5. d > 0 => 0 <= d * m /\ d * m <= 100 * d /\ (m > 0 => d * m > 0) OBVIOUS
          <3> QED BY <3>3, <3>4, <3>5
      <2>3. CASE opts.at.kind = "first"
          <3>1. seek = 0 BY <2>3 DEF ResolveFrameSeekSec
          <3> HIDE DEF seek
          <3> QED BY <2>3, <3>1
      <2> QED BY <1>2, <2>1, <2>2, <2>3
  <1>4. ASSUME encoder # "", encoders # {} PROVE encoder \in encoders
      <2> DEFINE wanted == CASE opts.format = "webp" -> <<"libwebp", "webp">>
                             [] opts.format = "png"  -> <<"png">>
                             [] OTHER                -> <<"mjpeg">>
                 usable == {i \in DOMAIN wanted : encoders = {} \/ wanted[i] \in encoders}
      <2>1. encoder = IF usable = {} THEN "" ELSE wanted[Min(usable)] BY DEF ResolveFrameEncoder
      <2>2. DOMAIN wanted \subseteq Nat
          <3>1. wanted \in {<<"libwebp", "webp">>, <<"png">>, <<"mjpeg">>} BY Zenon
          <3>2. \A w \in {<<"libwebp", "webp">>, <<"png">>, <<"mjpeg">>} : DOMAIN w \subseteq Nat
              OBVIOUS
          <3> HIDE DEF wanted
          <3> QED BY <3>1, <3>2, Zenon
      <2> HIDE DEF wanted, encoder
      <2>3. usable \subseteq Nat BY <2>2
      <2>4. usable # {} BY <1>4, <2>1
      <2>5. Min(usable) \in usable BY <2>3, <2>4, LeastNatural DEF Min
      <2> QED BY <1>4, <2>1, <2>4, <2>5
  <1>5. FrameNeedsDurationProbe(opts.at, d) = (opts.at.kind = "percent" /\ d <= 0)
      BY DEF FrameNeedsDurationProbe
  <1> QED BY <1>1, <1>3, <1>4, <1>5 DEF FrameReachable, FrameCaptureArgs, ValidateFrameOptions

-----------------------------------------------------------------------------
(* Fragments: decode times moved to media time.                             *)

(* The media of a fragment as the program parses it: decode times are -1    *)
(* where there is none.                                                     *)
IsMedia(media) == media \in Seq([track : Int, version : Int, ticks : Int, dur : Nat])

(* Timescales an init gives for some of the tracks, all exact in            *)
(* Resolution.                                                              *)
AreScales(scales) ==
  \A k \in DOMAIN scales : scales[k] \in Nat /\ (scales[k] > 0 => Resolution % scales[k] = 0)

LEMMA RoundIsNearest ==
  ASSUME NEW n \in Int, NEW d \in Nat \ {0}
  PROVE  /\ Round(n, d) \in Int
         /\ -d <= 2 * (Round(n, d) * d - n) /\ 2 * (Round(n, d) * d - n) <= d
  <1> DEFINE m == Magnitude(n)
             up == (2 * m + d) \div (2 * d)
  <1>1. m \in Nat /\ (n < 0 => m = -n) /\ (n >= 0 => m = n) BY DEF Magnitude
  <1>2. up \in Nat /\ up * (2 * d) <= 2 * m + d /\ 2 * m + d < (up + 1) * (2 * d)
      <2>1. 2 * m + d \in Nat /\ 2 * d \in Nat \ {0} BY <1>1
      <2> HIDE DEF m
      <2>2. ASSUME NEW a \in Nat, NEW b \in Nat \ {0}
            PROVE  a \div b \in Nat /\ (a \div b) * b <= a /\ a < (a \div b + 1) * b
            OBVIOUS
      <2> QED BY <2>1, <2>2
  <1>3. up * (2 * d) = 2 * (up * d) /\ (up + 1) * (2 * d) = 2 * (up * d) + 2 * d
        /\ up * d \in Nat /\ (-up) * d = -(up * d)
      <2> HIDE DEF up
      <2> QED BY <1>2
  <1>4. Round(n, d) = IF n < 0 THEN -up ELSE up BY DEF Round
  <1> HIDE DEF up, m
  <1>5. -d <= 2 * (up * d - m) /\ 2 * (up * d - m) <= d BY <1>1, <1>2, <1>3
  <1>6. CASE n < 0
      <2>1. Round(n, d) * d = -(up * d) BY <1>3, <1>4, <1>6
      <2> QED BY <1>1, <1>2, <1>3, <1>4, <1>5, <1>6, <2>1
  <1>7. CASE n >= 0
      <2>1. Round(n, d) * d = up * d BY <1>4, <1>7
      <2> QED BY <1>1, <1>2, <1>3, <1>4, <1>5, <1>7, <2>1
  <1> QED BY <1>6, <1>7

LEMMA RoundIsExact ==
  ASSUME NEW n \in Int, NEW d \in Nat \ {0}
  PROVE  Round(n * d, d) = n
  <1> DEFINE r == Round(n * d, d)
  <1>1. r \in Int /\ -d <= 2 * (r * d - n * d) /\ 2 * (r * d - n * d) <= d
      <2>1. n * d \in Int OBVIOUS
      <2> QED BY <2>1, RoundIsNearest
  <1> HIDE DEF r
  <1>2. r * d - n * d = (r - n) * d BY <1>1
  <1> DEFINE e == r - n
  <1>3. e \in Int /\ -d <= 2 * (e * d) /\ 2 * (e * d) <= d BY <1>1, <1>2
  <1>4. e = 0
      <2> HIDE DEF e
      <2>1. CASE e >= 1
          <3>1. e * d >= d BY <1>3, <2>1
          <3> QED BY <1>3, <3>1
      <2>2. CASE e <= -1
          <3>1. (-e) * d >= d /\ e * d = -((-e) * d) BY <1>3, <2>2
          <3> QED BY <1>3, <3>1
      <2> QED BY <1>3, <2>1, <2>2
  <1> QED BY <1>1, <1>4 DEF r

LEMMA ScaleDivides ==
  ASSUME NEW scales, AreScales(scales), NEW k
  PROVE  LET T == TimescaleForTrackID(k, scales)
         IN  /\ T \in Nat \ {0} /\ Resolution \div T \in Nat \ {0}
             /\ T * (Resolution \div T) = Resolution
  <1> DEFINE T == TimescaleForTrackID(k, scales)
  <1>1. Resolution \in Nat \ {0} BY ScalesAssumption
  <1>2. T \in Nat \ {0} /\ Resolution % T = 0
      <2>1. VideoScale \in Nat \ {0} /\ AudioScale \in Nat \ {0} /\ Resolution % VideoScale = 0
            /\ Resolution % AudioScale = 0 BY ScalesAssumption
      <2>2. CASE k \in DOMAIN scales /\ scales[k] > 0
          <3>1. T = scales[k] BY <2>2 DEF TimescaleForTrackID
          <3>2. scales[k] \in Nat /\ Resolution % scales[k] = 0 BY <2>2 DEF AreScales
          <3> QED BY <2>2, <3>1, <3>2
      <2>3. CASE ~(k \in DOMAIN scales /\ scales[k] > 0)
          <3>1. T \in {VideoScale, AudioScale} BY <2>3 DEF TimescaleForTrackID, TimescaleForTrack
          <3> QED BY <2>1, <3>1
      <2> QED BY <2>2, <2>3
  <1> HIDE DEF T
  <1>3. ASSUME NEW a \in Nat \ {0}, NEW b \in Nat \ {0}, a % b = 0
        PROVE  a \div b \in Nat \ {0} /\ b * (a \div b) = a
      <2>1. a = b * (a \div b) + (a % b) /\ a \div b \in Nat OBVIOUS
      <2>2. b * (a \div b) = a BY <1>3, <2>1
      <2>3. a \div b # 0 BY <2>2
      <2> QED BY <2>1, <2>2, <2>3
  <1>4. Resolution \div T \in Nat \ {0} /\ T * (Resolution \div T) = Resolution
      BY <1>1, <1>2, <1>3
  <1> QED BY <1>2, <1>4 DEF T

LEMMA MediaShape ==
  ASSUME NEW media, IsMedia(media)
  PROVE  /\ Len(media) \in Nat /\ DOMAIN media = 1..Len(media)
         /\ \A i \in 1..Len(media) :
              /\ media[i] \in [track : Int, version : Int, ticks : Int, dur : Nat]
              /\ media[i].track \in Int /\ media[i].version \in Int
              /\ media[i].ticks \in Int /\ media[i].dur \in Nat
  <1> DEFINE T == [track : Int, version : Int, ticks : Int, dur : Nat]
  <1>1. media \in Seq(T) BY DEF IsMedia
  <1>2. \A t \in T : t.track \in Int /\ t.version \in Int /\ t.ticks \in Int /\ t.dur \in Nat
      OBVIOUS
  <1> HIDE DEF T
  <1>3. Len(media) \in Nat /\ DOMAIN media = 1..Len(media) BY <1>1
  <1>4. \A i \in 1..Len(media) : media[i] \in T BY <1>1
  <1> QED BY <1>2, <1>3, <1>4 DEF T

LEMMA TrackFirsts ==
  ASSUME NEW media, IsMedia(media), NEW k \in Tracks(media)
  PROVE  /\ FirstOf(media, k) \in Timed(media) /\ media[FirstOf(media, k)].track = k
         /\ FirstTFDT(media, k) \in Nat
  <1> DEFINE S == {i \in Timed(media) : media[i].track = k}
  <1>1. S \subseteq Nat BY DEF Timed, IsMedia
  <1>2. S # {} BY DEF Tracks
  <1> HIDE DEF S
  <1>3. Min(S) \in S BY <1>1, <1>2, MinIsLeast
  <1>4. FirstOf(media, k) = Min(S) BY DEF FirstOf, S
  <1>5. FirstOf(media, k) \in Timed(media) /\ media[FirstOf(media, k)].track = k
      BY <1>3, <1>4 DEF S
  <1>6. media[FirstOf(media, k)].ticks \in Nat BY <1>5, MediaShape DEF Timed
  <1> QED BY <1>5, <1>6 DEF FirstTFDT

LEMMA PrimaryIsTrack ==
  ASSUME NEW media, IsMedia(media), Tracks(media) # {}, Tracks(media) \subseteq Nat
  PROVE  PrimaryTrack(media) \in Tracks(media)
  BY MinIsLeast DEF PrimaryTrack

(* Decode times that were moved: everything else is as it was.              *)
Moved(media, out, delta) ==
  /\ IsMedia(out) /\ DOMAIN out = DOMAIN media
  /\ Timed(out) = Timed(media) /\ Tracks(out) = Tracks(media)
  /\ \A i \in DOMAIN media :
       /\ out[i].track = media[i].track /\ out[i].version = media[i].version
       /\ out[i].dur = media[i].dur
  /\ \A i \in Timed(media) : out[i].ticks = media[i].ticks + delta[media[i].track]
  /\ \A i \in Timed(media) : Fits(media[i], out[i].ticks)
  /\ Readable(media) /\ Readable(out)
  /\ \A k \in Tracks(media) :
       /\ FirstTFDT(out, k) = FirstTFDT(media, k) + delta[k]
       /\ FirstTFDT(media, k) \in Nat /\ FirstTFDT(out, k) \in Nat

LEMMA DeltasMove ==
  ASSUME NEW media, IsMedia(media), NEW delta \in [Tracks(media) -> Int],
         ApplyTFDTDeltas(media, delta).ok
  PROVE  Moved(media, ApplyTFDTDeltas(media, delta).media, delta)
  <1> DEFINE out == [i \in DOMAIN media |->
                       IF i \in Timed(media)
                         THEN [media[i] EXCEPT !.ticks = @ + delta[media[i].track]] ELSE media[i]]
             T == [track : Int, version : Int, ticks : Int, dur : Nat]
             n == Len(media)
  <1>1. /\ Readable(media) /\ \A i \in Timed(media) : Fits(media[i], out[i].ticks)
        /\ ApplyTFDTDeltas(media, delta).media = out
      BY DEF ApplyTFDTDeltas
  <1>2. n \in Nat /\ DOMAIN media = 1..n /\ \A i \in 1..n : media[i] \in T BY MediaShape
  <1>3. Timed(media) \subseteq 1..n /\ \A i \in Timed(media) : media[i].track \in Tracks(media)
      BY <1>2 DEF Timed, Tracks
  <1> HIDE DEF n
  <1>4. ASSUME NEW i \in 1..n
        PROVE  /\ out[i] \in T /\ out[i].track = media[i].track
               /\ out[i].version = media[i].version /\ out[i].dur = media[i].dur
               /\ i \in Timed(media) => out[i].ticks = media[i].ticks + delta[media[i].track]
               /\ i \notin Timed(media) => out[i] = media[i]
      <2>1. CASE i \in Timed(media)
          <3>1. delta[media[i].track] \in Int BY <1>3, <2>1
          <3>2. out[i] = [media[i] EXCEPT !.ticks = @ + delta[media[i].track]] BY <1>2, <2>1
          <3> QED BY <1>2, <2>1, <3>1, <3>2
      <2>2. CASE i \notin Timed(media)
          <3>1. out[i] = media[i] BY <1>2, <2>2
          <3> QED BY <1>2, <2>2, <3>1
      <2> QED BY <2>1, <2>2
  <1>5. DOMAIN out = 1..n BY <1>2
  <1>6. out \in Seq(T)
      <2>1. out \in [1..n -> T] BY <1>2, <1>4, <1>5
      <2> HIDE DEF out, T
      <2> QED BY <1>2, <2>1, FunctionIsSeq
  <1> HIDE DEF out
  <1>7. IsMedia(out) BY <1>6 DEF IsMedia
  <1>8. Timed(out) = Timed(media)
      <2>1. ASSUME NEW i \in Timed(media) PROVE i \in Timed(out)
          <3>1. Fits(media[i], out[i].ticks) BY <1>1
          <3>2. out[i].ticks >= 0
              <4>1. MaxV0 \in Nat BY ScalesAssumption
              <4> QED BY <3>1, <4>1 DEF Fits
          <3> QED BY <1>2, <1>3, <1>5, <3>2 DEF Timed
      <2>2. ASSUME NEW i \in Timed(out), i \notin Timed(media) PROVE FALSE
          <3>1. i \in 1..n /\ out[i].ticks >= 0 BY <1>5 DEF Timed
          <3>2. out[i] = media[i] BY <1>4, <2>2, <3>1
          <3> QED BY <1>2, <2>2, <3>1, <3>2 DEF Timed
      <2> QED BY <2>1, <2>2
  <1>9. Tracks(out) = Tracks(media)
      <2>1. \A i \in Timed(media) : out[i].track = media[i].track BY <1>3, <1>4
      <2> QED BY <1>8, <2>1 DEF Tracks
  <1>10. ASSUME NEW k \in Tracks(media)
         PROVE  /\ FirstOf(out, k) = FirstOf(media, k)
                /\ FirstTFDT(out, k) = FirstTFDT(media, k) + delta[k]
                /\ FirstTFDT(media, k) \in Nat /\ FirstTFDT(out, k) \in Nat
      <2>1. {i \in Timed(out) : out[i].track = k} = {i \in Timed(media) : media[i].track = k}
          BY <1>3, <1>4, <1>8
      <2>2. FirstOf(out, k) = FirstOf(media, k) BY <2>1 DEF FirstOf
      <2>3. /\ FirstOf(media, k) \in Timed(media) /\ media[FirstOf(media, k)].track = k
            /\ FirstTFDT(media, k) \in Nat BY TrackFirsts
      <2>4. FirstTFDT(out, k) \in Nat BY <1>7, <1>9, TrackFirsts
      <2>5. FirstTFDT(out, k) = FirstTFDT(media, k) + delta[k]
          BY <1>3, <1>4, <2>2, <2>3 DEF FirstTFDT
      <2> QED BY <2>2, <2>3, <2>4, <2>5
  <1>11. Readable(out)
      <2>1. \A k \in Tracks(media) : FirstOf(media, k) \in 1..n BY <1>3, TrackFirsts
      <2> QED BY <1>1, <1>4, <1>9, <1>10, <2>1 DEF Readable
  <1>12. \A i \in Timed(media) : out[i].ticks = media[i].ticks + delta[media[i].track]
      BY <1>3, <1>4
  <1>13. \A i \in DOMAIN media :
           /\ out[i].track = media[i].track /\ out[i].version = media[i].version
           /\ out[i].dur = media[i].dur
      BY <1>2, <1>4
  <1> QED BY <1>1, <1>2, <1>5, <1>7, <1>8, <1>9, <1>10, <1>11, <1>12, <1>13 DEF Moved

(* The shift of a track is the one of the primary track to the nearest tick *)
(* unless the track would be before zero.                                   *)
LEMMA DeltaOfTrack ==
  ASSUME NEW media, IsMedia(media), Tracks(media) \subseteq Nat, NEW scales, AreScales(scales),
         NEW start \in Nat, NEW k \in Tracks(media)
  PROVE  LET p     == PrimaryTrack(media)
             T(j)  == TimescaleForTrackID(j, scales)
             shift == start * T(p) - FirstTFDT(media, p)
             r     == Round(shift * T(k), T(p))
         IN  /\ shift \in Int /\ r \in Int
             /\ AlignmentDelta(media, start, scales) \in [Tracks(media) -> Int]
             /\ AlignmentDelta(media, start, scales)[k]
                  = IF r >= -FirstTFDT(media, k) THEN r ELSE -FirstTFDT(media, k)
  <1> DEFINE p == PrimaryTrack(media)
             T(j) == TimescaleForTrackID(j, scales)
             shift == start * T(p) - FirstTFDT(media, p)
             r(j) == Round(shift * T(j), T(p))
  <1>1. p \in Tracks(media) BY PrimaryIsTrack
  <1>2. \A j : T(j) \in Nat \ {0} BY ScaleDivides
  <1>3. \A j \in Tracks(media) : FirstTFDT(media, j) \in Nat BY TrackFirsts
  <1>4. shift \in Int
      <2> HIDE DEF p, T
      <2>1. T(p) \in Nat /\ FirstTFDT(media, p) \in Nat BY <1>1, <1>2, <1>3
      <2> QED BY <2>1
  <1>5. AlignmentDelta(media, start, scales)
          = [j \in Tracks(media) |-> Max({r(j), -FirstTFDT(media, j)})]
      BY DEF AlignmentDelta
  <1> HIDE DEF shift, T, p
  <1>6. ASSUME NEW j \in Tracks(media)
        PROVE  /\ r(j) \in Int /\ -FirstTFDT(media, j) \in Int
               /\ Max({r(j), -FirstTFDT(media, j)}) \in Int
               /\ Max({r(j), -FirstTFDT(media, j)})
                    = IF r(j) >= -FirstTFDT(media, j) THEN r(j) ELSE -FirstTFDT(media, j)
      <2>1. shift * T(j) \in Int /\ T(p) \in Nat \ {0} BY <1>2, <1>4
      <2>2. r(j) \in Int BY <2>1, RoundIsNearest
      <2>3. -FirstTFDT(media, j) \in Int BY <1>3
      <2> HIDE DEF r
      <2>4. Max({r(j), -FirstTFDT(media, j)})
              = IF r(j) >= -FirstTFDT(media, j) THEN r(j) ELSE -FirstTFDT(media, j)
          BY <2>2, <2>3, GreaterOf
      <2> QED BY <2>2, <2>3, <2>4
  <1> HIDE DEF r
  <1>7. AlignmentDelta(media, start, scales) \in [Tracks(media) -> Int] BY <1>5, <1>6
  <1>8. AlignmentDelta(media, start, scales)[k] = Max({r(k), -FirstTFDT(media, k)}) BY <1>5
  <1> QED BY <1>4, <1>6, <1>7, <1>8 DEF r, shift, T, p

LEMMA CancelFactor ==
  ASSUME NEW a \in Int, NEW b \in Int, NEW c \in Nat \ {0}, a * c <= b * c
  PROVE  a <= b
  <1> SUFFICES ASSUME a >= b + 1 PROVE FALSE OBVIOUS
  <1>1. (a - b) * c >= c
      <2> DEFINE e == a - b
      <2>1. e \in Nat /\ e >= 1 OBVIOUS
      <2> HIDE DEF e
      <2>2. e * c >= c BY <2>1
      <2> QED BY <2>2 DEF e
  <1>2. (a - b) * c = a * c - b * c OBVIOUS
  <1> QED BY <1>1, <1>2

(* In units of one R-th, a tick of a scale T is t long when T * t = R.      *)
LEMMA RoundedShift ==
  ASSUME NEW Tp \in Nat \ {0}, NEW Tk \in Nat \ {0}, NEW tp \in Nat \ {0}, NEW tk \in Nat \ {0},
         Tk * tk = Tp * tp, NEW shift \in Int, NEW r \in Int,
         -Tp <= 2 * (r * Tp - shift * Tk), 2 * (r * Tp - shift * Tk) <= Tp
  PROVE  2 * Magnitude(r * tk - shift * tp) <= tk
  <1> DEFINE e == r * Tp - shift * Tk
             x == r * tk - shift * tp
  <1>1. e \in Int /\ x \in Int OBVIOUS
  <1>2. x * Tp = e * tk
      <2>1. x * Tp = r * tk * Tp - shift * (Tp * tp) OBVIOUS
      <2>2. e * tk = r * tk * Tp - shift * (Tk * tk) OBVIOUS
      <2>3. shift * (Tp * tp) = shift * (Tk * tk) OBVIOUS
      <2> QED BY <2>1, <2>2, <2>3
  <1>3. -Tp <= 2 * e /\ 2 * e <= Tp OBVIOUS
  <1> HIDE DEF e, x
  <1>4. (2 * e) * tk <= Tp * tk /\ (-2 * e) * tk <= Tp * tk
      <2>1. ASSUME NEW a \in Int, a <= Tp PROVE a * tk <= Tp * tk
          <3>1. (Tp - a) * tk \in Nat
              <4>1. Tp - a \in Nat BY <2>1
              <4> HIDE DEF e
              <4> QED BY <4>1
          <3>2. (Tp - a) * tk = Tp * tk - a * tk BY <2>1
          <3>3. a * tk \in Int /\ Tp * tk \in Int BY <2>1
          <3> QED BY <3>1, <3>2, <3>3
      <2>2. 2 * e \in Int /\ -2 * e \in Int /\ 2 * e <= Tp /\ -2 * e <= Tp BY <1>1, <1>3
      <2> QED BY <2>1, <2>2
  <1>5. (2 * x) * Tp = (2 * e) * tk /\ (-2 * x) * Tp = (-2 * e) * tk BY <1>1, <1>2
  <1>6. (2 * x) * Tp <= tk * Tp /\ (-2 * x) * Tp <= tk * Tp
      <2>1. tk * Tp = Tp * tk OBVIOUS
      <2> QED BY <1>4, <1>5, <2>1
  <1>7. 2 * x \in Int /\ -2 * x \in Int BY <1>1
  <1>8. 2 * x <= tk /\ -2 * x <= tk BY <1>6, <1>7, CancelFactor
  <1>9. 2 * Magnitude(x) <= tk BY <1>1, <1>8 DEF Magnitude
  <1> QED BY <1>9 DEF x

LEMMA HeldTrackLeads ==
  ASSUME NEW Tp \in Nat \ {0}, NEW Tk \in Nat \ {0}, NEW tp \in Nat \ {0}, NEW tk \in Nat \ {0},
         Tk * tk = Tp * tp, NEW Fp \in Nat, NEW Fk \in Nat, NEW start \in Nat,
         NEW shift \in Int, shift = start * Tp - Fp, NEW r \in Int,
         -Tp <= 2 * (r * Tp - shift * Tk), r < -Fk
  PROVE  Fk * tk - Fp * tp < -start * (Tp * tp)
  <1> DEFINE lead == -(Fk * tk) - start * (Tp * tp) + Fp * tp
  <1>1. lead \in Int OBVIOUS
  <1>2. lead * Tp = (-Fk * Tp - shift * Tk) * tk
      <2>1. lead * Tp = -Fk * Tp * tk - start * Tp * (Tp * tp) + Fp * (Tp * tp) OBVIOUS
      <2>2. shift * Tk * tk = shift * (Tp * tp) OBVIOUS
      <2>3. shift * (Tp * tp) = start * Tp * (Tp * tp) - Fp * (Tp * tp) OBVIOUS
      <2>4. (-Fk * Tp - shift * Tk) * tk = -Fk * Tp * tk - shift * Tk * tk OBVIOUS
      <2> QED BY <2>1, <2>2, <2>3, <2>4
  <1> HIDE DEF lead
  <1>3. -Fk * Tp >= r * Tp + Tp
      <2> DEFINE d == -Fk - (r + 1)
      <2>1. d \in Nat OBVIOUS
      <2>2. d * Tp = -Fk * Tp - (r * Tp + Tp) OBVIOUS
      <2> HIDE DEF d
      <2>3. d * Tp \in Nat BY <2>1
      <2>4. -Fk * Tp \in Int /\ r * Tp \in Int OBVIOUS
      <2> QED BY <2>2, <2>3, <2>4
  <1>4. -Fk * Tp - shift * Tk \in Nat \ {0}
      <2>1. -Fk * Tp \in Int /\ r * Tp \in Int /\ shift * Tk \in Int OBVIOUS
      <2> QED BY <1>3, <2>1
  <1>5. lead * Tp \in Nat \ {0}
      <2> DEFINE g == -Fk * Tp - shift * Tk
      <2>1. g * tk \in Nat \ {0}
          <3> HIDE DEF g
          <3>1. g \in Nat \ {0} BY <1>4 DEF g
          <3> QED BY <3>1
      <2> QED BY <1>2, <2>1
  <1>6. lead > 0
      <2> SUFFICES ASSUME lead <= 0 PROVE FALSE BY <1>1
      <2>1. -lead \in Nat BY <1>1
      <2>2. (-lead) * Tp \in Nat /\ (-lead) * Tp = -(lead * Tp) BY <1>1, <2>1
      <2> QED BY <1>5, <2>2
  <1> QED BY <1>6 DEF lead

LEMMA NothingMoves ==
  ASSUME NEW media, IsMedia(media), Readable(media),
         \A i \in Timed(media) : Fits(media[i], media[i].ticks),
         NEW delta, \A k \in Tracks(media) : delta[k] = 0
  PROVE  ApplyTFDTDeltas(media, delta) = [ok |-> TRUE, media |-> media]
  <1> DEFINE T == [track : Int, version : Int, ticks : Int, dur : Nat]
             out == [i \in DOMAIN media |->
                       IF i \in Timed(media)
                         THEN [media[i] EXCEPT !.ticks = @ + delta[media[i].track]] ELSE media[i]]
  <1>1. ASSUME NEW i \in DOMAIN media PROVE out[i] = media[i]
      <2>1. CASE i \in Timed(media)
          <3>1. media[i].track \in Tracks(media) BY <2>1 DEF Tracks
          <3>2. delta[media[i].track] = 0 BY <3>1
          <3>3. out[i] = [media[i] EXCEPT !.ticks = @ + 0] BY <2>1, <3>2
          <3>4. media[i] \in T /\ media[i].ticks \in Int BY MediaShape
          <3>5. media[i].ticks + 0 = media[i].ticks BY <3>4
          <3> QED BY <3>3, <3>4, <3>5
      <2>2. CASE i \notin Timed(media) BY <2>2
      <2> QED BY <2>1, <2>2
  <1>2. media = [i \in DOMAIN media |-> media[i]] BY DEF IsMedia
  <1>3. out = media BY <1>1, <1>2
  <1>4. \A i \in Timed(media) : Fits(media[i], out[i].ticks) BY <1>3
  <1>5. ApplyTFDTDeltas(media, delta) = [ok |-> TRUE, media |-> out]
      BY <1>4 DEF ApplyTFDTDeltas
  <1> QED BY <1>3, <1>5

(* What alignment makes of the tracks: delta is what each was moved by.     *)
LEMMA AlignedTracks ==
  ASSUME NEW media, IsMedia(media), Tracks(media) \subseteq Nat, Tracks(media) # {},
         NEW scales, AreScales(scales), NEW start \in Nat,
         AlignFragmentToMediaStart(media, start, scales).ok
  PROVE  LET out == AlignFragmentToMediaStart(media, start, scales)
             p   == PrimaryTrack(media)
         IN  /\ out = [ok |-> TRUE, media |-> out.media]
             /\ Moved(media, out.media, AlignmentDelta(media, start, scales))
             /\ p \in Tracks(media) /\ PrimaryTrack(out.media) = p
             /\ FirstTFDT(out.media, p) = start * TimescaleForTrackID(p, scales)
  <1> DEFINE out == AlignFragmentToMediaStart(media, start, scales)
             p   == PrimaryTrack(media)
             delta == AlignmentDelta(media, start, scales)
             T   == TimescaleForTrackID(p, scales)
             shift == start * T - FirstTFDT(media, p)
  <1>1. out = ApplyTFDTDeltas(media, delta) BY DEF AlignFragmentToMediaStart
  <1>2. p \in Tracks(media) BY PrimaryIsTrack
  <1>3. delta \in [Tracks(media) -> Int] BY <1>2, DeltaOfTrack
  <1>4. Moved(media, out.media, delta)
      <2> HIDE DEF delta
      <2>1. ApplyTFDTDeltas(media, delta).ok BY <1>1
      <2> QED BY <1>1, <1>3, <2>1, DeltasMove
  <1>5. out = [ok |-> TRUE, media |-> out.media]
      <2>1. out.ok OBVIOUS
      <2> HIDE DEF delta, out
      <2>2. \E m : out \in {[ok |-> TRUE, media |-> m], [ok |-> FALSE, media |-> m]}
          BY <1>1 DEF ApplyTFDTDeltas
      <2> QED BY <2>1, <2>2
  <1>6. PrimaryTrack(out.media) = p
      <2>1. Tracks(out.media) = Tracks(media) BY <1>4 DEF Moved
      <2> QED BY <2>1 DEF PrimaryTrack
  <1>7. FirstTFDT(out.media, p) = start * T
      <2>1. T \in Nat \ {0} BY ScaleDivides
      <2>2. FirstTFDT(media, p) \in Nat BY <1>2, TrackFirsts
      <2>3. start * T \in Nat /\ shift \in Int /\ shift >= -FirstTFDT(media, p)
          <3> HIDE DEF T, p
          <3> QED BY <2>1, <2>2
      <2>4. Round(shift * T, T) = shift
          <3> HIDE DEF shift, T
          <3> QED BY <2>1, <2>3, RoundIsExact
      <2>5. delta[p] = IF Round(shift * T, T) >= -FirstTFDT(media, p)
                         THEN Round(shift * T, T) ELSE -FirstTFDT(media, p)
          BY <1>2, DeltaOfTrack
      <2> HIDE DEF delta
      <2>6. FirstTFDT(out.media, p) = FirstTFDT(media, p) + delta[p] BY <1>2, <1>4 DEF Moved
      <2>7. delta[p] = shift BY <2>3, <2>4, <2>5
      <2> HIDE DEF out, p, T
      <2>8. delta[p] = start * T - FirstTFDT(media, p) BY <2>7 DEF shift
      <2> QED BY <2>1, <2>2, <2>3, <2>6, <2>8
  <1> QED BY <1>2, <1>4, <1>5, <1>6, <1>7

(* A track is moved by the shift of the primary one to the nearest tick, or *)
(* leads by more than the media has and is held at zero.                    *)
LEMMA LagIsKept ==
  ASSUME NEW media, IsMedia(media), Tracks(media) \subseteq Nat,
         NEW scales, AreScales(scales), NEW start \in Nat, NEW k \in Tracks(media),
         AlignFragmentToMediaStart(media, start, scales).ok
  PROVE  LET out   == AlignFragmentToMediaStart(media, start, scales).media
             p     == PrimaryTrack(media)
             T(j)  == TimescaleForTrackID(j, scales)
             shift == start * T(p) - FirstTFDT(media, p)
             r     == Round(shift * T(k), T(p))
         IN  \/ /\ FirstTFDT(out, k) = FirstTFDT(media, k) + r /\ r >= -FirstTFDT(media, k)
                /\ 2 * Magnitude(Lag(out, k, scales) - Lag(media, k, scales))
                     <= Resolution \div T(k)
             \/ /\ FirstTFDT(out, k) = 0 /\ r < -FirstTFDT(media, k)
                /\ Lag(media, k, scales) < -start * Resolution
  <1> DEFINE out   == AlignFragmentToMediaStart(media, start, scales).media
             p     == PrimaryTrack(media)
             T(j)  == TimescaleForTrackID(j, scales)
             tick(j) == Resolution \div T(j)
             shift == start * T(p) - FirstTFDT(media, p)
             r     == Round(shift * T(k), T(p))
             delta == AlignmentDelta(media, start, scales)
             F(j)  == FirstTFDT(media, j)
             G(j)  == FirstTFDT(out, j)
  <1>1. /\ Moved(media, out, delta) /\ p \in Tracks(media) /\ PrimaryTrack(out) = p
        /\ G(p) = start * T(p)
      BY AlignedTracks
  <1>2. /\ shift \in Int /\ r \in Int
        /\ delta[k] = IF r >= -F(k) THEN r ELSE -F(k)
      BY DeltaOfTrack
  <1>3. \A j : T(j) \in Nat \ {0} /\ tick(j) \in Nat \ {0} /\ T(j) * tick(j) = Resolution
      BY ScaleDivides
  <1>4. F(k) \in Nat /\ F(p) \in Nat /\ G(k) = F(k) + delta[k] BY <1>1 DEF Moved
  <1>5. /\ Lag(media, k, scales) = F(k) * tick(k) - F(p) * tick(p)
        /\ Lag(out, k, scales) = G(k) * tick(k) - G(p) * tick(p)
      BY <1>1 DEF Lag, Sec
  <1>6. shift = start * T(p) - F(p) OBVIOUS
  <1> HIDE DEF delta
  <1>7. -T(p) <= 2 * (r * T(p) - shift * T(k)) /\ 2 * (r * T(p) - shift * T(k)) <= T(p)
      <2>1. shift * T(k) \in Int BY <1>2, <1>3
      <2> HIDE DEF shift, T
      <2> QED BY <1>3, <2>1, RoundIsNearest
  <1> DEFINE a == T(p)
             b == T(k)
             c == tick(p)
             d == tick(k)
             f == F(k)
             g == F(p)
  <1>8. /\ a \in Nat \ {0} /\ b \in Nat \ {0} /\ c \in Nat \ {0} /\ d \in Nat \ {0}
        /\ b * d = a * c /\ Resolution = a * c
      BY <1>3
  <1>9. /\ f \in Nat /\ g \in Nat /\ shift = start * a - g /\ r \in Int /\ shift \in Int
        /\ -a <= 2 * (r * a - shift * b) /\ 2 * (r * a - shift * b) <= a
      BY <1>2, <1>4, <1>6, <1>7
  <1>10. /\ G(p) = start * a /\ G(k) = f + delta[k] /\ delta[k] = IF r >= -f THEN r ELSE -f
         /\ Lag(media, k, scales) = f * d - g * c /\ Lag(out, k, scales) = G(k) * d - G(p) * c
      BY <1>1, <1>2, <1>4, <1>5
  <1> SUFFICES \/ /\ G(k) = f + r /\ r >= -f
                  /\ 2 * Magnitude(Lag(out, k, scales) - Lag(media, k, scales)) <= d
               \/ /\ G(k) = 0 /\ r < -f /\ Lag(media, k, scales) < -start * Resolution
      OBVIOUS
  <1> HIDE DEF out, T, tick, shift, r, F, G, a, b, c, d, f, g
  <1>11. CASE r >= -f
      <2>1. G(k) = f + r BY <1>10, <1>11
      <2>2. Lag(out, k, scales) - Lag(media, k, scales) = r * d - shift * c
          <3>1. (f + r) * d = f * d + r * d BY <1>8, <1>9
          <3>3. Lag(out, k, scales) = (f * d + r * d) - start * a * c
              <4>1. G(k) * d = f * d + r * d BY <2>1, <3>1
              <4>2. G(p) * c = start * a * c BY <1>10
              <4>3. Lag(out, k, scales) = G(k) * d - G(p) * c BY <1>10
              <4> QED BY <4>1, <4>2, <4>3, Zenon
          <3>4. f * d \in Int /\ g * c \in Int /\ start * a * c \in Int /\ r * d \in Int
              BY <1>8, <1>9
          <3>2. shift * c = start * a * c - g * c BY <1>8, <1>9
          <3> QED BY <1>10, <3>2, <3>3, <3>4
      <2>3. 2 * Magnitude(r * d - shift * c) <= d BY <1>8, <1>9, RoundedShift
      <2> QED BY <1>11, <2>1, <2>2, <2>3
  <1>12. CASE r < -f
      <2>1. G(k) = 0 BY <1>9, <1>10, <1>12
      <2>2. f * d - g * c < -start * (a * c) BY <1>8, <1>9, <1>12, HeldTrackLeads
      <2> QED BY <1>8, <1>10, <1>12, <2>1, <2>2
  <1> QED BY <1>9, <1>11, <1>12

(* THEOREM: aligning a fragment puts its primary track at start, keeps the  *)
(* tracks' distance to the nearest tick and each track's own spacing, fits  *)
(* the fields, is done after once, and on the default timescales is a plain *)
(* offset: for any samples, tracks and exact timescales (mp4/tfdt.go).      *)
THEOREM AlignmentIsSound ==
  ASSUME NEW media, IsMedia(media), Tracks(media) \subseteq Nat,
         NEW scales, AreScales(scales), NEW start \in Nat
  PROVE  AlignIsSound(media, start, scales)
  <1> DEFINE aligned == AlignFragmentToMediaStart(media, start, scales)
             out == aligned.media
             p   == PrimaryTrack(media)
             T(j) == TimescaleForTrackID(j, scales)
             delta == AlignmentDelta(media, start, scales)
             plain == \A k \in Tracks(media) : FirstTFDT(media, k) = 0
  <1> SUFFICES ASSUME aligned.ok, Tracks(media) # {}
               PROVE  /\ FirstTFDT(out, p) = start * T(p)
                      /\ \A k \in Tracks(media) :
                           \/ 2 * Magnitude(Lag(out, k, scales) - Lag(media, k, scales))
                                <= Resolution \div T(k)
                           \/ FirstTFDT(out, k) = 0 /\ Lag(media, k, scales) < -start * Resolution
                      /\ \A i, j \in Timed(media) :
                           media[i].track = media[j].track =>
                             out[i].ticks - out[j].ticks = media[i].ticks - media[j].ticks
                      /\ \A i \in Timed(media) : Fits(media[i], out[i].ticks)
                      /\ AlignFragmentToMediaStart(out, start, scales) = aligned
                      /\ scales = <<>> /\ plain
                           => OffsetDecodeTimeByStartSec(media, start) = aligned
      BY DEF AlignIsSound
  <1>1. /\ aligned = [ok |-> TRUE, media |-> out] /\ Moved(media, out, delta)
        /\ p \in Tracks(media) /\ PrimaryTrack(out) = p /\ FirstTFDT(out, p) = start * T(p)
      BY AlignedTracks
  <1>2. ASSUME NEW k \in Tracks(media)
        PROVE  \/ 2 * Magnitude(Lag(out, k, scales) - Lag(media, k, scales)) <= Resolution \div T(k)
               \/ FirstTFDT(out, k) = 0 /\ Lag(media, k, scales) < -start * Resolution
      BY LagIsKept
  <1>3. \A k \in Tracks(media) : delta \in [Tracks(media) -> Int] BY DeltaOfTrack
  <1>4. \A j : T(j) \in Nat \ {0} BY ScaleDivides
  <1>5. aligned = ApplyTFDTDeltas(media, delta) BY DEF AlignFragmentToMediaStart
  <1>6. ASSUME scales = <<>>, plain
        PROVE  OffsetDecodeTimeByStartSec(media, start) = aligned
      <2> DEFINE offset == [k \in Tracks(media) |-> start * TimescaleForTrack(k)]
                 shift == start * T(p) - FirstTFDT(media, p)
      <2>1. ASSUME NEW k \in Tracks(media) PROVE delta[k] = start * TimescaleForTrack(k)
          <3>1. T(k) = TimescaleForTrack(k)
              <4>1. DOMAIN <<>> = {} OBVIOUS
              <4> QED BY <1>6, <4>1 DEF TimescaleForTrackID
          <3>2. FirstTFDT(media, k) = 0 /\ FirstTFDT(media, p) = 0 BY <1>1, <1>6
          <3>3. delta[k] = IF Round(shift * T(k), T(p)) >= -FirstTFDT(media, k)
                             THEN Round(shift * T(k), T(p)) ELSE -FirstTFDT(media, k)
              BY DeltaOfTrack
          <3>4. shift * T(k) = (start * T(k)) * T(p) /\ start * T(k) \in Nat
              <4>1. T(k) \in Nat /\ T(p) \in Nat BY <1>4
              <4> HIDE DEF T
              <4> QED BY <3>2, <4>1
          <3> HIDE DEF delta, T, shift
          <3>5. Round((start * T(k)) * T(p), T(p)) = start * T(k) BY <1>4, <3>4, RoundIsExact
          <3> QED BY <3>1, <3>2, <3>3, <3>4, <3>5
      <2>2. delta = offset
          <3>1. delta = [k \in Tracks(media) |-> delta[k]] BY <1>1, <1>3
          <3> HIDE DEF delta
          <3> QED BY <2>1, <3>1
      <2>3. OffsetDecodeTimeByStartSec(media, start) = ApplyTFDTDeltas(media, offset)
          BY DEF OffsetDecodeTimeByStartSec
      <2> HIDE DEF delta, aligned
      <2> QED BY <1>5, <2>2, <2>3
  <1>7. AlignFragmentToMediaStart(out, start, scales) = aligned
      <2> DEFINE again == AlignmentDelta(out, start, scales)
                 shift == start * T(p) - FirstTFDT(out, p)
      <2> HIDE DEF out, delta
      <2>1. /\ IsMedia(out) /\ Tracks(out) = Tracks(media) /\ Timed(out) = Timed(media)
            /\ Readable(out) /\ \A k \in Tracks(media) : FirstTFDT(out, k) \in Nat
            /\ \A i \in Timed(media) : Fits(media[i], out[i].ticks) /\ out[i].version = media[i].version
          BY <1>1 DEF Moved, Timed
      <2>2. ASSUME NEW k \in Tracks(out) PROVE again[k] = 0
          <3>1. again[k] = IF Round(shift * T(k), T(p)) >= -FirstTFDT(out, k)
                             THEN Round(shift * T(k), T(p)) ELSE -FirstTFDT(out, k)
              <4>1. Tracks(out) \subseteq Nat BY <2>1
              <4> HIDE DEF again
              <4> QED BY <1>1, <2>1, <4>1, DeltaOfTrack DEF again
          <3>2. shift = 0
              <4>1. T(p) \in Nat BY <1>4
              <4> HIDE DEF T
              <4> QED BY <1>1, <4>1
          <3>3. shift * T(k) = 0 * T(p)
              <4>1. T(k) \in Nat /\ T(p) \in Nat BY <1>4
              <4> HIDE DEF T, shift
              <4> QED BY <3>2, <4>1
          <3> HIDE DEF again, T, shift
          <3>4. Round(0 * T(p), T(p)) = 0 BY <1>4, RoundIsExact
          <3>5. FirstTFDT(out, k) \in Nat BY <2>1
          <3> QED BY <3>1, <3>3, <3>4, <3>5
      <2>3. \A i \in Timed(out) : Fits(out[i], out[i].ticks) BY <2>1 DEF Fits
      <2>4. AlignFragmentToMediaStart(out, start, scales) = ApplyTFDTDeltas(out, again)
          BY <2>1 DEF AlignFragmentToMediaStart
      <2> HIDE DEF again, aligned
      <2>5. ApplyTFDTDeltas(out, again) = [ok |-> TRUE, media |-> out]
          BY <2>1, <2>2, <2>3, NothingMoves
      <2> QED BY <1>1, <2>4, <2>5
  <1>8. ASSUME NEW i \in Timed(media), NEW j \in Timed(media), media[i].track = media[j].track
        PROVE  out[i].ticks - out[j].ticks = media[i].ticks - media[j].ticks
      <2>1. media[i].track \in Tracks(media) BY DEF Tracks
      <2>2. delta[media[i].track] \in Int BY <1>3, <2>1
      <2>3. media[i].ticks \in Int /\ media[j].ticks \in Int BY MediaShape DEF Timed
      <2> HIDE DEF out, delta
      <2>4. /\ out[i].ticks = media[i].ticks + delta[media[i].track]
            /\ out[j].ticks = media[j].ticks + delta[media[j].track] BY <1>1 DEF Moved
      <2> QED BY <1>8, <2>2, <2>3, <2>4
  <1>9. \A i \in Timed(media) : Fits(media[i], out[i].ticks)
      <2> HIDE DEF out, delta
      <2> QED BY <1>1 DEF Moved
  <1> HIDE DEF aligned, out, delta, T, p, plain
  <1> QED BY <1>1, <1>2, <1>6, <1>7, <1>8, <1>9

-----------------------------------------------------------------------------
(* Fragments: prefixes of files.                                            *)

LEMMA LengthOfSeq ==
  ASSUME NEW N \in Nat, NEW R, NEW f \in [1..N -> R]
  PROVE  Len(f) = N
  <1>1. f \in Seq(R) BY FunctionIsSeq
  <1>2. DOMAIN f = 1..Len(f) /\ DOMAIN f = 1..N /\ Len(f) \in Nat BY <1>1
  <1> QED BY <1>2

LEMMA SumsRecur ==
  ASSUME NEW N \in Nat, NEW numbers, numbers \in [1..N -> Nat], Len(numbers) = N
  PROVE  /\ SumOfFirst(numbers, 0) = 0
         /\ \A n \in 1..N : SumOfFirst(numbers, n) = SumOfFirst(numbers, n - 1) + numbers[n]
         /\ \A n \in 0..N : SumOfFirst(numbers, n) \in Nat
  <1> DEFINE step == [k \in 1..N |-> [s \in Nat |-> s + numbers[k]]]
             Def(f) == [k \in 0..N |-> IF k = 0 THEN 0 ELSE f[k - 1] + numbers[k]]
             sum == CHOOSE f : f = Def(f)
  <1>1. \A n : SumOfFirst(numbers, n) = sum[n] BY DEF SumOfFirst
  <1>2. step \in [1..N -> [Nat -> Nat]] OBVIOUS
  <1>3. \A k \in 1..N, s \in Nat : step[k][s] = s + numbers[k] OBVIOUS
  <1> HIDE DEF step
  <1>4. PICK g \in [0..N -> Nat] : Recurs(g, N, 0, step) BY <1>2, RecursionUpTo
  <1>5. \A k \in 0..N : g[k] = IF k = 0 THEN 0 ELSE g[k - 1] + numbers[k]
      <2> SUFFICES ASSUME NEW k \in 0..N PROVE g[k] = IF k = 0 THEN 0 ELSE g[k - 1] + numbers[k]
          OBVIOUS
      <2>1. k # 0 => k \in 1..N /\ k - 1 \in 0..N /\ g[k - 1] \in Nat OBVIOUS
      <2> QED BY <1>3, <1>4, <2>1 DEF Recurs
  <1>6. g = Def(g) BY <1>5
  <1>7. sum = Def(sum)
      <2> HIDE DEF Def
      <2> QED BY <1>6
  <1>8. \A k \in 0..N : sum[k] = IF k = 0 THEN 0 ELSE sum[k - 1] + numbers[k]
      <2> DEFINE f == sum
      <2>1. f = Def(f) BY <1>7
      <2> HIDE DEF f
      <2>2. \A k \in 0..N : f[k] = IF k = 0 THEN 0 ELSE f[k - 1] + numbers[k] BY <2>1
      <2> QED BY <2>2 DEF f
  <1> HIDE DEF sum, Def
  <1> DEFINE S == {k \in 0..N : sum[k] = g[k]}
  <1>9. 0 \in S
      <2>1. 0 \in 0..N OBVIOUS
      <2>2. sum[0] = 0 /\ g[0] = 0 BY <1>5, <1>8, <2>1
      <2> QED BY <2>1, <2>2
  <1>10. ASSUME NEW k \in 0..N - 1, k \in S PROVE k + 1 \in S
      <2>1. k + 1 \in 0..N /\ k + 1 # 0 /\ (k + 1) - 1 = k OBVIOUS
      <2> QED BY <1>5, <1>8, <1>10, <2>1
  <1>11. \A k \in 0..N : k \in S
      <2> HIDE DEF S
      <2> QED BY <1>9, <1>10, InductionUpTo
  <1>12. \A k \in 0..N : sum[k] \in Nat BY <1>11
  <1>13. sum[0] = 0
      <2>1. 0 \in 0..N OBVIOUS
      <2> QED BY <1>8, <2>1
  <1>14. ASSUME NEW k \in 1..N PROVE sum[k] = sum[k - 1] + numbers[k]
      <2>1. k \in 0..N /\ k # 0 OBVIOUS
      <2> QED BY <1>8, <2>1
  <1> QED BY <1>1, <1>12, <1>13, <1>14

(* Boxes on disk: none is empty, and a moof holds track fragments.          *)
AreBoxes(boxes) ==
  /\ Len(boxes) \in Nat /\ DOMAIN boxes = 1..Len(boxes)
  /\ \A i \in DOMAIN boxes : boxes[i].size \in Nat \ {0} /\ IsMedia(boxes[i].trafs)

LEMMA OffsetsIncrease ==
  ASSUME NEW boxes, AreBoxes(boxes)
  PROVE  /\ Offset(boxes, 1) = 0
         /\ \A i \in 1..Len(boxes) + 1 : Offset(boxes, i) \in Nat
         /\ \A i \in 1..Len(boxes) : Offset(boxes, i + 1) = Offset(boxes, i) + boxes[i].size
         /\ \A i, j \in 1..Len(boxes) + 1 : i < j => Offset(boxes, i) < Offset(boxes, j)
         /\ \A i, j \in 1..Len(boxes) + 1 : i <= j => Offset(boxes, i) <= Offset(boxes, j)
  <1> DEFINE sizes == [j \in DOMAIN boxes |-> boxes[j].size]
             N == Len(boxes)
             O(i) == Offset(boxes, i)
  <1>1. /\ N \in Nat /\ DOMAIN boxes = 1..N
        /\ \A i \in 1..N : boxes[i].size \in Nat \ {0} BY DEF AreBoxes
  <1>2. sizes \in [1..N -> Nat] /\ \A i \in 1..N : sizes[i] = boxes[i].size BY <1>1
  <1>3. \A i : O(i) = SumOfFirst(sizes, i - 1) BY DEF Offset
  <1> HIDE DEF sizes, N
  <1>4. Len(sizes) = N BY <1>1, <1>2, LengthOfSeq
  <1>5. /\ SumOfFirst(sizes, 0) = 0
        /\ \A n \in 1..N : SumOfFirst(sizes, n) = SumOfFirst(sizes, n - 1) + sizes[n]
        /\ \A n \in 0..N : SumOfFirst(sizes, n) \in Nat
      BY <1>1, <1>2, <1>4, SumsRecur
  <1>6. O(1) = 0
      <2>1. 1 - 1 = 0 OBVIOUS
      <2> QED BY <1>3, <1>5, <2>1
  <1>7. ASSUME NEW i \in 1..N + 1 PROVE O(i) \in Nat
      <2>1. i - 1 \in 0..N BY <1>1
      <2> QED BY <1>3, <1>5, <2>1
  <1>8. ASSUME NEW i \in 1..N PROVE O(i + 1) = O(i) + boxes[i].size
      <2>1. (i + 1) - 1 = i OBVIOUS
      <2>2. O(i + 1) = SumOfFirst(sizes, i) /\ O(i) = SumOfFirst(sizes, i - 1) BY <1>3, <2>1
      <2> QED BY <1>2, <1>5, <2>2
  <1> HIDE DEF O
  <1> DEFINE S == {j \in 0..N : \A i \in 1..j : O(i) < O(j + 1)}
  <1>9. 0 \in S BY <1>1
  <1>10. ASSUME NEW j \in 0..N - 1, j \in S PROVE j + 1 \in S
      <2>1. j + 1 \in 0..N /\ j + 1 \in 1..N /\ (j + 1) + 1 \in 1..N + 1 BY <1>1
      <2>2. O((j + 1) + 1) = O(j + 1) + boxes[j + 1].size BY <1>8, <2>1
      <2>3. O(j + 1) \in Nat /\ boxes[j + 1].size \in Nat \ {0} BY <1>1, <1>7, <2>1
      <2>4. ASSUME NEW i \in 1..j + 1 PROVE O(i) < O((j + 1) + 1)
          <3>1. CASE i = j + 1 BY <2>2, <2>3, <3>1
          <3>2. CASE i # j + 1
              <4>1. i \in 1..j /\ i \in 1..N + 1 BY <1>1, <3>2
              <4>2. O(i) < O(j + 1) /\ O(i) \in Nat BY <1>7, <1>10, <4>1
              <4> QED BY <2>2, <2>3, <4>2
          <3> QED BY <3>1, <3>2
      <2> QED BY <2>1, <2>4
  <1>11. \A j \in 0..N : j \in S
      <2> HIDE DEF S
      <2> QED BY <1>1, <1>9, <1>10, InductionUpTo
  <1>12. ASSUME NEW i \in 1..N + 1, NEW j \in 1..N + 1, i < j PROVE O(i) < O(j)
      <2>1. j - 1 \in 0..N /\ i \in 1..j - 1 /\ (j - 1) + 1 = j BY <1>1, <1>12
      <2>2. \A l \in 1..j - 1 : O(l) < O((j - 1) + 1) BY <1>11, <2>1
      <2> QED BY <2>1, <2>2
  <1>13. ASSUME NEW i \in 1..N + 1, NEW j \in 1..N + 1, i <= j PROVE O(i) <= O(j)
      <2>1. O(i) \in Nat /\ O(j) \in Nat BY <1>7
      <2>2. i < j \/ i = j BY <1>1, <1>13
      <2>3. i < j => O(i) < O(j) BY <1>12
      <2> QED BY <2>1, <2>2, <2>3
  <1> QED BY <1>6, <1>7, <1>8, <1>12, <1>13 DEF O, N

LEMMA NoMoofNoMedia ==
  ASSUME NEW boxes, AreBoxes(boxes), NEW n \in 0..Len(boxes),
         \A i \in 1..n : boxes[i].type # "moof"
  PROVE  MediaOf(boxes, n) = <<>>
  <1> DEFINE N == Len(boxes)
             T == Seq([track : Int, version : Int, ticks : Int, dur : Nat])
             Next(k, m) == IF boxes[k].type = "moof" THEN m \o boxes[k].trafs ELSE m
             step == [k \in 1..N |-> [m \in T |-> Next(k, m)]]
             Def(f) == [k \in 0..N |->
                          IF k = 0 THEN <<>>
                          ELSE IF boxes[k].type = "moof" THEN f[k - 1] \o boxes[k].trafs
                          ELSE f[k - 1]]
             media == CHOOSE f : f = Def(f)
  <1>1. N \in Nat /\ \A k \in 1..N : boxes[k].trafs \in T BY DEF AreBoxes, IsMedia
  <1>2. MediaOf(boxes, n) = media[n] BY DEF MediaOf
  <1>3. n \in 0..N OBVIOUS
  <1> HIDE DEF N
  <1>4. \A k \in 1..N, m \in T : Next(k, m) \in T BY <1>1
  <1>5. step \in [1..N -> [T -> T]] /\ \A k \in 1..N, m \in T : step[k][m] = Next(k, m)
      <2> HIDE DEF Next, T
      <2> QED BY <1>4
  <1>6. <<>> \in T OBVIOUS
  <1> HIDE DEF step, T
  <1>7. PICK f \in [0..N -> T] : Recurs(f, N, <<>>, step) BY <1>1, <1>5, <1>6, RecursionUpTo
  <1>8. \A k \in 0..N : f[k] = IF k = 0 THEN <<>> ELSE Next(k, f[k - 1])
      <2> SUFFICES ASSUME NEW k \in 0..N PROVE f[k] = IF k = 0 THEN <<>> ELSE Next(k, f[k - 1])
          OBVIOUS
      <2>1. k # 0 => k \in 1..N /\ k - 1 \in 0..N /\ f[k - 1] \in T BY <1>1
      <2> HIDE DEF Next
      <2> QED BY <1>5, <1>7, <2>1 DEF Recurs
  <1>9. f = Def(f) BY <1>8
  <1>10. media = Def(media)
      <2> HIDE DEF Def
      <2> QED BY <1>9
  <1> HIDE DEF media
  <1>11. \A k \in 0..N : media[k] = IF k = 0 THEN <<>> ELSE Next(k, media[k - 1]) BY <1>10
  <1> HIDE DEF Def
  <1> DEFINE S == {k \in 0..n : media[k] = <<>>}
  <1>12. 0 \in S
      <2>1. 0 \in 0..N /\ 0 \in 0..n BY <1>1, <1>3
      <2> QED BY <1>11, <2>1
  <1>13. ASSUME NEW k \in 0..n - 1, k \in S PROVE k + 1 \in S
      <2>1. k + 1 \in 0..N /\ k + 1 \in 1..n /\ k + 1 \in 0..n /\ k + 1 # 0 /\ (k + 1) - 1 = k
          BY <1>1, <1>3
      <2>2. Next(k + 1, media[k]) = media[k] BY <2>1
      <2>3. media[k + 1] = Next(k + 1, media[k]) BY <1>11, <2>1
      <2>4. media[k] = <<>> BY <1>13
      <2> QED BY <2>1, <2>2, <2>3, <2>4
  <1>14. n \in S
      <2>1. n \in Nat BY <1>1, <1>3
      <2> HIDE DEF S
      <2>2. \A k \in 0..n : k \in S BY <1>12, <1>13, <2>1, InductionUpTo
      <2> QED BY <2>1, <2>2
  <1> QED BY <1>2, <1>14

(* An init, where there is one, is a file type and playable moovs before    *)
(* the first fragment.                                                      *)
InitFirst(boxes) ==
  (\E i \in DOMAIN boxes : boxes[i].type = "moov") =>
    /\ boxes[1].type \in {"ftyp", "styp"}
    /\ \A i \in DOMAIN boxes :
         boxes[i].type = "moov" =>
           /\ {"trak", "mvex"} \subseteq boxes[i].kids
           /\ \A j \in DOMAIN boxes : boxes[j].type = "moof" => i < j

(* THEOREM: a prefix of any file that passes for a finished init has a      *)
(* whole moov in it, and the init split off any prefix with media is one    *)
(* (mp4/init_validate.go, atoms.go).                                        *)
THEOREM InitsAreWhole ==
  ASSUME NEW boxes, AreBoxes(boxes), InitFirst(boxes)
  PROVE  InitIsWhole(boxes)
  <1> DEFINE N == Len(boxes)
             O(i) == Offset(boxes, i)
             Whole(have) == WholeBoxes(boxes, have)
             Moovs(have) == {i \in Whole(have) : boxes[i].type = "moov"}
             playable == {i \in DOMAIN boxes :
                            boxes[i].type = "moov" /\ {"trak", "mvex"} \subseteq boxes[i].kids}
  <1>1. N \in Nat /\ DOMAIN boxes = 1..N BY DEF AreBoxes
  <1>2. /\ O(1) = 0 /\ \A i \in 1..N + 1 : O(i) \in Nat
        /\ \A i, j \in 1..N + 1 : i < j => O(i) < O(j)
        /\ \A i, j \in 1..N + 1 : i <= j => O(i) <= O(j)
      BY OffsetsIncrease
  <1>3. \A have : Whole(have) = {i \in 1..N : O(i + 1) <= have} BY <1>1 DEF WholeBoxes
  <1> HIDE DEF O, N, Whole
  <1>4. ASSUME NEW have, Moovs(have) # {} PROVE Max(Moovs(have)) \in Moovs(have)
      <2> DEFINE M == Moovs(have)
      <2>1. M \subseteq 0..N BY <1>1, <1>3
      <2> HIDE DEF M
      <2>2. M # {} BY <1>4 DEF M
      <2>3. Max(M) \in M BY <1>1, <2>1, <2>2, MaxIsGreatest
      <2> QED BY <2>3 DEF M
  <1>5. ASSUME NEW have, InitSegmentComplete(boxes, have)
        PROVE  playable \cap Whole(have) # {}
      <2>1. Moovs(have) # {} /\ {"trak", "mvex"} \subseteq boxes[Max(Moovs(have))].kids
          BY <1>5 DEF InitSegmentComplete, Whole
      <2>2. Max(Moovs(have)) \in Moovs(have) BY <1>4, <2>1
      <2>3. Max(Moovs(have)) \in Whole(have) /\ Max(Moovs(have)) \in playable
          BY <1>1, <1>3, <2>1, <2>2
      <2> QED BY <2>3
  <1>6. ASSUME NEW have \in 0..Bytes(boxes), playable # {}, SplitInitMedia(boxes, have).media > 0
        PROVE  InitSegmentComplete(boxes, SplitInitMedia(boxes, have).init)
      <2> DEFINE moofs == {i \in HeadersRead(boxes, have) : boxes[i].type = "moof"}
                 m == Min(moofs)
                 cut == SplitInitMedia(boxes, have).init
      <2>1. have \in Nat
          <3>1. Bytes(boxes) \in Nat BY <1>1, <1>2 DEF Bytes, O, N
          <3> QED BY <1>6, <3>1
      <2>2. moofs # {}
          <3> SUFFICES ASSUME moofs = {} PROVE FALSE OBVIOUS
          <3>1. SplitInitMedia(boxes, have).media = have - have BY DEF SplitInitMedia
          <3> QED BY <1>6, <2>1, <3>1
      <2>3. cut = O(m) BY <2>2 DEF SplitInitMedia, O
      <2>4. moofs \subseteq 1..N BY <1>1 DEF HeadersRead
      <2>5. m \in moofs
          <3> HIDE DEF moofs
          <3>1. moofs \subseteq Nat BY <1>1, <2>4
          <3> QED BY <2>2, <3>1, MinIsLeast
      <2>6. m \in 1..N /\ boxes[m].type = "moof" BY <2>4, <2>5
      <2>7. PICK v \in 1..N : boxes[v].type = "moov" BY <1>1, <1>6
      <2>8. /\ boxes[1].type \in {"ftyp", "styp"}
            /\ \A i \in 1..N : boxes[i].type = "moov" =>
                 {"trak", "mvex"} \subseteq boxes[i].kids /\ i < m
          BY <1>1, <2>6, <2>7 DEF InitFirst
      <2> HIDE DEF moofs, m, cut
      <2>9. \A i \in 1..N : i < m => i \in Whole(cut)
          <3> SUFFICES ASSUME NEW i \in 1..N, i < m PROVE i \in Whole(cut) OBVIOUS
          <3>1. i + 1 \in 1..N + 1 /\ m \in 1..N + 1 /\ i + 1 <= m BY <1>1, <2>6
          <3>2. O(i + 1) <= O(m) BY <1>2, <3>1
          <3> QED BY <1>3, <2>3, <3>2
      <2>10. v \in Whole(cut) /\ v \in Moovs(cut) BY <2>7, <2>8, <2>9
      <2>11. 1 \in Whole(cut)
          <3>1. 1 \in 1..N /\ 1 < m BY <1>1, <2>6, <2>7, <2>8
          <3> QED BY <2>9, <3>1
      <2>12. Max(Moovs(cut)) \in Moovs(cut) BY <1>4, <2>10
      <2>13. {"trak", "mvex"} \subseteq boxes[Max(Moovs(cut))].kids BY <1>3, <2>8, <2>12
      <2>14. EndsOnBox(boxes, cut)
          <3>1. m \in 1..(N + 1) BY <1>1, <2>6
          <3> QED BY <2>3, <3>1 DEF EndsOnBox, O, N
      <2>15. \E i \in Whole(cut) : boxes[i].type \in {"ftyp", "styp"} BY <2>8, <2>11
      <2>16. Moovs(cut) # {} BY <2>10
      <2>17. InitSegmentComplete(boxes, cut)
          BY <2>13, <2>14, <2>15, <2>16 DEF InitSegmentComplete, Whole
      <2> QED BY <2>17 DEF cut
  <1> HIDE DEF playable
  <1>7. \A have \in 0..Bytes(boxes) :
          /\ InitSegmentComplete(boxes, have) => playable \cap Whole(have) # {}
          /\ playable # {} /\ SplitInitMedia(boxes, have).media > 0
               => InitSegmentComplete(boxes, SplitInitMedia(boxes, have).init)
      BY <1>5, <1>6
  <1> QED BY <1>7 DEF InitIsWhole, playable, Whole

(* THEOREM: a prefix of any file that passes for a publishable segment has  *)
(* a whole moof, and less than a box header of anything that is not whole   *)
(* (mp4/hls_reader.go).                                                     *)
THEOREM SegmentsAreParseable ==
  ASSUME NEW boxes, AreBoxes(boxes)
  PROVE  SegmentIsParseable(boxes)
  <1> DEFINE N == Len(boxes)
             O(i) == Offset(boxes, i)
  <1>1. N \in Nat /\ DOMAIN boxes = 1..N BY DEF AreBoxes
  <1>2. /\ O(1) = 0 /\ \A i \in 1..N + 1 : O(i) \in Nat
        /\ \A i, j \in 1..N + 1 : i <= j => O(i) <= O(j)
      BY OffsetsIncrease
  <1> SUFFICES ASSUME NEW have \in 0..Bytes(boxes), PublishableHLSSegmentReaderAt(boxes, have)
               PROVE  \E i \in WholeBoxes(boxes, have) :
                        /\ boxes[i].type = "moof"
                        /\ have - Max({O(j + 1) : j \in WholeBoxes(boxes, have)}) < 8
      BY DEF SegmentIsParseable
  <1> DEFINE Whole == WholeBoxes(boxes, have)
             Ends  == {O(j + 1) : j \in Whole}
             above == {i \in 1..N + 1 : i \notin Whole}
  <1>3. Bytes(boxes) = O(N + 1) /\ O(N + 1) \in Nat BY <1>1, <1>2 DEF Bytes
  <1>4. have \in Nat /\ have <= O(N + 1) BY <1>3
  <1>5. /\ Whole = {i \in 1..N : O(i + 1) <= have}
        /\ HeadersRead(boxes, have) = {i \in 1..N : O(i) + 8 <= have}
      BY <1>1 DEF WholeBoxes, HeadersRead
  <1>6. HeadersRead(boxes, have) = Whole BY DEF PublishableHLSSegmentReaderAt
  <1>7. Tracks(MediaOf(boxes, Cardinality(Whole))) # {}
      BY DEF PublishableHLSSegmentReaderAt, PublishableHLSSegmentFragment, IsHLSSegmentFragment
  <1> HIDE DEF O, N, Whole
  <1>8. PICK u \in 1..N + 1 : Whole = 1..u - 1 /\ (u \notin Whole)
      <2>1. above \subseteq Nat /\ N + 1 \in above BY <1>1, <1>5
      <2>2. PICK u \in above : \A i \in above : u <= i
          <3> HIDE DEF above
          <3> QED BY <2>1, LeastNatural
      <2>3. ASSUME NEW i \in 1..u - 1 PROVE i \in Whole
          <3>1. i \in 1..N + 1 /\ ~(u <= i) BY <1>1
          <3> QED BY <2>2, <3>1
      <2>4. ASSUME NEW i \in Whole PROVE i \in 1..u - 1
          <3> SUFFICES ASSUME i >= u PROVE FALSE BY <1>1, <1>5
          <3>1. i \in 1..N /\ O(i + 1) <= have /\ u \in 1..N BY <1>1, <1>5
          <3>2. O(u + 1) <= O(i + 1) /\ O(u + 1) \in Nat /\ O(i + 1) \in Nat
              BY <1>1, <1>2, <3>1
          <3>3. O(u + 1) <= have BY <1>4, <3>1, <3>2
          <3> QED BY <1>5, <3>1, <3>3
      <2> QED BY <2>2, <2>3, <2>4
  <1>9. u - 1 \in 0..N /\ Cardinality(Whole) = u - 1
      <2>1. u - 1 \in 0..N /\ u - 1 \in Int /\ 1 \in Int BY <1>1
      <2>2. Cardinality(1..u - 1) = IF 1 > u - 1 THEN 0 ELSE (u - 1) - 1 + 1 BY <2>1, FS_Interval
      <2> QED BY <1>8, <2>1, <2>2
  <1>10. PICK f \in 1..u - 1 : boxes[f].type = "moof"
      <2> SUFFICES ASSUME \A i \in 1..u - 1 : boxes[i].type # "moof" PROVE FALSE OBVIOUS
      <2>1. MediaOf(boxes, u - 1) = <<>> BY <1>9, NoMoofNoMedia DEF N
      <2>2. Tracks(<<>>) = {} BY DEF Tracks, Timed
      <2> QED BY <1>7, <1>9, <2>1, <2>2
  <1>11. f \in Whole BY <1>8
  <1>12. u - 1 \in Whole /\ O(u) \in Ends
      <2>1. u - 1 \in 1..u - 1 BY <1>9
      <2>2. (u - 1) + 1 = u OBVIOUS
      <2>3. u - 1 \in Whole BY <1>8, <2>1
      <2> QED BY <2>2, <2>3
  <1>13. O(u) \in Nat /\ O(u) <= have
      <2>1. (u - 1) + 1 = u OBVIOUS
      <2> QED BY <1>2, <1>5, <1>12, <2>1
  <1>14. Max(Ends) \in Nat /\ Max(Ends) >= O(u)
      <2>1. Ends \subseteq 0..have
          <3> SUFFICES ASSUME NEW j \in Whole PROVE O(j + 1) \in 0..have OBVIOUS
          <3>1. j \in 1..N /\ O(j + 1) <= have /\ j + 1 \in 1..N + 1 BY <1>1, <1>5
          <3> QED BY <1>2, <1>4, <3>1
      <2> HIDE DEF Ends
      <2>2. Max(Ends) \in Ends /\ (\A n \in Ends : n <= Max(Ends))
          BY <1>4, <1>12, <2>1, MaxIsGreatest
      <2>3. Max(Ends) \in 0..have BY <2>1, <2>2
      <2>4. O(u) <= Max(Ends) BY <1>12, <2>2
      <2> QED BY <1>4, <1>13, <2>3, <2>4
  <1>15. have - O(u) < 8
      <2>1. CASE u = N + 1 BY <1>4, <1>13, <2>1
      <2>2. CASE u # N + 1
          <3>1. u \in 1..N BY <1>1, <2>2
          <3>2. u \notin HeadersRead(boxes, have) BY <1>6, <1>8
          <3>3. ~(O(u) + 8 <= have) BY <1>5, <3>1, <3>2
          <3> QED BY <1>4, <1>13, <3>3
      <2> QED BY <2>1, <2>2
  <1>16. have - Max(Ends) < 8
      <2> HIDE DEF Ends
      <2> QED BY <1>4, <1>13, <1>14, <1>15
  <1> QED BY <1>10, <1>11, <1>16 DEF Whole

-----------------------------------------------------------------------------
(* Fragments: what is published and what its validator says.               *)

LEMMA StartsFollow ==
  ASSUME NEW segs, NEW N \in Nat, N = Len(segs), DOMAIN segs = 1..N,
         \A i \in 1..N : segs[i].extinf \in Nat, NEW start \in Nat
  PROVE  /\ \A i \in 1..N : MediaStart(segs, i, start) \in Nat
         /\ \A i \in 1..N - 1 : MediaStart(segs, i + 1, start)
                                  = MediaStart(segs, i, start) + segs[i].extinf
  <1> DEFINE lengths == [j \in DOMAIN segs |-> segs[j].extinf]
  <1>1. lengths \in [1..N -> Nat] /\ \A i \in 1..N : lengths[i] = segs[i].extinf OBVIOUS
  <1>2. \A i : MediaStart(segs, i, start) = start + SumOfFirst(lengths, i - 1) BY DEF MediaStart
  <1> HIDE DEF lengths
  <1>3. Len(lengths) = N BY <1>1, LengthOfSeq
  <1>4. /\ \A n \in 1..N : SumOfFirst(lengths, n) = SumOfFirst(lengths, n - 1) + lengths[n]
        /\ \A n \in 0..N : SumOfFirst(lengths, n) \in Nat
      BY <1>1, <1>3, SumsRecur
  <1>5. ASSUME NEW i \in 1..N PROVE MediaStart(segs, i, start) \in Nat
      <2>1. i - 1 \in 0..N OBVIOUS
      <2> QED BY <1>2, <1>4, <2>1
  <1>6. ASSUME NEW i \in 1..N - 1
        PROVE  MediaStart(segs, i + 1, start) = MediaStart(segs, i, start) + segs[i].extinf
      <2>1. i \in 1..N /\ (i + 1) - 1 = i /\ i - 1 \in 0..N OBVIOUS
      <2>2. SumOfFirst(lengths, i - 1) \in Nat /\ segs[i].extinf \in Nat BY <1>4, <2>1
      <2>3. MediaStart(segs, i + 1, start) = start + SumOfFirst(lengths, i) BY <1>2, <2>1
      <2>4. SumOfFirst(lengths, i) = SumOfFirst(lengths, i - 1) + segs[i].extinf
          BY <1>1, <1>4, <2>1
      <2> QED BY <1>2, <2>2, <2>3, <2>4
  <1> QED BY <1>5, <1>6

(* Every track of the media has decode times and a timescale in the init.   *)
TracksAreKnown(media, scales) ==
  /\ Tracks(media) \subseteq Nat /\ media # <<>>
  /\ \A i \in DOMAIN media : media[i].track \in Tracks(media)
  /\ \A k \in Tracks(media) : k \in DOMAIN scales /\ scales[k] > 0

LEMMA ListedDuration ==
  ASSUME NEW media, IsMedia(media), NEW scales, AreScales(scales), TracksAreKnown(media, scales),
         NEW length \in Nat,
         \A k \in Tracks(media) : TrackTicks(media, k) = length * TimescaleForTrackID(k, scales)
  PROVE  /\ \A k \in Tracks(media) : TrackDuration(media, k, scales) = length * Resolution
         /\ FragmentDurationSec(media, scales) = length * Resolution
  <1> DEFINE d == length * Resolution
             tracks == {media[i].track : i \in DOMAIN media}
             S == TrackDurations(media, scales)
  <1>1. d \in Nat BY ScalesAssumption
  <1>2. ASSUME NEW k \in Tracks(media) PROVE TrackDuration(media, k, scales) = d
      <2> DEFINE T == TimescaleForTrackID(k, scales)
                 t == Resolution \div T
      <2>1. k \in DOMAIN scales /\ scales[k] > 0 BY DEF TracksAreKnown
      <2>2. T = scales[k] BY <2>1 DEF TimescaleForTrackID
      <2>3. TrackDuration(media, k, scales) = Sec(length * T, T)
          BY <2>1, <2>2 DEF TrackDuration
      <2>4. T \in Nat \ {0} /\ t \in Nat \ {0} /\ T * t = Resolution BY ScaleDivides
      <2>5. (length * T) * t = length * (T * t)
          <3> HIDE DEF T, t
          <3> QED BY <2>4
      <2> QED BY <2>3, <2>4, <2>5 DEF Sec
  <1>3. tracks = Tracks(media)
      <2>1. tracks \subseteq Tracks(media) BY DEF TracksAreKnown
      <2>2. Tracks(media) \subseteq tracks BY DEF Tracks, Timed
      <2> QED BY <2>1, <2>2
  <1>4. \E k : k \in Tracks(media)
      <2>1. Len(media) \in Nat /\ DOMAIN media = 1..Len(media) BY MediaShape
      <2>2. media # <<>> /\ \A i \in DOMAIN media : media[i].track \in Tracks(media)
          BY DEF TracksAreKnown
      <2>3. Len(media) # 0 BY <2>2 DEF IsMedia
      <2>4. 1 \in DOMAIN media BY <2>1, <2>3
      <2> QED BY <2>2, <2>4
  <1>5. S = {TrackDuration(media, k, scales) : k \in tracks} \ {0} BY DEF TrackDurations
  <1> HIDE DEF d, S, tracks
  <1>6. S = {d} \ {0} BY <1>2, <1>3, <1>4, <1>5
  <1>7. S \cup {0} = {d, 0} BY <1>6
  <1>8. Max({d, 0}) = d
      <2>1. d \in Int /\ 0 \in Int /\ d >= 0 BY <1>1
      <2> QED BY <2>1, GreaterOf
  <1>9. FragmentDurationSec(media, scales) = Max(S \cup {0}) BY DEF FragmentDurationSec, S
  <1> QED BY <1>2, <1>7, <1>8, <1>9 DEF d

LEMMA NotOff ==
  ASSUME NEW a \in Int
  PROVE  ~Off(a, a)
  BY ScalesAssumption DEF Off, Magnitude

(* What the validator of one segment accepts.                               *)
LEMMA TimelineAccepted ==
  ASSUME NEW media, NEW start \in Int, NEW length \in Int, NEW scales,
         Readable(media), Tracks(media) # {}, ValidateMonotonicTFDT(media),
         FragmentMediaStarts(media, scales) = {start}
  PROVE  ValidateSegmentTimeline(media, MinBytes, start, length, length, scales) = {}
  <1> DEFINE dur == IF length > 0 THEN length ELSE FragmentDurationSec(media, <<>>)
             Said(c) == CASE c = "min_size" -> ~IsHLSSegmentFragment(media, MinBytes)
                          [] c = "tfdt_start" ->
                               \/ ~Readable(media) \/ Tracks(media) = {}
                               \/ \E s \in FragmentMediaStarts(media, scales) : Off(s, start)
                          [] c = "duration_match" -> dur > 0 /\ length > 0 /\ Off(dur, length)
                          [] OTHER -> ~ValidateMonotonicTFDT(media)
             Checks == {"min_size", "tfdt_start", "duration_match", "monotonic"}
  <1>1. ValidateSegmentTimeline(media, MinBytes, start, length, length, scales)
          = {c \in Checks : Said(c)}
      BY DEF ValidateSegmentTimeline
  <1>2. ~Off(start, start) /\ ~Off(length, length) BY NotOff
  <1>3. IsHLSSegmentFragment(media, MinBytes)
      <2>1. MinBytes \in Nat BY ScalesAssumption
      <2>2. MinBytes >= MinBytes BY <2>1
      <2> QED BY <2>2 DEF IsHLSSegmentFragment
  <1>4. ~Said("min_size") BY <1>3
  <1>5. ~Said("tfdt_start") BY <1>2
  <1>6. ~Said("duration_match")
      <2>1. length > 0 => dur = length OBVIOUS
      <2> HIDE DEF dur
      <2> QED BY <1>2, <2>1
  <1>7. ~Said("monotonic") OBVIOUS
  <1> HIDE DEF Said
  <1> QED BY <1>1, <1>4, <1>5, <1>6, <1>7

(* Segments as a muxer makes them from one input: the same known tracks in  *)
(* each, the video being track 1, and video times in order.                 *)
AreCut(segs, scales) ==
  /\ Len(segs) \in Nat /\ DOMAIN segs = 1..Len(segs)
  /\ \A i \in DOMAIN segs :
       /\ segs[i].extinf \in Nat
       /\ IsMedia(segs[i].media) /\ TracksAreKnown(segs[i].media, scales)
       /\ 1 \in Tracks(segs[i].media) /\ Tracks(segs[i].media) = Tracks(segs[1].media)
       /\ ValidateMonotonicTFDT(segs[i].media)

(* One segment as it is published, when its durations are as listed.        *)
Published(media, out, start, length, scales) ==
  /\ FragmentMediaStarts(out, scales) = {start * Resolution}
  /\ FragmentDurationSec(out, scales) = length * Resolution
  /\ \A k \in Tracks(media) : TrackDuration(out, k, scales) = length * Resolution
  /\ Readable(out) /\ Tracks(out) = Tracks(media) /\ ValidateMonotonicTFDT(out)

LEMMA SegmentIsPublished ==
  ASSUME NEW media, IsMedia(media), NEW scales, AreScales(scales), TracksAreKnown(media, scales),
         1 \in Tracks(media), ValidateMonotonicTFDT(media), NEW start \in Nat, NEW length \in Nat,
         AlignFragmentToMediaStart(media, start, scales).ok,
         \A k \in Tracks(media) : TrackTicks(media, k) = length * TimescaleForTrackID(k, scales)
  PROVE  Published(media, AlignFragmentToMediaStart(media, start, scales).media,
                   start, length, scales)
  <1> DEFINE out == AlignFragmentToMediaStart(media, start, scales).media
             T == TimescaleForTrackID(1, scales)
             delta == AlignmentDelta(media, start, scales)
  <1>1. PrimaryTrack(media) = 1 BY DEF PrimaryTrack
  <1>2. Tracks(media) \subseteq Nat BY DEF TracksAreKnown
  <1>3. Moved(media, out, delta) /\ FirstTFDT(out, 1) = start * T
      BY <1>1, <1>2, AlignedTracks
  <1>4. delta \in [Tracks(media) -> Int] BY <1>2, DeltaOfTrack
  <1> HIDE DEF out, delta
  <1>5. /\ IsMedia(out) /\ DOMAIN out = DOMAIN media /\ Timed(out) = Timed(media)
        /\ Tracks(out) = Tracks(media) /\ Readable(out)
        /\ \A i \in DOMAIN media : out[i].track = media[i].track
             /\ out[i].version = media[i].version /\ out[i].dur = media[i].dur
        /\ \A i \in Timed(media) : out[i].ticks = media[i].ticks + delta[media[i].track]
      BY <1>3 DEF Moved
  <1>6. FragmentMediaStarts(out, scales) = {start * Resolution}
      <2>1. FragmentMediaStarts(out, scales) = {Sec(FirstTFDT(out, 1), T)}
          BY <1>5 DEF FragmentMediaStarts
      <2>2. T \in Nat \ {0} /\ Resolution \div T \in Nat \ {0} /\ T * (Resolution \div T) = Resolution
          BY ScaleDivides
      <2> DEFINE t == Resolution \div T
      <2>3. (start * T) * t = start * (T * t)
          <3> HIDE DEF T, t
          <3>1. T \in Nat /\ t \in Nat BY <2>2 DEF t
          <3> QED BY <3>1
      <2> QED BY <1>3, <2>1, <2>2, <2>3 DEF Sec
  <1>7. \A k : TrackTicks(out, k) = TrackTicks(media, k)
      <2> SUFFICES ASSUME NEW k PROVE TrackTicks(out, k) = TrackTicks(media, k) OBVIOUS
      <2>1. Len(out) = Len(media)
          <3>1. /\ Len(media) \in Nat /\ DOMAIN media = 1..Len(media)
                /\ Len(out) \in Nat /\ DOMAIN out = 1..Len(out) BY <1>5, MediaShape
          <3>2. 1..Len(out) = 1..Len(media) BY <1>5, <3>1
          <3> DEFINE a == Len(out)
                     b == Len(media)
          <3>3. a \in Nat /\ b \in Nat /\ 1..a = 1..b BY <3>1, <3>2
          <3> HIDE DEF a, b
          <3>4. (a > b => a \in 1..a /\ a \notin 1..b) /\ (b > a => b \in 1..b /\ b \notin 1..a)
              BY <3>3
          <3>5. a = b BY <3>3, <3>4
          <3> QED BY <3>5 DEF a, b
      <2>2. [i \in DOMAIN out |-> IF out[i].track = k THEN out[i].dur ELSE 0]
              = [i \in DOMAIN media |-> IF media[i].track = k THEN media[i].dur ELSE 0]
          BY <1>5
      <2> QED BY <2>1, <2>2 DEF TrackTicks
  <1>8. TracksAreKnown(out, scales)
      <2>1. out # <<>>
          <3>1. DOMAIN media # {}
              <4>1. \E i \in Timed(media) : media[i].track = 1 BY DEF Tracks
              <4> QED BY <4>1 DEF Timed
          <3>2. DOMAIN <<>> = {} OBVIOUS
          <3> QED BY <1>5, <3>1, <3>2
      <2> QED BY <1>5, <2>1 DEF TracksAreKnown
  <1>9. /\ \A k \in Tracks(media) : TrackDuration(out, k, scales) = length * Resolution
        /\ FragmentDurationSec(out, scales) = length * Resolution
      BY <1>5, <1>7, <1>8, ListedDuration
  <1>10. ValidateMonotonicTFDT(out)
      <2> DEFINE video == {i \in Timed(media) : media[i].track = 1}
      <2>1. video = {i \in Timed(out) : out[i].track = 1} BY <1>5 DEF Timed
      <2>2. \A i \in video : media[i].version \in {0, 1} /\ out[i].version = media[i].version
          BY <1>5 DEF ValidateMonotonicTFDT, Timed
      <2>3. ASSUME NEW i \in video, NEW j \in video, i < j PROVE out[i].ticks <= out[j].ticks
          <3>1. media[i].ticks <= media[j].ticks BY <2>3 DEF ValidateMonotonicTFDT
          <3>2. media[i].ticks \in Int /\ media[j].ticks \in Int BY MediaShape DEF Timed
          <3>3. delta[1] \in Int BY <1>4
          <3>4. out[i].ticks = media[i].ticks + delta[1] /\ out[j].ticks = media[j].ticks + delta[1]
              BY <1>5
          <3> QED BY <3>1, <3>2, <3>3, <3>4
      <2> HIDE DEF video
      <2> QED BY <2>1, <2>2, <2>3 DEF ValidateMonotonicTFDT
  <1> QED BY <1>5, <1>6, <1>9, <1>10 DEF Published, out

(* Where each segment was cut back to back with the listed durations, the   *)
(* shift that brings a track to media time is the same for all of them.     *)
LEMMA OneShift ==
  ASSUME NEW segs, NEW scales, AreScales(scales), AreCut(segs, scales), NEW start \in Nat,
         NEW N, N = Len(segs),
         \A i \in 1..N : \A k \in Tracks(segs[i].media) :
           i > 1 => FirstTFDT(segs[i].media, k)
                      = FirstTFDT(segs[i - 1].media, k) + TrackTicks(segs[i - 1].media, k),
         \A i \in 1..N : \A k \in Tracks(segs[i].media) :
           TrackTicks(segs[i].media, k) = segs[i].extinf * TimescaleForTrackID(k, scales),
         NEW k \in Tracks(segs[1].media)
  PROVE  LET F(i, j) == FirstTFDT(segs[i].media, j)
             T(j) == TimescaleForTrackID(j, scales)
             Shift(i) == MediaStart(segs, i, start) * T(1) - F(i, 1)
         IN  /\ \A i \in 1..N - 1 : F(i + 1, k) = F(i, k) + segs[i].extinf * T(k)
             /\ \A i \in 1..N : Shift(i) = Shift(1) /\ F(i, k) >= F(1, k)
  <1> DEFINE F(i, j) == FirstTFDT(segs[i].media, j)
             T(j) == TimescaleForTrackID(j, scales)
             M(i) == MediaStart(segs, i, start)
             Shift(i) == M(i) * T(1) - F(i, 1)
  <1>1. /\ N \in Nat /\ DOMAIN segs = 1..N
        /\ \A i \in 1..N : /\ segs[i].extinf \in Nat /\ IsMedia(segs[i].media)
                           /\ 1 \in Tracks(segs[i].media)
                           /\ Tracks(segs[i].media) = Tracks(segs[1].media)
      BY DEF AreCut
  <1>2. \A j : T(j) \in Nat BY ScaleDivides
  <1>3. /\ \A i \in 1..N : M(i) \in Nat
        /\ \A i \in 1..N - 1 : M(i + 1) = M(i) + segs[i].extinf
      BY <1>1, StartsFollow
  <1>4. \A i \in 1..N, j \in Tracks(segs[1].media) : F(i, j) \in Nat BY <1>1, TrackFirsts
  <1>5. ASSUME NEW i \in 1..N - 1, NEW j \in Tracks(segs[1].media)
        PROVE  F(i + 1, j) = F(i, j) + segs[i].extinf * T(j)
      <2>1. i \in 1..N /\ i + 1 \in 1..N /\ i + 1 > 1 /\ (i + 1) - 1 = i BY <1>1
      <2>2. j \in Tracks(segs[i].media) /\ j \in Tracks(segs[i + 1].media) BY <1>1, <2>1
      <2>3. TrackTicks(segs[i].media, j) = segs[i].extinf * T(j) BY <2>1, <2>2
      <2>4. F(i + 1, j) = F((i + 1) - 1, j) + TrackTicks(segs[(i + 1) - 1].media, j)
          BY <2>1, <2>2
      <2> HIDE DEF F, T
      <2> QED BY <2>1, <2>3, <2>4
  <1>6. ASSUME NEW i \in 1..N - 1 PROVE Shift(i + 1) = Shift(i) /\ F(i + 1, k) >= F(i, k)
      <2>1. i \in 1..N /\ i + 1 \in 1..N /\ 1 \in 1..N BY <1>1
      <2>2. 1 \in Tracks(segs[1].media) BY <1>1, <2>1
      <2>3. /\ F(i + 1, 1) = F(i, 1) + segs[i].extinf * T(1)
            /\ F(i + 1, k) = F(i, k) + segs[i].extinf * T(k) BY <1>5, <2>2
      <2>4. M(i + 1) = M(i) + segs[i].extinf BY <1>3
      <2>5. /\ segs[i].extinf \in Nat /\ M(i) \in Nat /\ F(i, 1) \in Nat /\ F(i, k) \in Nat
            /\ T(1) \in Nat /\ T(k) \in Nat
          BY <1>1, <1>2, <1>3, <1>4, <2>1, <2>2
      <2> HIDE DEF F, T, M
      <2>6. (M(i) + segs[i].extinf) * T(1) = M(i) * T(1) + segs[i].extinf * T(1) BY <2>5
      <2>7. segs[i].extinf * T(k) \in Nat /\ segs[i].extinf * T(1) \in Nat /\ M(i) * T(1) \in Nat
          <3>1. \A x, y \in Nat : x * y \in Nat OBVIOUS
          <3> QED BY <2>5, <3>1
      <2>8. Shift(i + 1) = (M(i) * T(1) + segs[i].extinf * T(1))
                             - (F(i, 1) + segs[i].extinf * T(1)) BY <2>3, <2>4, <2>6
      <2>9. \A x, y, e \in Int : (x + e) - (y + e) = x - y OBVIOUS
      <2> DEFINE reached == M(i) * T(1)
                 spoken  == segs[i].extinf * T(1)
                 more    == segs[i].extinf * T(k)
                 before  == F(i, 1)
      <2>10. Shift(i + 1) = M(i) * T(1) - F(i, 1)
          <3>1. Shift(i + 1) = (reached + spoken) - (before + spoken) BY <2>8
          <3>2. reached \in Int /\ spoken \in Int /\ before \in Int BY <2>5, <2>7
          <3> HIDE DEF reached, spoken, before
          <3>3. Shift(i + 1) = reached - before BY <2>9, <3>1, <3>2
          <3> QED BY <3>3 DEF reached, before
      <2>11. F(i + 1, k) >= F(i, k)
          <3>1. F(i + 1, k) = F(i, k) + more /\ more \in Nat /\ F(i, k) \in Nat BY <2>3, <2>5, <2>7
          <3> HIDE DEF more
          <3> QED BY <3>1
      <2> QED BY <2>10, <2>11
  <1> DEFINE S == {n \in 0..N : n + 1 \in 1..N => Shift(n + 1) = Shift(1) /\ F(n + 1, k) >= F(1, k)}
  <1>7. 0 \in S
      <2>1. 0 + 1 = 1 OBVIOUS
      <2>2. 1 \in 1..N => F(1, k) \in Nat BY <1>4
      <2> HIDE DEF Shift, F
      <2> QED BY <1>1, <2>1, <2>2
  <1>8. ASSUME NEW n \in 0..N - 1, n \in S PROVE n + 1 \in S
      <2> SUFFICES ASSUME (n + 1) + 1 \in 1..N
                   PROVE  Shift((n + 1) + 1) = Shift(1) /\ F((n + 1) + 1, k) >= F(1, k)
          BY <1>1
      <2>1. n + 1 \in 1..N - 1 /\ n + 1 \in 1..N /\ 1 \in 1..N BY <1>1
      <2>2. Shift(n + 1) = Shift(1) /\ F(n + 1, k) >= F(1, k) BY <1>8, <2>1
      <2>3. Shift((n + 1) + 1) = Shift(n + 1) /\ F((n + 1) + 1, k) >= F(n + 1, k) BY <1>6, <2>1
      <2>4. F(n + 1, k) \in Nat /\ F(1, k) \in Nat /\ F((n + 1) + 1, k) \in Nat BY <1>4, <2>1
      <2> HIDE DEF Shift, F
      <2> QED BY <2>2, <2>3, <2>4
  <1>9. ASSUME NEW i \in 1..N PROVE Shift(i) = Shift(1) /\ F(i, k) >= F(1, k)
      <2>1. \A n \in 0..N : n \in S
          <3> HIDE DEF S
          <3> QED BY <1>1, <1>7, <1>8, InductionUpTo
      <2>2. i - 1 \in 0..N /\ (i - 1) + 1 = i BY <1>1
      <2>3. i - 1 \in S BY <2>1, <2>2
      <2> HIDE DEF Shift, F
      <2> QED BY <2>2, <2>3
  <1> QED BY <1>5, <1>9

(* THEOREM: segments cut back to back with the listed durations, any number *)
(* of them with any tracks, are published so that the validator has nothing *)
(* to say of them, unless a track was held at zero                          *)
(* (ops/hls_continuous_align.go, continuous_validate.go).                   *)
THEOREM PublishedSegmentsValidate ==
  ASSUME NEW segs, NEW scales, AreScales(scales), AreCut(segs, scales), NEW start \in Nat,
         NEW transcode, NEW hasAudio
  PROVE  PublishedValidates(segs, start, transcode, hasAudio, scales)
  <1> DEFINE N == Len(segs)
             out == PublishAligned(segs, start, scales)
             after == [i \in DOMAIN segs |-> [media |-> out[i].media, extinf |-> segs[i].extinf]]
             end(i, k) == FirstTFDT(segs[i].media, k) + TrackTicks(segs[i].media, k)
             backToBack == \A i \in DOMAIN segs : \A k \in Tracks(segs[i].media) :
                             i > 1 => FirstTFDT(segs[i].media, k) = end(i - 1, k)
             asListed == \A i \in DOMAIN segs : \A k \in Tracks(segs[i].media) :
                           TrackTicks(segs[i].media, k)
                             = segs[i].extinf * TimescaleForTrackID(k, scales)
             held == \E k \in Tracks(segs[1].media) :
                       /\ FirstTFDT(out[1].media, k) = 0
                       /\ Lag(segs[1].media, k, scales) < -start * Resolution
             at(i)  == CHOOSE s \in FragmentMediaStarts(after[i].media, scales) : TRUE
             dur(i) == IF FragmentDurationSec(after[i].media, scales) > 0
                         THEN FragmentDurationSec(after[i].media, scales)
                         ELSE after[i].extinf * Resolution
             timeline(i) ==
               ValidateSegmentTimeline(after[i].media, MinBytes,
                                       MediaStart(after, i, start) * Resolution,
                                       after[i].extinf * Resolution, dur(i), scales)
                 \ (IF transcode /\ after[i].extinf > 0 THEN {"duration_match"} ELSE {})
             joins(i) ==
               IF i = 1 THEN {}
               ELSE ValidateContinuity(at(i - 1), dur(i - 1), at(i)) \cup
                    (IF hasAudio THEN ValidateContinuityBetweenTracks(after[i - 1].media,
                                                                      after[i].media, 2, scales)
                                 ELSE {})
  <1> SUFFICES ASSUME \A i \in DOMAIN segs : out[i].ok, backToBack, asListed, ~held
               PROVE  UNION {timeline(i) \cup joins(i) : i \in DOMAIN after} = {}
      BY DEF PublishedValidates, ValidateContinuousHLSOutput
  <1> DEFINE M(i) == segs[i].media
             O(i) == out[i].media
             S(i) == MediaStart(segs, i, start)
             L(i) == segs[i].extinf
             T(j) == TimescaleForTrackID(j, scales)
             F(i, j) == FirstTFDT(M(i), j)
             G(i, j) == FirstTFDT(O(i), j)
             Shift(i) == S(i) * T(1) - F(i, 1)
  <1>1. /\ N \in Nat /\ DOMAIN segs = 1..N
        /\ \A i \in 1..N : /\ L(i) \in Nat /\ IsMedia(M(i)) /\ TracksAreKnown(M(i), scales)
                           /\ 1 \in Tracks(M(i)) /\ Tracks(M(i)) = Tracks(M(1))
                           /\ ValidateMonotonicTFDT(M(i)) /\ Tracks(M(i)) \subseteq Nat
                           /\ PrimaryTrack(M(i)) = 1
      BY DEF AreCut, TracksAreKnown, PrimaryTrack
  <1>2. \A i \in 1..N : /\ S(i) \in Nat
                        /\ i \in 1..N - 1 => S(i + 1) = S(i) + L(i)
      BY <1>1, StartsFollow
  <1>3. \A i \in 1..N : /\ out[i] = AlignFragmentToMediaStart(M(i), S(i), scales)
                        /\ AlignFragmentToMediaStart(M(i), S(i), scales).ok
      BY <1>1 DEF PublishAligned
  <1>4. ASSUME NEW i \in 1..N PROVE Published(M(i), O(i), S(i), L(i), scales)
      <2>1. \A k \in Tracks(M(i)) : TrackTicks(M(i), k) = L(i) * TimescaleForTrackID(k, scales)
          BY <1>1
      <2>2. O(i) = AlignFragmentToMediaStart(M(i), S(i), scales).media BY <1>3
      <2> HIDE DEF M, S, L, out
      <2> QED BY <1>1, <1>2, <1>3, <2>1, <2>2, SegmentIsPublished
  <1>5. /\ DOMAIN after = 1..N
        /\ \A i \in 1..N : after[i].media = O(i) /\ after[i].extinf = L(i)
      BY <1>1
  <1>6. \A i \in 1..N : MediaStart(after, i, start) = S(i)
      <2>1. [j \in DOMAIN after |-> after[j].extinf] = [j \in DOMAIN segs |-> segs[j].extinf]
          BY <1>1, <1>5
      <2> QED BY <2>1 DEF MediaStart
  <1>7. ASSUME NEW k \in Tracks(M(1))
        PROVE  /\ \A i \in 1..N - 1 : F(i + 1, k) = F(i, k) + L(i) * T(k)
               /\ \A i \in 1..N : Shift(i) = Shift(1) /\ F(i, k) >= F(1, k)
      <2>1. \A i \in 1..N : \A j \in Tracks(segs[i].media) :
              i > 1 => FirstTFDT(segs[i].media, j)
                         = FirstTFDT(segs[i - 1].media, j) + TrackTicks(segs[i - 1].media, j)
          BY <1>1
      <2>2. \A i \in 1..N : \A j \in Tracks(segs[i].media) :
              TrackTicks(segs[i].media, j) = segs[i].extinf * TimescaleForTrackID(j, scales)
          BY <1>1
      <2> HIDE DEF backToBack, asListed, held, out, after
      <2> QED BY <2>1, <2>2, OneShift
  <1> HIDE DEF after, out, backToBack, asListed
  (* No track is held, so all segments are moved by the same ticks.         *)
  <1>8. ASSUME NEW k \in Tracks(M(1)), NEW i \in 1..N - 1
        PROVE  G(i + 1, k) = G(i, k) + L(i) * T(k)
      <2> DEFINE r(n) == Round(Shift(n) * T(k), T(1))
      <2>1. ASSUME NEW n \in 1..N
            PROVE  /\ F(n, k) \in Nat /\ r(n) \in Int
                   /\ \/ G(n, k) = F(n, k) + r(n) /\ r(n) >= -F(n, k)
                      \/ /\ G(n, k) = 0 /\ r(n) < -F(n, k)
                         /\ Lag(M(n), k, scales) < -S(n) * Resolution
          <3>1. k \in Tracks(M(n)) BY <1>1
          <3>2. O(n) = AlignFragmentToMediaStart(M(n), S(n), scales).media BY <1>3
          <3>3. F(n, k) \in Nat BY <1>1, <3>1, TrackFirsts
          <3>4. r(n) \in Int
              <4> HIDE DEF M, S, O
              <4> QED BY <1>1, <1>2, <3>1, DeltaOfTrack
          <3> HIDE DEF M, S, O
          <3>5. \/ G(n, k) = F(n, k) + r(n) /\ r(n) >= -F(n, k)
                \/ /\ G(n, k) = 0 /\ r(n) < -F(n, k)
                   /\ Lag(M(n), k, scales) < -S(n) * Resolution
              <4>1. /\ IsMedia(M(n)) /\ Tracks(M(n)) \subseteq Nat /\ AreScales(scales) /\ S(n) \in Nat
                    /\ AlignFragmentToMediaStart(M(n), S(n), scales).ok /\ PrimaryTrack(M(n)) = 1
                  BY <1>1, <1>2, <1>3
              <4> QED BY <3>1, <3>2, <4>1, LagIsKept
          <3> QED BY <3>3, <3>4, <3>5
      <2>2. 1 \in 1..N /\ i \in 1..N /\ i + 1 \in 1..N BY <1>1
      <2>3. r(1) >= -F(1, k)
          <3>1. S(1) = start
              <4>1. DOMAIN [j \in DOMAIN segs |-> segs[j].extinf] = 1..N BY <1>1
              <4> DEFINE lengths == [j \in DOMAIN segs |-> segs[j].extinf]
              <4>2. lengths \in [1..N -> Nat] BY <1>1
              <4>3. S(1) = start + SumOfFirst(lengths, 0)
                  <5>1. 1 - 1 = 0 OBVIOUS
                  <5> QED BY <5>1 DEF MediaStart
              <4> HIDE DEF lengths, N
              <4>4. SumOfFirst(lengths, 0) = 0
                  <5>1. N \in Nat BY <1>1
                  <5>2. Len(lengths) = N BY <4>2, <5>1, LengthOfSeq
                  <5> QED BY <4>2, <5>1, <5>2, SumsRecur
              <4> HIDE DEF S
              <4> QED BY <4>3, <4>4
          <3>2. CASE G(1, k) = 0 /\ Lag(M(1), k, scales) < -S(1) * Resolution
              BY <3>1, <3>2
          <3> HIDE DEF r, F, G, S, M
          <3> QED BY <2>1, <2>2, <3>2
      <2>4. \A n \in 1..N : r(n) = r(1) BY <1>7
      <2>5. \A n \in 1..N : F(n, k) >= F(1, k) BY <1>7
      <2>6. F(i + 1, k) = F(i, k) + L(i) * T(k) BY <1>7
      <2>7. T(k) \in Nat /\ L(i) \in Nat BY <1>1, <2>2, ScaleDivides
      <2> HIDE DEF r, F, G, S, M, O, L, T, held
      <2>8. \A n \in 1..N : G(n, k) = F(n, k) + r(1)
          <3> SUFFICES ASSUME NEW n \in 1..N PROVE G(n, k) = F(n, k) + r(1) OBVIOUS
          <3>1. r(n) = r(1) /\ F(n, k) >= F(1, k) /\ F(1, k) \in Nat /\ F(n, k) \in Nat
                /\ r(1) \in Int BY <2>1, <2>2, <2>4, <2>5
          <3>2. ~(r(n) < -F(n, k)) BY <2>3, <3>1
          <3> QED BY <2>1, <3>1, <3>2
      <2>9. L(i) * T(k) \in Nat BY <2>7
      <2>10. F(i, k) \in Nat /\ r(1) \in Int BY <2>1, <2>2
      <2> QED BY <2>2, <2>6, <2>8, <2>9, <2>10
  <1>9. ASSUME NEW i \in 1..N
        PROVE  /\ at(i) = S(i) * Resolution /\ dur(i) = L(i) * Resolution
               /\ S(i) * Resolution \in Nat /\ L(i) * Resolution \in Nat
      <2>1. Published(M(i), O(i), S(i), L(i), scales) BY <1>4
      <2>2. /\ S(i) \in Nat /\ L(i) \in Nat BY <1>1, <1>2
      <2>3. after[i].media = O(i) /\ after[i].extinf = L(i) BY <1>5
      <2> HIDE DEF M, O, S, L
      <2>4. S(i) * Resolution \in Nat /\ L(i) * Resolution \in Nat BY <2>2, ScalesAssumption
      <2>5. FragmentMediaStarts(after[i].media, scales) = {S(i) * Resolution}
          BY <2>1, <2>3 DEF Published
      <2>6. at(i) \in {S(i) * Resolution} BY <2>5
      <2>7. FragmentDurationSec(after[i].media, scales) = L(i) * Resolution
          BY <2>1, <2>3 DEF Published
      <2>8. dur(i) = L(i) * Resolution BY <2>3, <2>7
      <2> QED BY <2>4, <2>6, <2>8
  <1> HIDE DEF at, dur
  <1>10. ASSUME NEW i \in 1..N PROVE timeline(i) = {}
      <2>1. Published(M(i), O(i), S(i), L(i), scales) BY <1>4
      <2>2. after[i].media = O(i) /\ after[i].extinf = L(i) /\ MediaStart(after, i, start) = S(i)
            /\ 1 \in Tracks(M(i)) BY <1>1, <1>5, <1>6
      <2> HIDE DEF M, O, S, L
      <2>3. S(i) * Resolution \in Int /\ L(i) * Resolution \in Int BY <1>9
      <2>4. ValidateSegmentTimeline(O(i), MinBytes, S(i) * Resolution, L(i) * Resolution,
                                    L(i) * Resolution, scales) = {}
          <3>1. /\ Readable(O(i)) /\ Tracks(O(i)) # {} /\ ValidateMonotonicTFDT(O(i))
                /\ FragmentMediaStarts(O(i), scales) = {S(i) * Resolution}
              BY <2>1, <2>2 DEF Published
          <3> QED BY <2>3, <3>1, TimelineAccepted
      <2> QED BY <1>9, <2>2, <2>4
  <1>11. ASSUME NEW i \in 1..N PROVE joins(i) = {}
      <2> SUFFICES ASSUME i # 1 PROVE joins(i) = {} OBVIOUS
      <2> DEFINE h == i - 1
      <2>1. h \in 1..N /\ h \in 1..N - 1 /\ h + 1 = i BY <1>1
      <2> HIDE DEF h
      <2>2. S(i) = S(h) + L(h) BY <1>2, <2>1
      <2>3. S(h) \in Nat /\ L(h) \in Nat BY <1>1, <1>2, <2>1
      <2>4. ValidateContinuity(at(h), dur(h), at(i)) = {}
          <3>1. at(h) = S(h) * Resolution /\ dur(h) = L(h) * Resolution
                /\ at(i) = S(i) * Resolution /\ S(i) * Resolution \in Nat BY <1>9, <2>1
          <3> HIDE DEF S, L
          <3>2. (S(h) + L(h)) * Resolution = S(h) * Resolution + L(h) * Resolution
              BY <2>3, ScalesAssumption
          <3>3. at(h) + dur(h) = at(i) /\ at(i) \in Int BY <2>2, <3>1, <3>2
          <3> QED BY <3>3, NotOff DEF ValidateContinuity
      <2>5. ValidateContinuityBetweenTracks(after[h].media, after[i].media, 2, scales) = {}
          <3>1. after[h].media = O(h) /\ after[i].media = O(i) BY <1>5, <2>1
          <3>2. CASE 2 \notin Tracks(O(h)) \cap Tracks(O(i))
              BY <3>1, <3>2 DEF ValidateContinuityBetweenTracks
          <3>3. CASE 2 \in Tracks(O(h)) \cap Tracks(O(i))
              <4> DEFINE t == Resolution \div T(2)
                         a == Sec(G(h, 2), T(2))
                         b == Sec(G(i, 2), T(2))
                         d == TrackDuration(O(h), 2, scales)
              <4>1. ValidateContinuityBetweenTracks(O(h), O(i), 2, scales)
                      = ValidateContinuity(a, d, b)
                  BY <3>3 DEF ValidateContinuityBetweenTracks
              <4>2. Published(M(h), O(h), S(h), L(h), scales) BY <1>4, <2>1
              <4>3. 2 \in Tracks(M(h)) /\ 2 \in Tracks(M(1))
                  <5>1. Tracks(O(h)) = Tracks(M(h)) BY <4>2 DEF Published
                  <5>2. Tracks(M(h)) = Tracks(M(1)) BY <1>1, <2>1
                  <5> QED BY <3>3, <5>1, <5>2
              <4>4. d = L(h) * Resolution BY <4>2, <4>3 DEF Published
              <4>5. G(i, 2) = G(h, 2) + L(h) * T(2) BY <1>8, <2>1, <4>3
              <4>6. a = G(h, 2) * t /\ b = G(i, 2) * t BY DEF Sec
              <4>7. T(2) \in Nat \ {0} /\ t \in Nat \ {0} /\ T(2) * t = Resolution BY ScaleDivides
              <4>8. G(h, 2) \in Nat
                  <5>1. O(h) = AlignFragmentToMediaStart(M(h), S(h), scales).media BY <1>3, <2>1
                  <5>2. /\ IsMedia(M(h)) /\ Tracks(M(h)) \subseteq Nat /\ Tracks(M(h)) # {}
                        /\ S(h) \in Nat /\ AlignFragmentToMediaStart(M(h), S(h), scales).ok
                      BY <1>1, <1>2, <1>3, <2>1
                  <5> HIDE DEF M, O, S, G
                  <5>3. Moved(M(h), O(h), AlignmentDelta(M(h), S(h), scales))
                      BY <5>1, <5>2, AlignedTracks
                  <5>4. FirstTFDT(O(h), 2) \in Nat BY <4>3, <5>3 DEF Moved
                  <5> QED BY <5>4 DEF G
              <4> HIDE DEF a, b, d, t, G, L, T, M, O
              <4>9. a + d = b /\ b \in Int
                  <5>1. (G(h, 2) + L(h) * T(2)) * t = G(h, 2) * t + L(h) * (T(2) * t)
                      BY <2>3, <4>7, <4>8
                  <5>2. G(h, 2) * t \in Int /\ L(h) * Resolution \in Int
                      BY <2>3, <4>7, <4>8, ScalesAssumption
                  <5> QED BY <4>4, <4>5, <4>6, <4>7, <5>1, <5>2
              <4>10. ValidateContinuity(a, d, b) = {} BY <4>9, NotOff DEF ValidateContinuity
              <4> QED BY <3>1, <4>1, <4>10
          <3> QED BY <3>2, <3>3
      <2>6. joins(i) = ValidateContinuity(at(h), dur(h), at(i)) \cup
                       (IF hasAudio THEN ValidateContinuityBetweenTracks(after[h].media,
                                                                         after[i].media, 2, scales)
                                    ELSE {})
          BY DEF h
      <2> HIDE DEF joins
      <2> QED BY <2>4, <2>5, <2>6
  <1> HIDE DEF timeline, joins
  <1> QED BY <1>5, <1>10, <1>11
=============================================================================
