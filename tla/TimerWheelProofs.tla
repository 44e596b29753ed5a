--------------------------- MODULE TimerWheelProofs ---------------------------
(***************************************************************************)
(* Proofs about the timer wheel, for every size of the wheels, every       *)
(* number of levels and every set of timers:                               *)
(*   - type correctness;                                                   *)
(*   - the counter of active timers;                                       *)
(*   - no wheel turns past a bucket that still holds timers.               *)
(***************************************************************************)
EXTENDS TimerWheel, TLAPS, FiniteSetTheorems, WellFoundedInduction

\* A non-empty set of naturals has a least element: the first level that fits
\* in the loop of restart exists.
LEMMA NatMin ==
    ASSUME NEW T \in SUBSET Nat, T # {}
    PROVE  \E x \in T : \A y \in T : x <= y
<1> DEFINE R == OpToRel(<, Nat)
<1>1. IsWellFoundedOn(R, Nat)
  BY NatLessThanWellFounded
<1>2. PICK x \in T : \A y \in T : ~ (<<y, x>> \in R)
  BY <1>1, WFMin
<1>3. \A y \in T : ~(y < x)
  BY <1>2 DEF OpToRel
<1>4. QED
  BY <1>3

\* An offset of 1 .. size - 1 never lands on the bucket it starts from: append
\* adds nothing to the active bucket of an upper wheel.
LEMMA CursorMoves ==
    ASSUME NEW b \in 0 .. WheelSize - 1, NEW o \in 1 .. WheelSize - 1
    PROVE  (b + o) % WheelSize # b
BY WheelAssumption

\* The share computed by onTickLevel, times the ticks of a bucket, covers it.
LEMMA PerIteCovers ==
    ASSUME NEW l \in Upper, NEW n \in Nat, n > 0
    PROVE  /\ PerIte(l, n) \in Nat
           /\ PerIte(l, n) > 0
           /\ n <= PerIte(l, n) * CntDiv[l]
<1> DEFINE d == CntDiv[l]
           steps == (n + d - 1) \div d
<1>1. d \in Nat /\ d > 0 /\ MinEvents \in Nat
  BY WheelAssumption
<1> HIDE DEF d
<1>2. steps \in Nat /\ n <= steps * d /\ steps > 0
  BY <1>1
<1>3. PerIte(l, n) = IF steps < MinEvents THEN MinEvents ELSE steps
  BY DEF PerIte, d
<1> HIDE DEF steps
<1>4. PerIte(l, n) \in Nat /\ PerIte(l, n) >= steps
  BY <1>1, <1>2, <1>3
<1> DEFINE p == PerIte(l, n)
<1> HIDE DEF p
<1>5. p \in Nat /\ p >= steps
  BY <1>4 DEF p
<1>6. n <= p * d
  BY <1>1, <1>2, <1>5
<1>7. QED
  BY <1>2, <1>5, <1>6 DEF p, d

\* A burst that popped its share leaves what the remaining ticks can pop.
LEMMA BurstLeft ==
    ASSUME NEW c \in Nat, NEW p \in Nat, NEW d \in Nat, NEW s \in Nat, s < d,
           c + p <= p * (d - s)
    PROVE  c <= p * (d - (s + 1))
OBVIOUS

Ticks == 0 .. TickMod - 1
Offsets == 0 .. WheelSize - 1

\* restart puts a timer in an upper wheel, at least one bucket ahead.
LEMMA RestartType ==
    ASSUME NEW ticks \in Ticks
    PROVE  /\ Restart(ticks).wheel \in Upper
           /\ Restart(ticks).off \in 1 .. WheelSize - 1
           /\ Restart(ticks).left \in Ticks
<1> DEFINE fits == {l \in Upper : NTicks(l, ticks) < WheelSize}
           d == CntDiv[LastLevel]
<1>0. /\ LastLevel \in Upper /\ d \in Nat \ {0} /\ Upper \subseteq Nat
      /\ WheelSize \in Nat /\ WheelSize >= 2 /\ TickMod \in Nat \ {0}
      /\ ticks \in Nat
  BY WheelAssumption DEF LastLevel, Upper, Ticks
<1>1. CASE fits = {}
  <2>1. Restart(ticks) = [wheel |-> LastLevel, off |-> WheelSize - 1,
                          left |-> ticks - (WheelSize - 1) * d]
    BY <1>1 DEF Restart
  <2>2. ~(NTicks(LastLevel, ticks) < WheelSize)
    BY <1>0, <1>1
  <2> DEFINE x == (ticks + (d - 1)) % TickMod
  <2>3. x \in Nat /\ x <= ticks + (d - 1)
    BY <1>0
  <2>4. NTicks(LastLevel, ticks) = x \div d
    BY DEF NTicks
  <2> HIDE DEF x, d
  <2>5. x >= WheelSize * d
    BY <1>0, <2>2, <2>3, <2>4
  <2>6. ticks + (d - 1) >= WheelSize * d
    BY <1>0, <2>3, <2>5
  <2>7. ticks - (WheelSize - 1) * d \in Nat /\ ticks - (WheelSize - 1) * d <= ticks
    BY <1>0, <2>6
  <2>8. ticks - (WheelSize - 1) * d \in Ticks
    BY <2>7, <1>0 DEF Ticks
  <2>9. QED
    BY <1>0, <2>1, <2>8
<1>2. CASE fits # {}
  <2>1. \E l \in fits : \A y \in fits : l <= y
    BY <1>0, <1>2, NatMin
  <2> DEFINE l == CHOOSE x \in fits : \A y \in fits : x <= y
  <2>2. l \in fits
    BY <2>1
  <2>3. Restart(ticks) = [wheel |-> l, off |-> AtLeast2(NTicks(l, ticks)) - 1, left |-> 0]
    BY <1>2 DEF Restart
  <2> HIDE DEF l
  <2>4. l \in Upper /\ NTicks(l, ticks) < WheelSize
    BY <2>2
  <2>5. CntDiv[l] \in Nat \ {0}
    BY <2>4, WheelAssumption
  <2>6. NTicks(l, ticks) \in Nat
    BY <1>0, <2>5 DEF NTicks
  <2>7. AtLeast2(NTicks(l, ticks)) - 1 \in 1 .. WheelSize - 1
    BY <1>0, <2>4, <2>6 DEF AtLeast2
  <2>8. 0 \in Ticks
    BY <1>0 DEF Ticks
  <2>9. QED
    BY <2>3, <2>4, <2>7, <2>8
<1>3. QED
  BY <1>1, <1>2

\* Start places a timer in some wheel; in an upper one, ahead of its cursor.
LEMMA PlacementType ==
    ASSUME NEW ticks \in Ticks
    PROVE  /\ Placement(ticks).wheel \in Levels
           /\ Placement(ticks).off \in Offsets
           /\ Placement(ticks).left \in Ticks
           /\ Placement(ticks).wheel # 0 => Placement(ticks).off # 0
<1>1. /\ WheelSize \in Nat /\ TickMod \in Nat \ {0} /\ ticks \in Nat /\ 0 \in Ticks
      /\ 0 \in Levels /\ Upper \subseteq Levels
  BY WheelAssumption DEF Ticks, Levels, Upper
<1>2. CASE ticks < WheelSize
  BY <1>1, <1>2 DEF Placement, Offsets
<1>3. CASE ~(ticks < WheelSize)
  BY <1>1, <1>3, RestartType DEF Placement, Offsets
<1>4. QED
  BY <1>2, <1>3

-----------------------------------------------------------------------------
(***************************************************************************)
(* The inductive invariant.  TypeOK alone is not inductive: totalEvents is *)
(* decremented without a test, so CountersAgree is what keeps it natural.  *)
(***************************************************************************)
IInv == TypeOK /\ CountersAgree /\ BurstCovers

RunningTimers == {t \in Timers : IsRunning(t)}

\* Removing a member of a finite set, and adding one to it.
LEMMA CardRemove ==
    ASSUME NEW S, IsFiniteSet(S), NEW x \in S
    PROVE  Cardinality(S) \in Nat /\ Cardinality(S) > 0
           /\ Cardinality(S \ {x}) = Cardinality(S) - 1
<1>1. Cardinality(S) \in Nat
  BY FS_CardinalityType
<1>2. Cardinality(S) # 0
  BY FS_EmptySet
<1>3. Cardinality(S \ {x}) = Cardinality(S) - 1
  BY FS_RemoveElement
<1>4. QED
  BY <1>1, <1>2, <1>3

LEMMA CardAdd ==
    ASSUME NEW S, IsFiniteSet(S), NEW x, x \notin S
    PROVE  Cardinality(S \cup {x}) = Cardinality(S) + 1
BY FS_AddElement

\* Sets of timers are finite.
LEMMA TimersFinite ==
    /\ IsFiniteSet(RunningTimers) /\ Cardinality(RunningTimers) \in Nat
    /\ \A l, b : IsFiniteSet(Bucket(l, b)) /\ Cardinality(Bucket(l, b)) \in Nat
<1>1. \A S \in SUBSET Timers : IsFiniteSet(S) /\ Cardinality(S) \in Nat
  BY WheelAssumption, FS_Subset, FS_CardinalityType
<1>2. QED
  BY <1>1 DEF RunningTimers, Bucket

\* detach: a timer leaves the running timers and its bucket, and no other.
LEMMA DetachCounts ==
    ASSUME slot \in [Timers -> (Levels \X (0 .. WheelSize - 1)) \cup {NotRunning}],
           NEW t \in Timers, IsRunning(t),
           slot' = [slot EXCEPT ![t] = NotRunning]
    PROVE  /\ Cardinality(RunningTimers') = Cardinality(RunningTimers) - 1
           /\ Cardinality(RunningTimers) > 0
           /\ \A l \in Levels, b \in Offsets :
                 /\ Bucket(l, b)' \subseteq Bucket(l, b)
                 /\ t \in Bucket(l, b) => Bucket(l, b)' = Bucket(l, b) \ {t}
<1>1. RunningTimers' = RunningTimers \ {t} /\ t \in RunningTimers
  BY DEF RunningTimers, IsRunning
<1>2. /\ Cardinality(RunningTimers \ {t}) = Cardinality(RunningTimers) - 1
      /\ Cardinality(RunningTimers) > 0
  BY <1>1, TimersFinite, CardRemove
<1>3. ASSUME NEW l \in Levels, NEW b \in Offsets
      PROVE  /\ Bucket(l, b)' \subseteq Bucket(l, b)
             /\ t \in Bucket(l, b) => Bucket(l, b)' = Bucket(l, b) \ {t}
  <2>1. <<l, b>> # NotRunning
    BY WheelAssumption DEF NotRunning, Levels
  <2>2. slot'[t] = NotRunning /\ \A u \in Timers : u # t => slot'[u] = slot[u]
    OBVIOUS
  <2>3. QED
    BY <2>1, <2>2 DEF Bucket
<1>4. QED
  BY <1>1, <1>2, <1>3

\* append: a timer joins a bucket, never the active one of an upper wheel.
LEMMA AttachBuckets ==
    ASSUME TypeOK, NEW t \in Timers, NEW p,
           p.wheel \in Levels, p.off \in Offsets, p.wheel # 0 => p.off # 0,
           slot' = [slot EXCEPT ![t] = SlotOf(p)]
    PROVE  /\ SlotOf(p) \in Levels \X Offsets /\ SlotOf(p) # NotRunning
           /\ \A l \in Upper : SlotOf(p) # <<l, bucketIndex[l]>>
           /\ \A l \in Upper, b \in Offsets :
                 b = bucketIndex[l] => Bucket(l, b)' = Bucket(l, b) \ {t}
<1> DEFINE w == p.wheel
           c == (bucketIndex[w] + p.off) % WheelSize
<1>1. /\ w \in Levels /\ bucketIndex[w] \in Offsets /\ p.off \in Offsets
      /\ WheelSize \in Nat /\ WheelSize >= 2 /\ Offsets \subseteq Nat
      /\ Upper \subseteq Levels /\ 0 \notin Upper
  <2>1. w \in Levels /\ bucketIndex[w] \in Offsets /\ p.off \in Offsets
    BY DEF TypeOK, Offsets
  <2>2. WheelSize \in Nat /\ WheelSize >= 2
    BY WheelAssumption
  <2>3. Offsets \subseteq Nat
    BY DEF Offsets
  <2>4. Upper \subseteq Levels /\ 0 \notin Upper
    BY WheelAssumption DEF Upper, Levels
  <2> QED BY <2>1, <2>2, <2>3, <2>4
<1>2. SlotOf(p) = <<w, c>>
  BY DEF SlotOf
<1>3. c \in Offsets
  BY <1>1 DEF Offsets
<1>4. w # 0 => c # bucketIndex[w]
  BY <1>1, CursorMoves DEF Offsets
<1> HIDE DEF w, c
<1>5. SlotOf(p) \in Levels \X Offsets
  BY <1>1, <1>2, <1>3
<1>6. SlotOf(p) # NotRunning
  BY <1>1, <1>2, WheelAssumption DEF NotRunning, Levels
<1>7. ASSUME NEW l \in Upper
      PROVE  SlotOf(p) # <<l, bucketIndex[l]>>
  BY <1>1, <1>2, <1>4
<1>8. ASSUME NEW l \in Upper, NEW b \in Offsets, b = bucketIndex[l]
      PROVE  Bucket(l, b)' = Bucket(l, b) \ {t}
  <2>1. slot'[t] # <<l, b>> /\ \A u \in Timers : u # t => slot'[u] = slot[u]
    BY <1>7, <1>8 DEF TypeOK
  <2>2. QED
    BY <2>1 DEF Bucket
<1>9. QED
  BY <1>5, <1>6, <1>7, <1>8

\* A step that only takes timers out of the active buckets keeps BurstCovers.
LEMMA BurstShrinks ==
    ASSUME TypeOK, BurstCovers,
           UNCHANGED <<cntState, cntPerIte, bucketIndex, cnt, level, inLoop>>,
           \A l \in Upper, b \in Offsets :
              b = bucketIndex[l] => Bucket(l, b)' \subseteq Bucket(l, b)
    PROVE  BurstCovers'
<1> SUFFICES ASSUME NEW l \in Upper
             PROVE  /\ Working(l) => cnt <= cntPerIte[l] /\ cntPerIte[l] > 0
                    /\ (cntState[l] > 0 \/ Working(l)) =>
                          Cardinality(ActiveBucket(l)') + (IF Working(l) THEN cnt ELSE 0)
                             <= cntPerIte[l] * (CntDiv[l] - cntState[l])
  BY DEF BurstCovers, Working
<1> DEFINE b == bucketIndex[l]
<1>1. b \in Offsets /\ cnt \in Nat /\ cntPerIte[l] \in Nat /\ CntDiv[l] \in Nat
      /\ cntState[l] \in Nat
  BY WheelAssumption DEF TypeOK, Offsets, Upper, Levels
<1>2. Bucket(l, b)' \subseteq Bucket(l, b) /\ ActiveBucket(l) = Bucket(l, b)
      /\ ActiveBucket(l)' = Bucket(l, b)'
  BY <1>1 DEF ActiveBucket, Bucket
<1>3. /\ Cardinality(ActiveBucket(l)') \in Nat /\ Cardinality(ActiveBucket(l)) \in Nat
      /\ Cardinality(ActiveBucket(l)') <= Cardinality(ActiveBucket(l))
  <2>1. \A S \in SUBSET Bucket(l, b) :
           Cardinality(S) \in Nat /\ Cardinality(S) <= Cardinality(Bucket(l, b))
    BY TimersFinite, FS_Subset, FS_CardinalityType
  <2>2. QED
    BY <1>2, <2>1, TimersFinite
<1> DEFINE prod == cntPerIte[l] * (CntDiv[l] - cntState[l])
<1>4. prod \in Int
  BY <1>1
<1>5. /\ Working(l) => cnt <= cntPerIte[l] /\ cntPerIte[l] > 0
      /\ (cntState[l] > 0 \/ Working(l)) =>
            Cardinality(ActiveBucket(l)) + (IF Working(l) THEN cnt ELSE 0) <= prod
  BY DEF BurstCovers
<1> HIDE DEF prod
<1>6. QED
  BY <1>1, <1>3, <1>4, <1>5 DEF prod

\* An idle wheel satisfies the invariant.
LEMMA InitInv == Init => IInv
<1> SUFFICES ASSUME Init PROVE IInv
  OBVIOUS
<1>0. NoHist \in Hist /\ NoCallback \in [on : BOOLEAN, h : Hist]
  BY WheelAssumption DEF NoHist, NoCallback, Hist, Levels
<1>1. TypeOK
  <2>1. 0 \in 0 .. WheelSize - 1 /\ 0 \in 0 .. TickMod - 1 /\ \A l \in Upper : 0 < CntDiv[l]
    BY WheelAssumption
  <2>2. hist \in [Timers -> Hist] /\ cb \in [on : BOOLEAN, h : Hist]
    BY <1>0 DEF Init
  <2>3. QED
    BY <2>1, <2>2 DEF Init, TypeOK
<1>2. CountersAgree
  <2>1. {t \in Timers : IsRunning(t)} = {}
    BY DEF Init, IsRunning
  <2>2. QED
    BY <2>1, FS_EmptySet DEF Init, CountersAgree
<1>3. BurstCovers
  BY DEF Init, BurstCovers, Working
<1>4. QED
  BY <1>1, <1>2, <1>3 DEF IInv

\* Start, from the main loop or from a callback, keeps the invariant.
LEMMA StartInv ==
    ASSUME IInv, NEW t \in Timers, NEW n \in Ticks, DoStart(t, n)
    PROVE  IInv'
<1> DEFINE p == Placement(n)
<1>1. TypeOK /\ CountersAgree /\ BurstCovers
  BY DEF IInv
<1>2. /\ p.wheel \in Levels /\ p.off \in Offsets /\ p.left \in Ticks
      /\ p.wheel # 0 => p.off # 0
  BY PlacementType
<1>3. /\ slot' = [slot EXCEPT ![t] = SlotOf(p)]
      /\ ticksLeft' = [ticksLeft EXCEPT ![t] = p.left]
      /\ hist' = [hist EXCEPT ![t] =
                    [asked |-> n, age |-> 0, hops |-> 0, wheel |-> p.wheel]]
  BY DEF DoStart
<1> HIDE DEF p
<1>4. /\ SlotOf(p) \in Levels \X Offsets /\ SlotOf(p) # NotRunning
      /\ \A l \in Upper, b \in Offsets :
            b = bucketIndex[l] => Bucket(l, b)' = Bucket(l, b) \ {t}
  BY <1>1, <1>2, <1>3, AttachBuckets
<1>5. TypeOK'
  <2>1. slot' \in [Timers -> (Levels \X (0 .. WheelSize - 1)) \cup {NotRunning}]
    BY <1>1, <1>3, <1>4 DEF TypeOK, Offsets
  <2>2. ticksLeft' \in [Timers -> 0 .. TickMod - 1]
    BY <1>1, <1>2, <1>3 DEF TypeOK, Ticks
  <2>3. hist' \in [Timers -> Hist]
    BY <1>1, <1>2, <1>3 DEF TypeOK, Ticks, Hist
  <2>4. totalEvents' \in Nat
    BY <1>1 DEF TypeOK, DoStart
  <2>5. QED
    BY <1>1, <2>1, <2>2, <2>3, <2>4 DEF TypeOK, DoStart
<1>6. CountersAgree'
  <2>1. RunningTimers' = RunningTimers \cup {t} /\ t \notin RunningTimers
    BY <1>1, <1>3, <1>4 DEF RunningTimers, IsRunning, DoStart, TypeOK
  <2>2. Cardinality(RunningTimers \cup {t}) = Cardinality(RunningTimers) + 1
    BY <2>1, TimersFinite, CardAdd
  <2>3. totalEvents' = Cardinality(RunningTimers')
    BY <1>1, <2>1, <2>2 DEF DoStart, CountersAgree, RunningTimers
  <2>4. QED
    BY <2>3 DEF CountersAgree, RunningTimers
<1>7. BurstCovers'
  BY <1>1, <1>4, BurstShrinks DEF DoStart
<1>8. QED
  BY <1>5, <1>6, <1>7 DEF IInv

\* Detaching a running timer, which Stop and the firing of a timer share,
\* keeps the types and the counter.
LEMMA DetachInv ==
    ASSUME IInv, NEW t \in Timers, IsRunning(t),
           slot' = [slot EXCEPT ![t] = NotRunning],
           totalEvents' = totalEvents - 1,
           hist' = [hist EXCEPT ![t] = NoHist]
    PROVE  /\ slot' \in [Timers -> (Levels \X (0 .. WheelSize - 1)) \cup {NotRunning}]
           /\ totalEvents' \in Nat
           /\ hist' \in [Timers -> Hist]
           /\ CountersAgree'
           /\ \A l \in Levels, b \in Offsets :
                 /\ Bucket(l, b)' \subseteq Bucket(l, b)
                 /\ t \in Bucket(l, b) => Bucket(l, b)' = Bucket(l, b) \ {t}
<1>1. TypeOK /\ CountersAgree
  BY DEF IInv
<1>2. NoHist \in Hist
  BY WheelAssumption DEF NoHist, Hist, Levels
<1>3. slot' \in [Timers -> (Levels \X (0 .. WheelSize - 1)) \cup {NotRunning}]
  BY <1>1 DEF TypeOK
<1>4. hist' \in [Timers -> Hist]
  BY <1>1, <1>2 DEF TypeOK
<1>5. /\ Cardinality(RunningTimers') = Cardinality(RunningTimers) - 1
      /\ Cardinality(RunningTimers) > 0
      /\ \A l \in Levels, b \in Offsets :
            /\ Bucket(l, b)' \subseteq Bucket(l, b)
            /\ t \in Bucket(l, b) => Bucket(l, b)' = Bucket(l, b) \ {t}
  BY <1>1, DetachCounts DEF TypeOK
<1>6. totalEvents = Cardinality(RunningTimers) /\ totalEvents \in Nat
  BY <1>1 DEF CountersAgree, RunningTimers, TypeOK
<1>7. totalEvents' \in Nat /\ totalEvents' = Cardinality(RunningTimers')
  BY <1>5, <1>6
<1>8. CountersAgree'
  BY <1>7 DEF CountersAgree, RunningTimers
<1>9. QED
  BY <1>3, <1>4, <1>5, <1>7, <1>8

\* Stop keeps the invariant.
LEMMA StopInv ==
    ASSUME IInv, NEW t \in Timers, Stop(t)
    PROVE  IInv'
<1>1. TypeOK /\ BurstCovers /\ Upper \subseteq Levels
  BY WheelAssumption DEF IInv, Upper, Levels
<1>2. /\ slot' \in [Timers -> (Levels \X (0 .. WheelSize - 1)) \cup {NotRunning}]
      /\ totalEvents' \in Nat /\ hist' \in [Timers -> Hist] /\ CountersAgree'
      /\ \A l \in Levels, b \in Offsets : Bucket(l, b)' \subseteq Bucket(l, b)
  BY DetachInv DEF Stop
<1>3. TypeOK'
  BY <1>1, <1>2 DEF TypeOK, Stop
<1>4. BurstCovers'
  BY <1>1, <1>2, BurstShrinks DEF Stop
<1>5. QED
  BY <1>2, <1>3, <1>4 DEF IInv

\* onTickLevelInc keeps the cursors and the counters of the level in range.
LEMMA LevelIncType ==
    ASSUME TypeOK, NEW l \in Upper, LevelInc(l)
    PROVE  /\ bucketIndex' \in [Levels -> 0 .. WheelSize - 1]
           /\ cntState' \in [Upper -> Nat]
           /\ \A k \in Upper : cntState'[k] < CntDiv[k]
           /\ \A k \in Upper : k # l => cntState'[k] = cntState[k]
                                       /\ bucketIndex'[k] = bucketIndex[k]
           /\ \/ /\ cntState[l] + 1 = CntDiv[l] /\ cntState'[l] = 0
              \/ /\ cntState[l] + 1 < CntDiv[l] /\ cntState'[l] = cntState[l] + 1
                 /\ bucketIndex'[l] = bucketIndex[l]
<1>1. /\ l \in Levels /\ Upper \subseteq Levels /\ WheelSize \in Nat /\ WheelSize >= 2
      /\ CntDiv \in [Upper -> Nat \ {0}]
  BY WheelAssumption DEF Levels, Upper
<1>2. /\ bucketIndex \in [Levels -> 0 .. WheelSize - 1] /\ cntState \in [Upper -> Nat]
      /\ \A k \in Upper : cntState[k] < CntDiv[k]
  BY DEF TypeOK
<1>3. NextBucket(bucketIndex[l]) \in 0 .. WheelSize - 1
  BY <1>1, <1>2 DEF NextBucket
<1>4. CASE cntState[l] + 1 = CntDiv[l]
  <2>1. /\ cntState' = [cntState EXCEPT ![l] = 0]
        /\ bucketIndex' = [bucketIndex EXCEPT ![l] = NextBucket(bucketIndex[l])]
    BY <1>4 DEF LevelInc
  <2>2. QED
    BY <1>1, <1>2, <1>3, <1>4, <2>1
<1>5. CASE cntState[l] + 1 # CntDiv[l]
  <2>1. /\ cntState' = [cntState EXCEPT ![l] = cntState[l] + 1]
        /\ bucketIndex' = [bucketIndex EXCEPT ![l] = bucketIndex[l]]
    BY <1>5 DEF LevelInc
  <2>2. cntState[l] + 1 < CntDiv[l]
    BY <1>1, <1>2, <1>5
  <2>3. QED
    BY <1>1, <1>2, <2>1, <2>2
<1>6. QED
  BY <1>4, <1>5

\* Leaving level l, with an empty active bucket or with its share popped,
\* keeps BurstCovers; and the wheel turns only when the bucket is empty.
LEMMA LeaveLevel ==
    ASSUME IInv, NEW l \in Upper, level = l, LevelInc(l),
           level' = After(l), inLoop' = FALSE, UNCHANGED <<cntPerIte, slot>>,
           ActiveBucket(l) = {} \/ (inLoop /\ BurstDone(l))
    PROVE  /\ BurstCovers'
           /\ \A k \in Levels : bucketIndex'[k] # bucketIndex[k] => ActiveBucket(k) = {}
<1>1. TypeOK /\ BurstCovers
  BY DEF IInv
<1> DEFINE card == Cardinality(ActiveBucket(l))
           d == CntDiv[l]
           c == cntState[l]
           q == cntPerIte[l]
<1>2. /\ card \in Nat /\ d \in Nat /\ c \in Nat /\ c < d /\ q \in Nat /\ cnt \in Nat
  BY <1>1, WheelAssumption, TimersFinite DEF TypeOK, ActiveBucket
<1>3. card <= q * (d - (c + 1))
  <2>1. CASE ActiveBucket(l) = {}
    <3>1. card = 0
      BY <2>1, FS_EmptySet
    <3>2. q * (d - (c + 1)) >= 0
      BY <1>2
    <3>3. QED
      BY <3>1, <3>2
  <2>2. CASE inLoop /\ BurstDone(l)
    <3>1. card + q <= q * (d - c)
      BY <1>1, <1>2, <2>2 DEF BurstCovers, Working, BurstDone
    <3>2. QED
      BY <1>2, <3>1, BurstLeft
  <2>3. QED
    BY <2>1, <2>2
<1>4. d = c + 1 => ActiveBucket(l) = {}
  <2>1. d = c + 1 => card = 0
    BY <1>2, <1>3
  <2>2. QED
    BY <2>1, TimersFinite, FS_EmptySet DEF ActiveBucket
<1>5. \A k \in Levels : bucketIndex'[k] # bucketIndex[k] => k = l /\ d = c + 1
  BY <1>1, <1>2 DEF LevelInc, TypeOK
<1>6. ASSUME NEW k \in Upper
      PROVE  /\ ~Working(k)'
             /\ cntState'[k] > 0 =>
                   Cardinality(ActiveBucket(k)') <= cntPerIte[k] * (CntDiv[k] - cntState'[k])
  <2>1. ~Working(k)'
    BY DEF Working
  <2>2. /\ k # l => cntState'[k] = cntState[k] /\ bucketIndex'[k] = bucketIndex[k]
        /\ k = l /\ cntState'[k] > 0 => cntState'[k] = c + 1 /\ bucketIndex'[k] = bucketIndex[k]
    BY <1>1, <1>2, LevelIncType
  <2>3. cntState'[k] > 0 => ActiveBucket(k)' = ActiveBucket(k)
    BY <2>2 DEF ActiveBucket, Bucket
  <2>4. CASE k = l
    BY <1>3, <2>1, <2>2, <2>3, <2>4
  <2>5. CASE k # l
    <3>1. ~Working(k)
      BY <2>5 DEF Working
    <3>2. cntState[k] > 0 => Cardinality(ActiveBucket(k)) + 0
                                <= cntPerIte[k] * (CntDiv[k] - cntState[k])
      BY <1>1, <3>1 DEF BurstCovers
    <3>3. Cardinality(ActiveBucket(k)) \in Nat
      BY TimersFinite DEF ActiveBucket
    <3>4. QED
      BY <2>1, <2>2, <2>3, <2>5, <3>2, <3>3
  <2>6. QED
    BY <2>4, <2>5
<1>7. BurstCovers'
  <2>1. \A k \in Upper : Cardinality(ActiveBucket(k)') \in Nat
    <3>1. \A S \in SUBSET Timers : Cardinality(S) \in Nat
      BY WheelAssumption, FS_Subset, FS_CardinalityType
    <3>2. QED
      BY <3>1 DEF ActiveBucket, Bucket
  <2>2. QED
    BY <1>6, <2>1 DEF BurstCovers
<1>8. QED
  BY <1>4, <1>5, <1>7

\* The level that follows an upper level is a level, or OnTick returns.
LEMMA AfterType ==
    ASSUME NEW l \in Levels
    PROVE  After(l) \in Levels \cup {Idle}
BY WheelAssumption DEF After, Levels, LastLevel

\* onTickLevel leaves an upper level.
LEMMA LeaveInv ==
    ASSUME IInv, NEW l \in Upper, LevelSkip(l) \/ LevelExit(l)
    PROVE  IInv'
<1>1. TypeOK /\ CountersAgree /\ l \in Levels
  BY WheelAssumption DEF IInv, Upper, Levels
<1>2. /\ level = l /\ LevelInc(l) /\ level' = After(l) /\ inLoop' = FALSE
      /\ UNCHANGED <<cntPerIte, slot, ticksLeft, totalEvents, cb, hist>>
      /\ cnt' \in Nat
      /\ ActiveBucket(l) = {} \/ (inLoop /\ BurstDone(l))
  BY <1>1 DEF LevelSkip, LevelExit, TypeOK
<1>3. BurstCovers'
  BY <1>2, LeaveLevel
<1>4. TypeOK'
  BY <1>1, <1>2, LevelIncType, AfterType DEF TypeOK
<1>5. CountersAgree'
  BY <1>1, <1>2 DEF CountersAgree, IsRunning
<1>6. QED
  BY <1>3, <1>4, <1>5 DEF IInv

\* onTickLevel starts on a bucket: the share it computes covers the bucket.
LEMMA EnterInv ==
    ASSUME IInv, NEW l \in Upper, LevelEnter(l)
    PROVE  IInv'
<1>1. TypeOK /\ CountersAgree /\ BurstCovers
  BY DEF IInv
<1> DEFINE card == Cardinality(ActiveBucket(l))
<1>2. card \in Nat /\ card > 0
  BY TimersFinite, FS_EmptySet DEF ActiveBucket, LevelEnter
<1>3. /\ PerIte(l, card) \in Nat /\ PerIte(l, card) > 0
      /\ card <= PerIte(l, card) * CntDiv[l]
  BY <1>2, PerIteCovers
<1>4. cntPerIte' \in [Upper -> Nat]
  BY <1>1, <1>3 DEF TypeOK, LevelEnter
<1>5. TypeOK'
  BY <1>1, <1>4 DEF TypeOK, LevelEnter
<1>6. CountersAgree'
  BY <1>1 DEF CountersAgree, LevelEnter, IsRunning
<1>7. BurstCovers'
  <2> SUFFICES ASSUME NEW k \in Upper
               PROVE  /\ Working(k)' => cnt' <= cntPerIte'[k] /\ cntPerIte'[k] > 0
                      /\ (cntState'[k] > 0 \/ Working(k)') =>
                            Cardinality(ActiveBucket(k)') + (IF Working(k)' THEN cnt' ELSE 0)
                               <= cntPerIte'[k] * (CntDiv[k] - cntState'[k])
    BY DEF BurstCovers
  <2>1. ActiveBucket(k)' = ActiveBucket(k) /\ cntState' = cntState /\ cnt' = 0
    BY DEF LevelEnter, ActiveBucket, Bucket
  <2>2. /\ Cardinality(ActiveBucket(k)) \in Nat /\ CntDiv[k] \in Nat
        /\ cntState[k] \in Nat /\ cntState[k] < CntDiv[k]
        /\ cntPerIte[k] \in Nat /\ cntPerIte'[k] \in Nat
    BY <1>1, <1>4, TimersFinite, WheelAssumption DEF ActiveBucket, TypeOK
  <2>3. CASE k # l
    <3>1. ~Working(k) /\ ~Working(k)' /\ cntPerIte'[k] = cntPerIte[k]
      BY <1>1, <2>3 DEF Working, LevelEnter, TypeOK
    <3>2. cntState[k] > 0 => Cardinality(ActiveBucket(k)) + 0
                                <= cntPerIte[k] * (CntDiv[k] - cntState[k])
      BY <1>1, <3>1 DEF BurstCovers
    <3>3. QED
      BY <2>1, <2>2, <3>1, <3>2
  <2>4. CASE k = l /\ cntState[l] = 0
    <3>1. Working(k)' /\ cntPerIte'[k] = PerIte(l, card)
      BY <1>1, <2>4 DEF Working, LevelEnter, TypeOK
    <3>2. CntDiv[k] - cntState[k] = CntDiv[l]
      BY <2>2, <2>4
    <3>3. QED
      BY <1>2, <1>3, <2>1, <2>2, <2>4, <3>1, <3>2
  <2>5. CASE k = l /\ cntState[l] # 0
    <3>1. Working(k)' /\ cntPerIte' = cntPerIte /\ ~Working(k)
      BY <1>1, <2>5 DEF Working, LevelEnter
    <3> DEFINE q == cntPerIte[k]
               r == CntDiv[k] - cntState[k]
    <3>2. cntState[k] > 0 /\ q \in Nat /\ r \in Nat
      BY <2>2, <2>5
    <3>3. card <= q * r
      BY <1>1, <1>2, <2>5, <3>1, <3>2 DEF BurstCovers
    <3> HIDE DEF q, r
    <3>4. q > 0
      BY <1>2, <3>2, <3>3
    <3>5. QED
      BY <1>2, <2>1, <2>2, <2>5, <3>1, <3>2, <3>3, <3>4 DEF q, r
  <2>6. QED
    BY <2>3, <2>4, <2>5
<1>8. QED
  BY <1>5, <1>6, <1>7 DEF IInv

\* One turn of the pop loop: the event leaves the active bucket for a
\* callback or for a bucket ahead, and cnt counts it.
LEMMA PopInv ==
    ASSUME IInv, NEW l \in Upper, NEW t \in Timers, LevelPop(l, t)
    PROVE  IInv'
<1>1. TypeOK /\ CountersAgree /\ BurstCovers /\ l \in Levels /\ Upper \subseteq Levels
  BY WheelAssumption DEF IInv, Upper, Levels
<1>2. /\ level = l /\ inLoop /\ ~BurstDone(l) /\ t \in ActiveBucket(l) /\ cnt' = cnt + 1
      /\ UNCHANGED <<bucketIndex, cntState, cntPerIte, level, inLoop>>
  BY DEF LevelPop
<1>3. IsRunning(t) /\ slot[t] = <<l, bucketIndex[l]>>
  BY <1>1, <1>2, WheelAssumption DEF IsRunning, ActiveBucket, Bucket, NotRunning, Levels
<1>4. /\ slot' \in [Timers -> (Levels \X (0 .. WheelSize - 1)) \cup {NotRunning}]
      /\ ticksLeft' \in [Timers -> 0 .. TickMod - 1]
      /\ totalEvents' \in Nat
      /\ cb' \in [on : BOOLEAN, h : Hist]
      /\ hist' \in [Timers -> Hist]
      /\ CountersAgree'
      /\ \A k \in Upper, b \in Offsets : b = bucketIndex[k] =>
            Bucket(k, b)' \subseteq Bucket(k, b) /\ (k = l => Bucket(k, b)' = Bucket(k, b) \ {t})
  <2>1. CASE ticksLeft[t] = 0
    <3>1. Fire(t) /\ UNCHANGED ticksLeft
      BY <2>1 DEF LevelPop
    <3>2. cb' \in [on : BOOLEAN, h : Hist]
      BY <1>1, <3>1 DEF Fire, TypeOK
    <3>3. /\ slot' \in [Timers -> (Levels \X (0 .. WheelSize - 1)) \cup {NotRunning}]
          /\ totalEvents' \in Nat /\ hist' \in [Timers -> Hist] /\ CountersAgree'
          /\ \A k \in Levels, b \in Offsets :
                /\ Bucket(k, b)' \subseteq Bucket(k, b)
                /\ t \in Bucket(k, b) => Bucket(k, b)' = Bucket(k, b) \ {t}
      BY <1>3, <3>1, DetachInv DEF Fire
    <3>4. \A b \in Offsets : b = bucketIndex[l] => t \in Bucket(l, b)
      BY <1>3 DEF Bucket
    <3>5. QED
      BY <1>1, <3>1, <3>2, <3>3, <3>4 DEF TypeOK
  <2>2. CASE ticksLeft[t] # 0
    <3> DEFINE p == Restart(ticksLeft[t])
    <3>1. ticksLeft[t] \in Ticks
      BY <1>1 DEF TypeOK, Ticks
    <3>2. /\ p.wheel \in Upper /\ p.off \in 1 .. WheelSize - 1 /\ p.left \in Ticks
      BY <3>1, RestartType
    <3>3. p.wheel \in Levels /\ p.off \in Offsets /\ p.off # 0
      BY <1>1, <3>2, WheelAssumption DEF Offsets
    <3>4. Requeue(t)
      BY <2>2 DEF LevelPop
    <3>5. /\ slot' = [slot EXCEPT ![t] = SlotOf(p)]
          /\ ticksLeft' = [ticksLeft EXCEPT ![t] = p.left]
          /\ hist' = [hist EXCEPT ![t] = Hopped(hist[t])]
          /\ UNCHANGED <<totalEvents, cb>>
      BY <3>4 DEF Requeue
    <3> HIDE DEF p
    <3>6. /\ SlotOf(p) \in Levels \X Offsets /\ SlotOf(p) # NotRunning
          /\ \A k \in Upper, b \in Offsets :
                b = bucketIndex[k] => Bucket(k, b)' = Bucket(k, b) \ {t}
      BY <1>1, <3>3, <3>5, AttachBuckets
    <3>7. slot' \in [Timers -> (Levels \X (0 .. WheelSize - 1)) \cup {NotRunning}]
      BY <1>1, <3>5, <3>6 DEF TypeOK, Offsets
    <3>8. ticksLeft' \in [Timers -> 0 .. TickMod - 1]
      BY <1>1, <3>2, <3>5 DEF TypeOK, Ticks
    <3>9. hist' \in [Timers -> Hist]
      <4>1. hist[t] \in Hist
        BY <1>1 DEF TypeOK
      <4>2. Hopped(hist[t]) \in Hist
        BY <4>1 DEF Hist, Hopped
      <4>3. QED
        BY <1>1, <3>5, <4>2 DEF TypeOK
    <3>10. CountersAgree'
      <4>1. \A u \in Timers : (slot'[u] # NotRunning) <=> (slot[u] # NotRunning)
        BY <1>1, <1>3, <3>5, <3>6 DEF IsRunning, TypeOK
      <4>2. QED
        BY <1>1, <3>5, <4>1 DEF CountersAgree, IsRunning
    <3>11. totalEvents' \in Nat /\ cb' \in [on : BOOLEAN, h : Hist]
      BY <1>1, <3>5 DEF TypeOK
    <3>12. QED
      BY <3>6, <3>7, <3>8, <3>9, <3>10, <3>11
  <2>3. QED
    BY <2>1, <2>2
<1>5. TypeOK'
  BY <1>1, <1>2, <1>4 DEF TypeOK
<1>6. BurstCovers'
  <2> SUFFICES ASSUME NEW k \in Upper
               PROVE  /\ Working(k)' => cnt' <= cntPerIte[k] /\ cntPerIte[k] > 0
                      /\ (cntState[k] > 0 \/ Working(k)') =>
                            Cardinality(ActiveBucket(k)') + (IF Working(k)' THEN cnt' ELSE 0)
                               <= cntPerIte[k] * (CntDiv[k] - cntState[k])
    BY <1>2 DEF BurstCovers
  <2> DEFINE b == bucketIndex[k]
             prod == cntPerIte[k] * (CntDiv[k] - cntState[k])
  <2>1. /\ b \in Offsets /\ cnt \in Nat /\ cntPerIte[k] \in Nat /\ prod \in Int
    BY <1>1, WheelAssumption DEF TypeOK, Offsets
  <2>2. (Working(k)' <=> k = l) /\ (Working(k) <=> k = l)
    BY <1>2 DEF Working
  <2>3. /\ Working(k) => cnt <= cntPerIte[k] /\ cntPerIte[k] > 0
        /\ (cntState[k] > 0 \/ Working(k)) =>
              Cardinality(ActiveBucket(k)) + (IF Working(k) THEN cnt ELSE 0) <= prod
    BY <1>1 DEF BurstCovers
  <2> HIDE DEF prod
  <2>4. /\ ActiveBucket(k)' \subseteq ActiveBucket(k)
        /\ k = l => ActiveBucket(k)' = ActiveBucket(k) \ {t}
    BY <1>2, <1>4, <2>1, SMTT(30) DEF ActiveBucket, Bucket
  <2>5. IsFiniteSet(ActiveBucket(k)) /\ Cardinality(ActiveBucket(k)) \in Nat
    BY TimersFinite DEF ActiveBucket
  <2>6. CASE k = l
    <3>1. Cardinality(ActiveBucket(k) \ {t}) = Cardinality(ActiveBucket(k)) - 1
      BY <1>2, <2>5, <2>6, CardRemove
    <3>2. cnt < cntPerIte[k]
      BY <1>2, <2>1, <2>2, <2>3, <2>6 DEF BurstDone
    <3>3. Cardinality(ActiveBucket(k)) + cnt <= prod
      BY <2>2, <2>3, <2>6
    <3>4. Cardinality(ActiveBucket(k)') = Cardinality(ActiveBucket(k)) - 1
      BY <2>4, <2>6, <3>1
    <3>5. Cardinality(ActiveBucket(k)') + cnt' <= prod
      BY <1>2, <2>1, <2>5, <3>3, <3>4
    <3>6. cnt' <= cntPerIte[k] /\ cntPerIte[k] > 0
      BY <1>2, <2>1, <3>2
    <3>7. QED
      BY <2>2, <2>6, <3>5, <3>6 DEF prod
  <2>7. CASE k # l
    <3>1. \A S \in SUBSET ActiveBucket(k) :
             Cardinality(S) \in Nat /\ Cardinality(S) <= Cardinality(ActiveBucket(k))
      BY <2>5, FS_Subset, FS_CardinalityType
    <3>2. /\ Cardinality(ActiveBucket(k)') \in Nat
          /\ Cardinality(ActiveBucket(k)') <= Cardinality(ActiveBucket(k))
      BY <2>4, <3>1
    <3>3. QED
      BY <2>1, <2>2, <2>3, <2>5, <2>7, <3>2 DEF prod
  <2>8. QED
    BY <2>6, <2>7
<1>7. QED
  BY <1>4, <1>5, <1>6 DEF IInv

\* One turn of the loop of onTickLevel0.
LEMMA Pop0Inv ==
    ASSUME IInv, NEW t \in Timers, Level0Pop(t)
    PROVE  IInv'
<1>1. TypeOK /\ BurstCovers /\ Upper \subseteq Levels /\ 0 \in Levels
  BY WheelAssumption DEF IInv, Upper, Levels
<1>2. IsRunning(t)
  BY <1>1, WheelAssumption DEF Level0Pop, IsRunning, ActiveBucket, Bucket, NotRunning
<1>3. /\ slot' \in [Timers -> (Levels \X (0 .. WheelSize - 1)) \cup {NotRunning}]
      /\ totalEvents' \in Nat /\ hist' \in [Timers -> Hist] /\ CountersAgree'
      /\ \A l \in Levels, b \in Offsets : Bucket(l, b)' \subseteq Bucket(l, b)
  BY <1>2, DetachInv DEF Level0Pop, Fire
<1>4. cb' \in [on : BOOLEAN, h : Hist]
  BY <1>1 DEF TypeOK, Level0Pop, Fire
<1>5. TypeOK'
  BY <1>1, <1>3, <1>4 DEF TypeOK, Level0Pop
<1>6. BurstCovers'
  BY <1>1, <1>3, BurstShrinks DEF Level0Pop
<1>7. QED
  BY <1>3, <1>5, <1>6 DEF IInv

\* The wheel of level 0 turns.
LEMMA Done0Inv == IInv /\ Level0Done => IInv'
<1> SUFFICES ASSUME IInv, Level0Done PROVE IInv'
  OBVIOUS
<1>1. TypeOK /\ CountersAgree /\ BurstCovers /\ 0 \in Levels /\ 0 \notin Upper
  BY WheelAssumption DEF IInv, Levels, Upper
<1>2. bucketIndex' \in [Levels -> 0 .. WheelSize - 1]
  <2>1. NextBucket(bucketIndex[0]) \in 0 .. WheelSize - 1
    BY <1>1, WheelAssumption DEF TypeOK, NextBucket
  <2>2. QED
    BY <1>1, <2>1 DEF TypeOK, Level0Done
<1>3. hist' \in [Timers -> Hist]
  <2>1. \A h \in Hist : Aged(h) \in Hist
    BY DEF Hist, Aged
  <2>2. QED
    BY <1>1, <2>1 DEF TypeOK, Level0Done
<1>4. inLoop = FALSE
  BY <1>1 DEF TypeOK, Level0Done
<1>5. TypeOK'
  BY <1>1, <1>2, <1>3, <1>4, AfterType DEF TypeOK, Level0Done
<1>6. CountersAgree'
  BY <1>1 DEF CountersAgree, Level0Done, IsRunning
<1>7. BurstCovers'
  <2>1. \A l \in Upper : bucketIndex'[l] = bucketIndex[l]
    BY <1>1 DEF TypeOK, Level0Done
  <2>2. \A l \in Upper : ActiveBucket(l)' = ActiveBucket(l) /\ ~Working(l)' /\ ~Working(l)
    BY <1>4, <2>1 DEF ActiveBucket, Bucket, Working, Level0Done
  <2>3. QED
    BY <1>1, <2>2 DEF BurstCovers, Level0Done
<1>8. QED
  BY <1>5, <1>6, <1>7 DEF IInv

\* OnTick is called, or a callback returns to it: no timer moves.
LEMMA QuietInv == IInv /\ (OnTick \/ CbReturn) => IInv'
<1> SUFFICES ASSUME IInv, OnTick \/ CbReturn PROVE IInv'
  OBVIOUS
<1>1. TypeOK /\ CountersAgree /\ BurstCovers /\ 0 \in Levels
  BY WheelAssumption DEF IInv, Levels
<1>2. UNCHANGED <<bucketIndex, cntState, cntPerIte, slot, ticksLeft, totalEvents,
                  inLoop, cnt, hist>>
  BY DEF OnTick, CbReturn
<1>3. NoCallback \in [on : BOOLEAN, h : Hist]
  BY WheelAssumption DEF NoCallback, NoHist, Hist, Levels
<1>4. cb' \in [on : BOOLEAN, h : Hist]
  BY <1>1, <1>3 DEF TypeOK, OnTick, CbReturn
<1>5. /\ level' \in Levels \cup {Idle} /\ (inLoop => level' = level)
  BY <1>1, WheelAssumption DEF TypeOK, OnTick, CbReturn, Upper, Idle
<1>6. TypeOK'
  BY <1>1, <1>2, <1>4, <1>5 DEF TypeOK
<1>7. CountersAgree'
  BY <1>1, <1>2 DEF CountersAgree, IsRunning
<1>8. BurstCovers'
  <2>1. \A l \in Upper : ActiveBucket(l)' = ActiveBucket(l) /\ (Working(l)' <=> Working(l))
    BY <1>2, <1>5 DEF ActiveBucket, Bucket, Working
  <2>2. QED
    BY <1>1, <1>2, <2>1 DEF BurstCovers
<1>9. QED
  BY <1>6, <1>7, <1>8 DEF IInv

\* Every step of the wheel keeps the invariant.
LEMMA NextInv == IInv /\ [Next]_vars => IInv'
<1> SUFFICES ASSUME IInv, [Next]_vars PROVE IInv'
  OBVIOUS
<1>1. CASE OnTick \/ CbReturn
  BY <1>1, QuietInv
<1>2. CASE \E t \in Timers : Level0Pop(t)
  BY <1>2, Pop0Inv
<1>3. CASE Level0Done
  BY <1>3, Done0Inv
<1>4. CASE \E l \in Upper : LevelSkip(l) \/ LevelExit(l)
  BY <1>4, LeaveInv
<1>5. CASE \E l \in Upper : LevelEnter(l)
  BY <1>5, EnterInv
<1>6. CASE \E l \in Upper, t \in Timers : LevelPop(l, t)
  BY <1>6, PopInv
<1>7. CASE \E t \in Timers : Stop(t)
  BY <1>7, StopInv
<1>8. CASE \E t \in Timers, n \in StartTicks : Start(t, n)
  BY <1>8, StartInv, WheelAssumption DEF Start, Ticks
<1>9. CASE \E t \in Timers, n \in CbTicks : CbStart(t, n)
  BY <1>9, StartInv, WheelAssumption DEF CbStart, Ticks
<1>10. CASE UNCHANGED vars
  <2>1. TypeOK'
    BY <1>10 DEF vars, IInv, TypeOK
  <2>2. CountersAgree'
    BY <1>10 DEF vars, IInv, CountersAgree, IsRunning
  <2>3. BurstCovers'
    <3>1. \A l \in Upper : ActiveBucket(l)' = ActiveBucket(l) /\ (Working(l)' <=> Working(l))
      BY <1>10 DEF vars, ActiveBucket, Bucket, Working
    <3>2. QED
      BY <1>10, <3>1 DEF vars, IInv, BurstCovers
  <2>4. QED
    BY <2>1, <2>2, <2>3 DEF IInv
<1>11. QED
  BY <1>1, <1>2, <1>3, <1>4, <1>5, <1>6, <1>7, <1>8, <1>9, <1>10 DEF Next, TickStep

\* The invariant holds in every reachable state of the wheel.
THEOREM Invariance == Spec => []IInv
BY InitInv, NextInv, PTL DEF Spec

\* The fields of the wheel keep their ranges (timerw.go, all of OnTick, Start
\* and Stop), for wheels of any size and any number of levels.
THEOREM TypeCorrect == Spec => []TypeOK
<1>1. IInv => TypeOK
  BY DEF IInv
<1>2. QED
  BY Invariance, <1>1, PTL

\* ActiveTimers() is the number of timers linked in a bucket, at all times.
THEOREM ActiveTimersExact == Spec => []CountersAgree
<1>1. IInv => CountersAgree
  BY DEF IInv
<1>2. QED
  BY Invariance, <1>1, PTL

\* The bursts of onTickLevel always cover what is left in the active bucket.
THEOREM BurstsSuffice == Spec => []BurstCovers
<1>1. IInv => BurstCovers
  BY DEF IInv
<1>2. QED
  BY Invariance, <1>1, PTL

\* No wheel turns past a bucket that still holds timers: nextTick is reached
\* only with the active bucket empty, whatever callbacks do during the bursts.
THEOREM NothingLeftBehind == Spec => NoTimerLeftBehind
<1> DEFINE A == \A l \in Levels : bucketIndex'[l] # bucketIndex[l] => ActiveBucket(l) = {}
<1>1. IInv /\ [Next]_vars => [A]_vars
  <2> SUFFICES ASSUME IInv, Next PROVE A
    OBVIOUS
  <2>1. CASE \E l \in Upper : LevelSkip(l) \/ LevelExit(l)
    <3>1. PICK l \in Upper : LevelSkip(l) \/ LevelExit(l)
      BY <2>1
    <3>2. /\ level = l /\ LevelInc(l) /\ level' = After(l) /\ inLoop' = FALSE
          /\ UNCHANGED <<cntPerIte, slot>>
          /\ ActiveBucket(l) = {} \/ (inLoop /\ BurstDone(l))
      BY <3>1 DEF LevelSkip, LevelExit, IInv, TypeOK
    <3>3. QED
      BY <3>2, LeaveLevel
  <2>2. CASE Level0Done
    BY <2>2 DEF Level0Done, IInv, TypeOK
  <2>3. CASE UNCHANGED bucketIndex
    BY <2>3
  <2>4. QED
    BY <2>1, <2>2, <2>3
       DEF Next, TickStep, OnTick, CbReturn, Level0Pop, LevelEnter, LevelPop, Stop,
           Start, CbStart, DoStart
<1>2. QED
  BY Invariance, <1>1, PTL DEF Spec, NoTimerLeftBehind
=============================================================================
