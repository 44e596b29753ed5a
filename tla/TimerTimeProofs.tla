--------------------------- MODULE TimerTimeProofs ---------------------------
(***************************************************************************)
(* Callbacks are called on time.  The age at which a bucket becomes active *)
(* does not change while the wheels turn: every tick adds one to the age   *)
(* of a timer and takes one from the ticks its wheel has to go.  Pending   *)
(* accounts for the moment between the two in one tick.                    *)
(***************************************************************************)
EXTENDS TimerWheelProofs

\* the rounding of the ticks asked for does not overflow
Timely(h) == h.asked + CntDiv[LastLevel] <= TickMod

\* this tick, at level lv, has aged the timers and has not yet moved wheel l
Pending(l, lv) == IF lv \in 1 .. l THEN 1 ELSE 0

\* the age at which the bucket that is d ahead of the cursor becomes active, cs
\* being the ticks spent in the active buckets
ActiveAt(l, d, h, cs, lv) == h.age + d * CntDiv[l] - cs[l] - Pending(l, lv)

\* where that age has to be, with left ticks still to go after this bucket
Window(l, left, h, x) ==
    LET last == CntDiv[LastLevel]
    IN  IF left # 0
        THEN /\ l = LastLevel /\ left <= h.asked /\ (h.hops = 0 => h.wheel = l)
             /\ h.asked - left - last <= x /\ x <= h.asked - left
        ELSE IF h.hops = 0
        THEN h.wheel = l /\ h.asked - 2 * CntDiv[l] <= x /\ x <= h.asked
        ELSE h.asked - 2 * last <= x /\ x + CntDiv[l] <= h.asked + 2 * last

OnTime0(b, h, bi) ==
    /\ h.asked < WheelSize /\ h.age <= h.asked
    /\ b = (bi[0] + (h.asked - h.age)) % WheelSize

OnTimeUp(l, b, left, h, bi, cs, lv) ==
    /\ h.asked >= WheelSize
    /\ \E d \in Offsets :
          /\ b = (bi[l] + d) % WheelSize
          /\ Window(l, left, h, ActiveAt(l, d, h, cs, lv))

\* a timer in the slot s with left ticks to go, when the cursors are bi
OnTimeAt(s, left, h, bi, cs, lv) ==
    IF s[1] = 0 THEN OnTime0(s[2], h, bi) ELSE OnTimeUp(s[1], s[2], left, h, bi, cs, lv)

OnTime(t) ==
    IsRunning(t) /\ Timely(hist[t]) =>
        OnTimeAt(slot[t], ticksLeft[t], hist[t], bucketIndex, cntState, level)

TimeInv == \A t \in Timers : OnTime(t)

\* The assumptions without the products: most steps below are linear.
LEMMA Plain ==
    /\ WheelSize \in Nat /\ WheelSize >= 2
    /\ MaxLevels \in Nat /\ MaxLevels >= 2
    /\ TickMod \in Nat /\ TickMod > 0 /\ MaxAge \in Nat
BY WheelAssumption

\* The buckets get longer from level to level, at least by a factor of two.
LEMMA CntDivs ==
    /\ LastLevel \in Upper /\ LastLevel \in Nat /\ Upper \subseteq Levels /\ 0 \in Levels
    /\ CntDiv[LastLevel] \in Nat /\ 1 \in Upper /\ 0 \notin Upper
    /\ \A l \in Upper : /\ CntDiv[l] \in Nat /\ CntDiv[l] > 0
                        /\ l # LastLevel => 2 * CntDiv[l] <= CntDiv[LastLevel]
<1>1. /\ LastLevel \in Upper /\ LastLevel \in Nat /\ Upper \subseteq Levels /\ 0 \in Levels
      /\ 1 \in Upper /\ 0 \notin Upper
  BY WheelAssumption DEF LastLevel, Upper, Levels
<1>2. \A l \in Upper : CntDiv[l] \in Nat /\ CntDiv[l] > 0
  BY WheelAssumption
<1>3. ASSUME NEW l \in Upper, l # LastLevel PROVE 2 * CntDiv[l] <= CntDiv[LastLevel]
  <2> DEFINE T == {m \in Upper : m > l /\ ~(2 * CntDiv[l] <= CntDiv[m])}
  <2>1. LastLevel > l /\ l \in Nat /\ Upper \subseteq Nat
    BY <1>1, <1>3, WheelAssumption DEF Upper, LastLevel
  <2>2. SUFFICES ASSUME T # {} PROVE FALSE
    BY <1>1, <2>1
  <2>3. PICK m \in T : \A y \in T : m <= y
    BY <2>1, <2>2, NatMin
  <2>4. m - 1 \in Upper /\ m \in Upper \ {1}
    BY <1>1, <2>1, <2>3, WheelAssumption DEF Upper
  <2>5. CntDiv[m] = LevelDiv * CntDiv[m - 1] /\ LevelDiv \in Nat /\ LevelDiv >= 2
    BY <2>4, WheelAssumption, TimingAssumption
  <2> DEFINE a == CntDiv[m - 1]
  <2>6. a \in Nat /\ a > 0 /\ CntDiv[m] = LevelDiv * a
    BY <1>2, <2>4, <2>5
  <2> HIDE DEF a
  <2>7. CntDiv[m] >= 2 * a
    BY <2>5, <2>6
  <2>8. m - 1 \notin T
    BY <2>1, <2>3, <2>4
  <2>9. CASE m - 1 = l
    BY <2>3, <2>6, <2>7, <2>9 DEF a
  <2>10. CASE m - 1 # l
    <3>1. m - 1 > l
      BY <2>1, <2>3, <2>4, <2>10
    <3>2. 2 * CntDiv[l] <= a
      BY <2>4, <2>8, <3>1 DEF a
    <3> QED BY <1>2, <2>3, <2>6, <2>7, <3>2
  <2> QED BY <2>9, <2>10
<1> QED BY <1>1, <1>2, <1>3

\* A quotient that is rounded up covers what was divided, by less than one unit.
LEMMA RoundUp ==
    ASSUME NEW n \in Nat, n > 0, NEW d \in Nat, d > 0
    PROVE  /\ (n + (d - 1)) \div d \in Nat /\ (n + (d - 1)) \div d > 0
           /\ n <= ((n + (d - 1)) \div d) * d
           /\ ((n + (d - 1)) \div d) * d < n + d
<1> DEFINE k == (n + (d - 1)) \div d
<1>1. k \in Nat /\ k * d <= n + (d - 1) /\ n + (d - 1) < k * d + d
  OBVIOUS
<1> HIDE DEF k
<1>2. k > 0
  BY <1>1
<1> QED BY <1>1, <1>2 DEF k

\* restart without overflow: a full turn of the last wheel, or the first bucket
\* that covers the ticks, but at least the next one.
LEMMA RestartTimes ==
    ASSUME NEW ticks \in Ticks, ticks > 0, ticks + CntDiv[LastLevel] <= TickMod
    PROVE  LET p == Restart(ticks)
               d == CntDiv[p.wheel]
           IN  \/ /\ p.left > 0 /\ p.wheel = LastLevel /\ p.off = WheelSize - 1
                  /\ p.left = ticks - (WheelSize - 1) * d
               \/ /\ p.left = 0 /\ ticks <= (p.off + 1) * d
                  /\ \/ (p.off + 1) * d < ticks + d
                     \/ p.off = 1 /\ ticks <= d /\ ticks < WheelSize
<1> DEFINE fits == {l \in Upper : NTicks(l, ticks) < WheelSize}
           last == CntDiv[LastLevel]
<1>0. /\ LastLevel \in Upper /\ last \in Nat /\ last > 0 /\ Upper \subseteq Nat
      /\ WheelSize \in Nat /\ WheelSize >= 2 /\ TickMod \in Nat \ {0}
      /\ ticks \in Nat /\ LevelDiv \in Nat /\ LevelDiv < WheelSize
  BY WheelAssumption, TimingAssumption, CntDivs DEF Upper, Ticks
<1>1. ASSUME NEW l \in Upper
      PROVE  /\ NTicks(l, ticks) = (ticks + (CntDiv[l] - 1)) \div CntDiv[l]
             /\ NTicks(l, ticks) \in Nat /\ NTicks(l, ticks) > 0
             /\ ticks <= NTicks(l, ticks) * CntDiv[l]
             /\ NTicks(l, ticks) * CntDiv[l] < ticks + CntDiv[l]
  <2>1. CntDiv[l] \in Nat /\ CntDiv[l] > 0 /\ CntDiv[l] <= last
    BY CntDivs
  <2>2. (ticks + (CntDiv[l] - 1)) % TickMod = ticks + (CntDiv[l] - 1)
    <3> DEFINE x == ticks + (CntDiv[l] - 1)
    <3>1. x \in Nat /\ x < TickMod
      BY <1>0, <2>1
    <3> HIDE DEF x
    <3>2. x % TickMod = x
      BY <1>0, <3>1
    <3> QED BY <3>2 DEF x
  <2>3. NTicks(l, ticks) = (ticks + (CntDiv[l] - 1)) \div CntDiv[l]
    BY <2>2 DEF NTicks
  <2> QED BY <1>0, <2>1, <2>3, RoundUp
<1>2. CASE fits = {}
  <2>1. Restart(ticks) = [wheel |-> LastLevel, off |-> WheelSize - 1,
                          left |-> ticks - (WheelSize - 1) * last]
    BY <1>2 DEF Restart
  <2> DEFINE k == NTicks(LastLevel, ticks)
  <2>2. k \in Nat /\ k >= WheelSize /\ k * last < ticks + last
    BY <1>0, <1>1, <1>2
  <2> HIDE DEF k, last
  <2>3. WheelSize * last <= k * last
    BY <1>0, <2>2
  <2>4. ticks - (WheelSize - 1) * last > 0
    BY <1>0, <2>2, <2>3
  <2> QED BY <1>0, <2>1, <2>4 DEF last
<1>3. CASE fits # {}
  <2>1. \E l \in fits : \A y \in fits : l <= y
    BY <1>0, <1>3, NatMin
  <2> DEFINE l == CHOOSE x \in fits : \A y \in fits : x <= y
  <2>2. l \in fits /\ \A y \in fits : l <= y
    BY <2>1
  <2>3. Restart(ticks) = [wheel |-> l, off |-> AtLeast2(NTicks(l, ticks)) - 1, left |-> 0]
    BY <1>3 DEF Restart
  <2> HIDE DEF l
  <2> DEFINE d == CntDiv[l]
             k == NTicks(l, ticks)
  <2>4. /\ l \in Upper /\ d \in Nat /\ d > 0
        /\ k \in Nat /\ k > 0 /\ ticks <= k * d /\ k * d < ticks + d
    BY <1>1, <2>2, CntDivs
  <2>5. ticks >= WheelSize => ticks > d
    <3> SUFFICES ASSUME ticks >= WheelSize PROVE ticks > d
      OBVIOUS
    <3>1. CASE l = 1
      BY <1>0, <3>1, WheelAssumption
    <3>2. CASE l # 1
      <4>1. l - 1 \in Upper /\ l \in Upper \ {1} /\ l \in Nat
        BY <1>0, <2>4, <3>2, WheelAssumption DEF Upper
      <4> DEFINE e == CntDiv[l - 1]
                 j == NTicks(l - 1, ticks)
      <4>2. d = LevelDiv * e
        BY <4>1, WheelAssumption
      <4>3. e \in Nat /\ e > 0 /\ j \in Nat /\ j * e < ticks + e
        BY <1>1, <4>1, CntDivs
      <4>4. ~(j < WheelSize)
        BY <2>2, <4>1
      <4> HIDE DEF e, j, d
      <4>5. j * e >= WheelSize * e
        BY <1>0, <4>3, <4>4
      <4>6. LevelDiv * e <= (WheelSize - 1) * e
        BY <1>0, <4>3
      <4>7. (WheelSize - 1) * e = WheelSize * e - e
        BY <1>0, <4>3
      <4> QED BY <1>0, <4>2, <4>3, <4>5, <4>6, <4>7
    <3> QED BY <3>1, <3>2
  <2>6. CASE k >= 2
    <3>1. AtLeast2(k) - 1 + 1 = k
      BY <2>4, <2>6 DEF AtLeast2
    <3> HIDE DEF k, d
    <3> QED BY <2>3, <2>4, <2>6, <3>1 DEF k, d
  <2>7. CASE k = 1
    <3>1. AtLeast2(k) - 1 = 1
      BY <2>7 DEF AtLeast2
    <3> HIDE DEF k, d
    <3>2. ticks <= d /\ ticks < WheelSize
      BY <1>0, <2>4, <2>5, <2>7
    <3> QED BY <1>0, <2>3, <2>4, <3>1, <3>2 DEF k, d
  <2> QED BY <2>4, <2>6, <2>7, SMTT(30)
<1> QED BY <1>2, <1>3

\* The cursor moves on by one bucket, and what was d ahead is d - 1 ahead.
LEMMA CursorTurns ==
    ASSUME NEW b \in Offsets, NEW d \in Offsets, d # 0
    PROVE  (NextBucket(b) + (d - 1)) % WheelSize = (b + d) % WheelSize
<1>1. WheelSize \in Nat /\ WheelSize >= 2 /\ b \in Nat /\ d \in Nat /\ b < WheelSize
      /\ d < WheelSize /\ d >= 1
  BY Plain DEF Offsets
<1>2. CASE b + 1 = WheelSize
  <2>1. NextBucket(b) = 0
    BY <1>1, <1>2 DEF NextBucket
  <2>2. (b + d) % WheelSize = d - 1 /\ (d - 1) % WheelSize = d - 1
    BY <1>1, <1>2
  <2> QED BY <1>1, <2>1, <2>2
<1>3. CASE b + 1 < WheelSize
  <2>1. NextBucket(b) = b + 1
    BY <1>1, <1>3 DEF NextBucket
  <2> QED BY <1>1, <2>1
<1> QED BY <1>1, <1>2, <1>3

\* Only the distance 0 is the cursor's own bucket.
LEMMA CursorStays ==
    ASSUME NEW b \in Offsets, NEW d \in Offsets
    PROVE  (b + d) % WheelSize = b <=> d = 0
<1>1. WheelSize \in Nat /\ b % WheelSize = b /\ b \in Nat /\ (d # 0 => d \in 1 .. WheelSize - 1)
  BY Plain DEF Offsets
<1>2. CASE d = 0
  BY <1>1, <1>2
<1>3. CASE d # 0
  BY <1>1, <1>3, CursorMoves DEF Offsets
<1> QED BY <1>2, <1>3

Cursors == [Levels -> Offsets]
Spent == {cs \in [Upper -> Nat] : \A l \in Upper : cs[l] < CntDiv[l]}

\* wheel l stands in the two states as far as its timers can tell
Alike(l, bi, cs, lv, bj, ct, lw) ==
    bj[l] = bi[l] /\ (l # 0 => ct[l] = cs[l] /\ Pending(l, lw) = Pending(l, lv))

\* Whether a timer is on time depends on its own wheel only.
LEMMA SameWheel ==
    ASSUME NEW s, NEW left, NEW h, NEW bi, NEW cs, NEW lv, NEW bj, NEW ct, NEW lw,
           Alike(s[1], bi, cs, lv, bj, ct, lw), OnTimeAt(s, left, h, bi, cs, lv)
    PROVE  OnTimeAt(s, left, h, bj, ct, lw)
<1>0. bj[s[1]] = bi[s[1]]
  BY DEF Alike
<1>1. CASE s[1] = 0
  BY <1>0, <1>1 DEF OnTimeAt, OnTime0
<1>2. CASE s[1] # 0
  <2>1. \A d : ActiveAt(s[1], d, h, ct, lw) = ActiveAt(s[1], d, h, cs, lv)
    BY <1>2 DEF ActiveAt, Alike
  <2>2. OnTimeUp(s[1], s[2], left, h, bi, cs, lv)
    BY <1>2 DEF OnTimeAt
  <2>3. OnTimeUp(s[1], s[2], left, h, bj, ct, lw)
    BY <1>0, <2>1, <2>2 DEF OnTimeUp
  <2> QED BY <1>2, <2>3 DEF OnTimeAt
<1> QED BY <1>1, <1>2

\* What the state of the wheels says about the active bucket of a level.
LEMMA AheadBounds ==
    ASSUME NEW bi \in Cursors, NEW cs \in Spent, NEW lv, NEW l \in Upper
    PROVE  /\ bi[l] \in Offsets /\ CntDiv[l] \in Nat /\ CntDiv[l] > 0
           /\ cs[l] \in Nat /\ cs[l] < CntDiv[l]
           /\ Pending(l, lv) \in {0, 1}
           /\ lv = l => Pending(l, lv) = 1
<1>1. l \in Levels /\ l \in Nat /\ l >= 1
  BY CntDivs, Plain DEF Upper
<1> QED BY <1>1, CntDivs DEF Cursors, Spent, Pending

\* Start puts a timer where it will be popped on time.
LEMMA PlacedOnTime ==
    ASSUME NEW bi \in Cursors, NEW cs \in Spent, NEW lv,
           NEW n \in Ticks, n + CntDiv[LastLevel] <= TickMod, NEW p, p = Placement(n),
           NEW h, h = [asked |-> n, age |-> 0, hops |-> 0, wheel |-> p.wheel]
    PROVE  OnTimeAt(<<p.wheel, (bi[p.wheel] + p.off) % WheelSize>>, p.left, h, bi, cs, lv)
<1> DEFINE l == p.wheel
           d == CntDiv[l]
           o == p.off
           s == <<p.wheel, (bi[p.wheel] + p.off) % WheelSize>>
<1>1. /\ l \in Levels /\ p.off \in Offsets /\ p.left \in Ticks /\ n \in Nat
      /\ h.asked = n /\ h.age = 0 /\ h.hops = 0 /\ h.wheel = l
      /\ WheelSize \in Nat /\ WheelSize >= 2
  BY PlacementType, Plain DEF Ticks
<1>s. s[1] = l /\ s[2] = (bi[l] + o) % WheelSize
  OBVIOUS
<1> HIDE DEF s
<1>2. CASE n < WheelSize
  <2>1. p = [wheel |-> 0, off |-> n, left |-> 0]
    BY <1>2 DEF Placement
  <2>2. l = 0 /\ o = n /\ n - 0 = n
    BY <1>1, <2>1
  <2>3. OnTime0(s[2], h, bi)
    BY <1>1, <1>s, <1>2, <2>2 DEF OnTime0
  <2> QED BY <1>s, <2>2, <2>3 DEF OnTimeAt, s
<1>3. CASE n >= WheelSize
  <2>1. p = Restart(n) /\ n > 0
    BY <1>1, <1>3 DEF Placement
  <2>2. p.wheel \in Upper /\ p.off \in 1 .. WheelSize - 1
    BY <2>1, RestartType
  <2>3. \/ /\ p.left > 0 /\ l = LastLevel /\ p.off = WheelSize - 1
           /\ p.left = n - (WheelSize - 1) * d
        \/ /\ p.left = 0 /\ n <= (p.off + 1) * d
           /\ (p.off + 1) * d < n + d
    BY <1>1, <1>3, <2>1, RestartTimes
  <2> DEFINE c == cs[l]
             x == ActiveAt(l, o, h, cs, lv)
  <2>4. /\ d \in Nat /\ d > 0 /\ c \in Nat /\ c < d /\ Pending(l, lv) \in {0, 1}
        /\ x = 0 + o * d - c - Pending(l, lv) /\ o \in Nat /\ o >= 1
    BY <1>1, <2>2, AheadBounds DEF ActiveAt
  <2> HIDE DEF d, c, x, o
  <2>5. /\ x \in Int /\ (o + 1) * d = o * d + d /\ o * d \in Nat
        /\ o * d - d <= x /\ x <= o * d
    BY <2>4
  <2>6. Window(l, p.left, h, x)
    <3>1. CASE p.left > 0
      <4>1. l = LastLevel /\ o = WheelSize - 1 /\ p.left = n - (WheelSize - 1) * d /\ p.left \in Nat
        BY <1>1, <2>3, <3>1 DEF o, Ticks
      <4>2. o * d = n - p.left
        BY <1>1, <2>5, <4>1
      <4>3. d = CntDiv[LastLevel]
        BY <4>1 DEF d
      <4>4. p.left <= n
        BY <1>1, <2>5, <4>1, <4>2
      <4> QED BY <1>1, <2>5, <3>1, <4>1, <4>2, <4>3, <4>4 DEF Window
    <3>2. CASE p.left = 0
      <4>1. n <= o * d + d /\ o * d < n
        BY <1>1, <2>3, <2>4, <2>5, <3>2 DEF o
      <4>2. n - 2 * d <= x /\ x <= n
        BY <1>1, <2>4, <2>5, <4>1
      <4> QED BY <1>1, <3>2, <4>2 DEF Window, d
    <3> QED BY <2>3, <3>1, <3>2
  <2>7. o \in Offsets /\ l # 0
    BY <1>1, <2>2, CntDivs DEF o
  <2>8. OnTimeUp(l, s[2], p.left, h, bi, cs, lv)
    BY <1>1, <1>s, <1>3, <2>6, <2>7 DEF OnTimeUp, x
  <2> QED BY <1>s, <2>7, <2>8 DEF OnTimeAt, s
<1> QED BY <1>1, <1>2, <1>3

\* A popped event with ticks left goes where the rest will be popped on time:
\* the full turns are exact, so that they do not add up to a delay.
LEMMA RequeuedOnTime ==
    ASSUME NEW bi \in Cursors, NEW cs \in Spent,
           NEW h \in Hist, Timely(h), h.asked >= WheelSize,
           NEW n \in Ticks, n # 0, NEW p, p = Restart(n),
           Window(LastLevel, n, h, ActiveAt(LastLevel, 0, h, cs, LastLevel))
    PROVE  OnTimeAt(<<p.wheel, (bi[p.wheel] + p.off) % WheelSize>>, p.left, Hopped(h),
                    bi, cs, LastLevel)
<1> DEFINE l == p.wheel
           d == CntDiv[l]
           o == p.off
           g == Hopped(h)
           last == CntDiv[LastLevel]
           s == <<p.wheel, (bi[p.wheel] + p.off) % WheelSize>>
           y == ActiveAt(LastLevel, 0, h, cs, LastLevel)
           x == ActiveAt(l, o, g, cs, LastLevel)
<1>1. /\ l \in Upper /\ o \in 1 .. WheelSize - 1 /\ p.left \in Ticks /\ n \in Nat /\ n > 0
      /\ g.asked = h.asked /\ g.age = h.age /\ g.hops # 0
      /\ h.asked \in Nat /\ h.age \in Nat
      /\ WheelSize \in Nat /\ WheelSize >= 2
  <2>1. l \in Upper /\ o \in 1 .. WheelSize - 1 /\ p.left \in Ticks
    BY RestartType
  <2>2. n \in Nat /\ n > 0 /\ h.asked \in Nat /\ h.age \in Nat
    BY Plain DEF Ticks, Hist
  <2>3. g.asked = h.asked /\ g.age = h.age /\ g.hops # 0
    BY DEF Hist, Hopped
  <2> QED BY <2>1, <2>2, <2>3, Plain
<1>s. s[1] = l /\ s[2] = (bi[l] + o) % WheelSize
  OBVIOUS
<1>2. /\ last \in Nat /\ last > 0 /\ cs[LastLevel] \in Nat /\ cs[LastLevel] < last
      /\ y = h.age + 0 * last - cs[LastLevel] - 1
  BY CntDivs, AheadBounds DEF ActiveAt
<1>3. /\ n <= h.asked /\ h.asked - n - last <= y /\ y <= h.asked - n
  BY <1>1 DEF Window
<1>4. \/ /\ p.left > 0 /\ l = LastLevel /\ o = WheelSize - 1
         /\ p.left = n - (WheelSize - 1) * d
      \/ /\ p.left = 0 /\ n <= (o + 1) * d
         /\ (o + 1) * d < n + d \/ (o = 1 /\ n <= d)
  <2>1. n + last <= TickMod
    BY <1>1, <1>2, <1>3, Plain DEF Timely
  <2> QED BY <1>1, <2>1, RestartTimes
<1>5. /\ d \in Nat /\ d > 0 /\ cs[l] \in Nat /\ cs[l] < d
      /\ l # LastLevel => 2 * d <= last
      /\ x = h.age + o * d - cs[l] - Pending(l, LastLevel)
  BY <1>1, CntDivs, AheadBounds DEF ActiveAt
<1>6. Pending(l, LastLevel) = IF l = LastLevel THEN 1 ELSE 0
  BY <1>1, CntDivs, Plain, SMTT(30) DEF Pending, Upper, LastLevel
<1>7. l = LastLevel => d = last
  OBVIOUS
<1> HIDE DEF s, l, d, o, last, y, x, g
<1>8. /\ o \in Nat /\ o >= 1 /\ o * d \in Nat /\ (o + 1) * d = o * d + d /\ x \in Int /\ y \in Int
      /\ y = h.age - cs[LastLevel] - 1 /\ (o = 1 => o * d = d)
  BY <1>1, <1>2, <1>5, <1>6, SMTT(30)
<1>9. \/ /\ p.left > 0 /\ p.left = n - o * d /\ l = LastLevel
      \/ /\ p.left = 0 /\ n <= o * d + d /\ (o * d < n \/ (o * d = d /\ n <= d))
  <2>1. CASE p.left > 0
    <3>1. l = LastLevel /\ o = WheelSize - 1 /\ p.left = n - (WheelSize - 1) * d
      BY <1>4, <2>1
    <3> QED BY <2>1, <3>1
  <2>2. CASE ~(p.left > 0)
    BY <1>1, <1>4, <1>5, <1>8, <2>2
  <2> QED BY <2>1, <2>2
<1>10. Window(l, p.left, g, x)
  <2>1. CASE p.left > 0
    <3>1. p.left = n - o * d /\ l = LastLevel /\ p.left \in Nat
      BY <1>9, <2>1, <1>1 DEF Ticks
    <3>2. x = y + o * d
      BY <1>1, <1>2, <1>5, <1>6, <1>7, <1>8, <3>1
    <3>3. p.left <= h.asked /\ h.asked - p.left - last <= x /\ x <= h.asked - p.left
      BY <1>1, <1>2, <1>3, <1>8, <3>1, <3>2
    <3> QED BY <1>1, <2>1, <3>1, <3>3 DEF Window, last
  <2>2. CASE p.left = 0 /\ l = LastLevel
    <3>1. n <= o * d + d /\ (o * d < n \/ (o * d = d /\ n <= d)) /\ d = last
      BY <1>7, <1>9, <2>2
    <3>2. x = y + o * d
      BY <1>1, <1>2, <1>5, <1>6, <1>7, <1>8, <2>2
    <3>3. h.asked - 2 * last <= x /\ x + d <= h.asked + 2 * last
      BY <1>1, <1>2, <1>3, <1>8, <3>1, <3>2
    <3> QED BY <1>1, <2>2, <3>3 DEF Window, last, d
  <2>3. CASE p.left = 0 /\ l # LastLevel
    <3>1. n <= o * d + d /\ (o * d < n \/ (o * d = d /\ n <= d)) /\ 2 * d <= last
      BY <1>5, <1>9, <2>3
    <3>2. x = h.age + o * d - cs[l]
      BY <1>1, <1>5, <1>6, <1>8, <2>3
    <3>3. h.asked - n - last + 1 <= h.age /\ h.age <= h.asked - n + last
      BY <1>1, <1>2, <1>3, <1>8
    <3>4. h.asked - 2 * last <= x /\ x + d <= h.asked + 2 * last
      BY <1>1, <1>2, <1>5, <1>8, <3>1, <3>2, <3>3
    <3> QED BY <1>1, <2>3, <3>4 DEF Window, last, d
  <2> QED BY <1>9, <2>1, <2>2, <2>3
<1>11. o \in Offsets /\ l # 0
  BY <1>1, CntDivs DEF Offsets
<1>12. OnTimeUp(l, s[2], p.left, g, bi, cs, LastLevel)
  BY <1>1, <1>s, <1>10, <1>11 DEF OnTimeUp, x
<1> QED BY <1>s, <1>11, <1>12 DEF OnTimeAt, s, g

\* onTickLevelInc moves wheel l by a tick: what this takes from the ticks to go
\* is what the tick had added to the age.
LEMMA TurnedOnTime ==
    ASSUME NEW bi \in Cursors, NEW cs \in Spent, NEW l \in Upper,
           NEW s \in Levels \X Offsets, NEW left, NEW h \in Hist,
           OnTimeAt(s, left, h, bi, cs, l),
           NEW bj, NEW ct, NEW wrap, wrap = (cs[l] + 1 = CntDiv[l]),
           wrap => s # <<l, bi[l]>>,
           ct = [cs EXCEPT ![l] = IF wrap THEN 0 ELSE @ + 1],
           bj = [bi EXCEPT ![l] = IF wrap THEN NextBucket(@) ELSE @]
    PROVE  OnTimeAt(s, left, h, bj, ct, After(l))
<1>1. /\ l \in Levels /\ l \in Nat /\ l >= 1 /\ l <= LastLevel /\ LastLevel \in Nat
      /\ s[1] \in Levels /\ s[1] \in Nat /\ s[1] <= LastLevel /\ s[2] \in Offsets
  BY CntDivs, Plain DEF Upper, Levels, LastLevel
<1>2. CASE s[1] # l
  <2>1. bj[s[1]] = bi[s[1]]
    BY <1>1, <1>2 DEF Cursors
  <2>2. s[1] # 0 => ct[s[1]] = cs[s[1]] /\ Pending(s[1], After(l)) = Pending(s[1], l)
    <3> SUFFICES ASSUME s[1] # 0
                 PROVE  ct[s[1]] = cs[s[1]] /\ Pending(s[1], After(l)) = Pending(s[1], l)
      OBVIOUS
    <3>1. s[1] \in Upper
      BY <1>1, Plain DEF Upper, Levels
    <3>2. ct[s[1]] = cs[s[1]]
      BY <1>2, <3>1 DEF Spent
    <3>3. After(l) \in 1 .. s[1] <=> l \in 1 .. s[1]
      BY <1>1, <1>2 DEF After, Idle
    <3> QED BY <3>2, <3>3 DEF Pending
  <2>3. Alike(s[1], bi, cs, l, bj, ct, After(l))
    BY <2>1, <2>2 DEF Alike
  <2> QED BY <2>3, SameWheel
<1>3. CASE s[1] = l
  <2>1. l # 0 /\ OnTimeUp(l, s[2], left, h, bi, cs, l)
    BY <1>1, <1>3 DEF OnTimeAt
  <2>2. PICK d \in Offsets : /\ s[2] = (bi[l] + d) % WheelSize
                             /\ Window(l, left, h, ActiveAt(l, d, h, cs, l))
    BY <2>1 DEF OnTimeUp
  <2>3. /\ bi[l] \in Offsets /\ CntDiv[l] \in Nat /\ CntDiv[l] > 0 /\ cs[l] \in Nat
        /\ Pending(l, l) = 1 /\ h.age \in Nat /\ d \in Nat
    <3>1. h.age \in Nat /\ d \in Nat
      BY Plain DEF Hist, Offsets
    <3>2. Pending(l, l) = 1
      BY <1>1 DEF Pending
    <3>3. bi[l] \in Offsets /\ CntDiv[l] \in Nat /\ CntDiv[l] > 0 /\ cs[l] \in Nat
      BY AheadBounds
    <3> QED BY <3>1, <3>2, <3>3
  <2>4. Pending(l, After(l)) = 0
    BY <1>1 DEF Pending, After, Idle
  <2>5. ct[l] = (IF wrap THEN 0 ELSE cs[l] + 1) /\ bj[l] = IF wrap THEN NextBucket(bi[l]) ELSE bi[l]
    BY <1>1 DEF Spent, Cursors
  <2>6. CASE ~wrap
    <3>1. ActiveAt(l, d, h, ct, After(l)) = ActiveAt(l, d, h, cs, l)
      <4> DEFINE z == d * CntDiv[l]
      <4>1. z \in Nat
        BY <2>3
      <4>2. /\ ActiveAt(l, d, h, ct, After(l)) = h.age + z - (cs[l] + 1) - 0
            /\ ActiveAt(l, d, h, cs, l) = h.age + z - cs[l] - 1
        BY <2>3, <2>4, <2>5, <2>6 DEF ActiveAt
      <4> HIDE DEF z
      <4> QED BY <2>3, <4>1, <4>2
    <3>2. s[2] = (bj[l] + d) % WheelSize
      BY <2>2, <2>5, <2>6
    <3>3. OnTimeUp(l, s[2], left, h, bj, ct, After(l))
      BY <2>1, <2>2, <3>1, <3>2 DEF OnTimeUp
    <3> QED BY <1>3, <2>1, <3>3 DEF OnTimeAt
  <2>7. CASE wrap
    <3>1. d # 0
      <4>1. s = <<s[1], s[2]>>
        OBVIOUS
      <4> QED BY <1>3, <2>2, <2>3, <2>7, <4>1, CursorStays
    <3>2. s[2] = (bj[l] + (d - 1)) % WheelSize /\ d - 1 \in Offsets
      <4>1. d - 1 \in Offsets
        BY <3>1, Plain DEF Offsets
      <4>2. (NextBucket(bi[l]) + (d - 1)) % WheelSize = (bi[l] + d) % WheelSize
        BY <2>3, <3>1, CursorTurns
      <4> QED BY <2>2, <2>5, <2>7, <4>1, <4>2
    <3>3. ActiveAt(l, d - 1, h, ct, After(l)) = ActiveAt(l, d, h, cs, l)
      <4> DEFINE z == d * CntDiv[l]
                 v == (d - 1) * CntDiv[l]
      <4>0. ASSUME NEW a \in Nat, NEW b \in Nat
            PROVE  a * b \in Nat /\ (a - 1) * b = a * b - b /\ a * b - b \in Int
        OBVIOUS
      <4>1. z \in Nat /\ v = z - CntDiv[l] /\ cs[l] + 1 = CntDiv[l] /\ v \in Int
        BY <2>3, <2>7, <4>0
      <4>2. /\ ActiveAt(l, d - 1, h, ct, After(l)) = h.age + v - 0 - 0
            /\ ActiveAt(l, d, h, cs, l) = h.age + z - cs[l] - 1
        BY <2>3, <2>4, <2>5, <2>7 DEF ActiveAt
      <4> HIDE DEF z, v
      <4> QED BY <2>3, <4>1, <4>2
    <3>4. OnTimeUp(l, s[2], left, h, bj, ct, After(l))
      BY <2>1, <2>2, <3>2, <3>3 DEF OnTimeUp
    <3> QED BY <1>3, <2>1, <3>4 DEF OnTimeAt
  <2> QED BY <2>6, <2>7
<1> QED BY <1>2, <1>3

\* The end of onTickLevel0: the timers age, the wheel of level 0 turns, and the
\* upper wheels owe the tick to their timers.
LEMMA TickedOnTime ==
    ASSUME NEW bi \in Cursors, NEW cs \in Spent, NEW s \in Levels \X Offsets,
           NEW left \in Ticks, NEW h \in Hist, Timely(h),
           OnTimeAt(s, left, h, bi, cs, 0), s # <<0, bi[0]>>,
           NEW bj, bj = [bi EXCEPT ![0] = NextBucket(@)]
    PROVE  OnTimeAt(s, left, Aged(h), bj, cs, After(0))
<1> DEFINE g == Aged(h)
           last == CntDiv[LastLevel]
<1>1. /\ h.asked \in Nat /\ h.age \in Nat /\ h.asked < TickMod /\ TickMod \in Nat
      /\ WheelSize \in Nat /\ MaxAge \in Nat /\ last \in Nat
      /\ TickMod + 2 * last <= MaxAge /\ s[1] \in Levels /\ s[2] \in Offsets /\ left \in Nat
      /\ g.asked = h.asked /\ g.hops = h.hops /\ g.wheel = h.wheel
      /\ g.age = (IF h.age < MaxAge THEN h.age + 1 ELSE h.age)
      /\ s = <<s[1], s[2]>>
  BY Plain, TimingAssumption, CntDivs, SMTT(30) DEF Hist, Ticks, Aged
<1> HIDE DEF g, last
<1>2. CASE s[1] = 0
  <2> DEFINE r == h.asked - h.age
  <2>1. OnTime0(s[2], h, bi)
    BY <1>2 DEF OnTimeAt
  <2>2. /\ r \in Offsets /\ h.asked < WheelSize /\ h.age <= h.asked
        /\ s[2] = (bi[0] + r) % WheelSize
    BY <1>1, <2>1, SMTT(30) DEF OnTime0, Offsets
  <2>3. bi[0] \in Offsets /\ bj[0] = NextBucket(bi[0])
    BY CntDivs DEF Cursors
  <2>4. r # 0
    BY <1>1, <1>2, <2>2, <2>3, CursorStays
  <2>5. h.age < h.asked /\ g.age = h.age + 1 /\ r - 1 = g.asked - g.age
    BY <1>1, <2>2, <2>4
  <2> HIDE DEF r
  <2>6. s[2] = (bj[0] + (r - 1)) % WheelSize
    BY <2>2, <2>3, <2>4, CursorTurns
  <2>7. OnTime0(s[2], g, bj)
    BY <1>1, <2>2, <2>5, <2>6 DEF OnTime0
  <2> QED BY <1>2, <2>7 DEF OnTimeAt, g
<1>3. CASE s[1] # 0
  <2> DEFINE l == s[1]
  <2>1. l \in Upper /\ l \in Nat /\ l >= 1
    <3>1. \A i \in Levels : i # 0 => i \in Upper /\ i \in Nat /\ i >= 1
      BY Plain DEF Levels, Upper
    <3> QED BY <1>1, <1>3, <3>1
  <2>2. OnTimeUp(l, s[2], left, h, bi, cs, 0)
    BY <1>3 DEF OnTimeAt
  <2>3. PICK d \in Offsets : /\ s[2] = (bi[l] + d) % WheelSize
                             /\ Window(l, left, h, ActiveAt(l, d, h, cs, 0))
    BY <2>2 DEF OnTimeUp
  <2>4. /\ CntDiv[l] \in Nat /\ CntDiv[l] > 0 /\ CntDiv[l] <= last
        /\ cs[l] \in Nat /\ cs[l] < CntDiv[l] /\ d \in Nat
        /\ bj[l] = bi[l] /\ h.asked >= WheelSize
    BY <1>3, <2>1, <2>2, CntDivs, Plain, SMTT(30) DEF Spent, Offsets, Cursors, OnTimeUp, last
  <2>5. Pending(l, 0) = 0 /\ Pending(l, After(0)) = 1
    BY <2>1, Plain DEF Pending, After, LastLevel
  <2> DEFINE z == d * CntDiv[l]
             x == ActiveAt(l, d, h, cs, 0)
  <2>6. z \in Nat /\ x = h.age + z - cs[l] - 0
    BY <2>4, <2>5 DEF ActiveAt
  <2>7. ActiveAt(l, d, g, cs, After(0)) = g.age + z - cs[l] - 1
    BY <2>5 DEF ActiveAt
  <2> HIDE DEF x, z
  <2>8. x <= h.asked \/ x + CntDiv[l] <= h.asked + 2 * last
    <3>1. x \in Int
      BY <1>1, <2>4, <2>6, SMTT(30)
    <3>2. Window(l, left, h, x)
      BY <2>3 DEF x
    <3> QED BY <1>1, <3>1, <3>2 DEF Window, last
  <2>9. h.age < MaxAge
    BY <1>1, <2>4, <2>6, <2>8, SMTT(30)
  <2>10. ActiveAt(l, d, g, cs, After(0)) = x
    BY <1>1, <2>4, <2>6, <2>7, <2>9, SMTT(30)
  <2>11. Window(l, left, g, x)
    BY <1>1, <2>3 DEF Window, x
  <2>12. OnTimeUp(l, s[2], left, g, bj, cs, After(0))
    BY <1>1, <2>3, <2>4, <2>10, <2>11 DEF OnTimeUp
  <2> QED BY <1>3, <2>12 DEF OnTimeAt, g
<1> QED BY <1>2, <1>3

\* how far from what was asked a callback may be called
Punctual(h) ==
    IF h.asked < WheelSize
    THEN h.age = h.asked
    ELSE /\ h.age > h.asked - 2 * Grain(h)
         /\ h.age <= h.asked + (IF h.hops = 0 THEN 1 ELSE 2) * Grain(h)

\* A timer that is on time and in the active bucket is punctual.
LEMMA FiredOnTime ==
    ASSUME NEW bi \in Cursors, NEW cs \in Spent, NEW l \in Levels, NEW left \in Ticks,
           NEW h \in Hist, OnTimeAt(<<l, bi[l]>>, left, h, bi, cs, l), l # 0 => left = 0
    PROVE  Punctual(h)
<1> DEFINE last == CntDiv[LastLevel]
<1>1. /\ h.asked \in Nat /\ h.age \in Nat /\ WheelSize \in Nat /\ bi[l] \in Offsets
      /\ last \in Nat
  BY Plain, CntDivs DEF Hist, Cursors
<1> HIDE DEF last
<1>2. CASE l = 0
  <2> DEFINE r == h.asked - h.age
  <2>1. OnTime0(bi[l], h, bi)
    BY <1>2 DEF OnTimeAt
  <2>2. /\ r \in Offsets /\ h.asked < WheelSize
        /\ bi[l] = (bi[l] + r) % WheelSize
    BY <1>1, <1>2, <2>1 DEF OnTime0, Offsets
  <2>3. r = 0
    BY <1>1, <2>2, CursorStays
  <2> QED BY <1>1, <2>2, <2>3 DEF Punctual
<1>3. CASE l # 0
  <2>1. l \in Upper /\ left = 0 /\ l \in Nat /\ l >= 1
    BY <1>3, Plain DEF Levels, Upper
  <2>2. OnTimeUp(l, bi[l], left, h, bi, cs, l)
    BY <1>3 DEF OnTimeAt
  <2>3. PICK d \in Offsets : /\ bi[l] = (bi[l] + d) % WheelSize
                             /\ Window(l, left, h, ActiveAt(l, d, h, cs, l))
    BY <2>2 DEF OnTimeUp
  <2>4. d = 0
    BY <1>1, <2>3, CursorStays
  <2>5. /\ CntDiv[l] \in Nat /\ CntDiv[l] > 0 /\ CntDiv[l] <= last
        /\ cs[l] \in Nat /\ cs[l] < CntDiv[l]
        /\ h.asked >= WheelSize /\ Pending(l, l) = 1
    BY <2>1, <2>2, CntDivs DEF Spent, OnTimeUp, last, Pending
  <2> DEFINE x == ActiveAt(l, d, h, cs, l)
  <2>6. x = h.age - cs[l] - 1
    BY <1>1, <2>4, <2>5 DEF ActiveAt
  <2> HIDE DEF x
  <2>7. Window(l, 0, h, x)
    BY <2>1, <2>3 DEF x
  <2>8. CASE h.hops = 0
    <3>1. Grain(h) = CntDiv[l] /\ h.asked - 2 * CntDiv[l] <= x /\ x <= h.asked
      BY <2>7, <2>8 DEF Window, Grain
    <3>2. h.age > h.asked - 2 * CntDiv[l] /\ h.age <= h.asked + 1 * CntDiv[l]
      BY <1>1, <2>5, <2>6, <3>1
    <3> QED BY <1>1, <2>5, <2>8, <3>1, <3>2 DEF Punctual
  <2>9. CASE h.hops # 0
    <3>1. Grain(h) = last /\ h.asked - 2 * last <= x /\ x + CntDiv[l] <= h.asked + 2 * last
      BY <2>7, <2>9 DEF Window, Grain, last
    <3>2. h.age > h.asked - 2 * last /\ h.age <= h.asked + 2 * last
      BY <1>1, <2>5, <2>6, <3>1
    <3> QED BY <1>1, <2>5, <2>9, <3>1, <3>2 DEF Punctual
  <2> QED BY <2>8, <2>9
<1> QED BY <1>2, <1>3

\* With TypeOK, the wheel's state is what the lemmas above speak of.
LEMMA WheelTyped ==
    ASSUME TypeOK
    PROVE  /\ bucketIndex \in Cursors /\ cntState \in Spent
           /\ \A t \in Timers : /\ ticksLeft[t] \in Ticks /\ hist[t] \in Hist
                                /\ IsRunning(t) => slot[t] \in Levels \X Offsets
BY DEF TypeOK, Cursors, Spent, Offsets, Ticks, IsRunning

\* FiresOnTime speaks of the callback that is under way.
LEMMA FiresAsAsked == FiresOnTime <=> (cb.on /\ Timely(cb.h) => Punctual(cb.h))
BY DEF FiresOnTime, Timely, Punctual

TInv == IInv /\ TimeInv /\ FiresOnTime

\* The wheels of a step that moves none of them, and calls no callback.
LEMMA StillInv ==
    ASSUME TypeOK, TimeInv, UNCHANGED <<bucketIndex, cntState>>,
           \A l \in Upper : Pending(l, level') = Pending(l, level),
           NEW T \in SUBSET Timers,
           \A u \in Timers \ T : /\ slot'[u] = slot[u] /\ ticksLeft'[u] = ticksLeft[u]
                                 /\ hist'[u] = hist[u],
           \A u \in T : OnTime(u)'
    PROVE  TimeInv'
<1> SUFFICES ASSUME NEW u \in Timers \ T PROVE OnTime(u)'
  BY DEF TimeInv
<1>1. slot'[u] = slot[u] /\ ticksLeft'[u] = ticksLeft[u] /\ hist'[u] = hist[u]
  OBVIOUS
<1> SUFFICES ASSUME IsRunning(u), Timely(hist[u])
             PROVE  OnTimeAt(slot[u], ticksLeft[u], hist[u], bucketIndex', cntState', level')
  BY <1>1 DEF OnTime, IsRunning
<1>2. OnTimeAt(slot[u], ticksLeft[u], hist[u], bucketIndex, cntState, level)
  BY DEF TimeInv, OnTime
<1>3. slot[u][1] \in Levels /\ (slot[u][1] # 0 => slot[u][1] \in Upper)
  <2>1. slot[u] \in Levels \X Offsets
    BY WheelTyped
  <2>2. \A i \in Levels : i # 0 => i \in Upper
    BY Plain DEF Levels, Upper
  <2> QED BY <2>1, <2>2
<1>4. Alike(slot[u][1], bucketIndex, cntState, level, bucketIndex', cntState', level')
  BY <1>3 DEF Alike
<1> QED BY <1>2, <1>4, SameWheel

\* Start and Stop.
LEMMA UsersOnTime ==
    ASSUME TInv, NEW t \in Timers, Stop(t) \/ \E n \in Ticks : DoStart(t, n)
    PROVE  TimeInv' /\ FiresOnTime'
<1>1. TypeOK /\ TimeInv /\ FiresOnTime
  BY DEF TInv, IInv
<1>2. /\ UNCHANGED <<bucketIndex, cntState, level, cb>>
      /\ \A u \in Timers \ {t} : /\ slot'[u] = slot[u] /\ ticksLeft'[u] = ticksLeft[u]
                                 /\ hist'[u] = hist[u]
  BY <1>1 DEF Stop, DoStart, TypeOK
<1>3. FiresOnTime'
  BY <1>1, <1>2, FiresAsAsked DEF FiresOnTime
<1>4. OnTime(t)'
  <2>1. CASE Stop(t)
    BY <1>1, <2>1 DEF Stop, TypeOK, OnTime, IsRunning
  <2>2. CASE \E n \in Ticks : DoStart(t, n)
    <3>1. PICK n \in Ticks : DoStart(t, n)
      BY <2>2
    <3> DEFINE p == Placement(n)
               h == [asked |-> n, age |-> 0, hops |-> 0, wheel |-> p.wheel]
    <3>2. /\ slot'[t] = SlotOf(p) /\ ticksLeft'[t] = p.left /\ hist'[t] = h
      BY <1>1, <3>1 DEF DoStart, TypeOK
    <3>3. h.asked = n
      OBVIOUS
    <3>4. SlotOf(p) = <<p.wheel, (bucketIndex[p.wheel] + p.off) % WheelSize>>
      BY DEF SlotOf
    <3>5. Timely(h) => n + CntDiv[LastLevel] <= TickMod
      BY <3>3 DEF Timely
    <3>6. bucketIndex \in Cursors /\ cntState \in Spent
      BY <1>1, WheelTyped
    <3>7. Timely(h) => OnTimeAt(SlotOf(p), p.left, h, bucketIndex, cntState, level)
      BY <3>4, <3>5, <3>6, PlacedOnTime
    <3> HIDE DEF p, h
    <3> QED BY <1>2, <3>2, <3>7 DEF OnTime
  <2> QED BY <2>1, <2>2
<1> DEFINE T == {t}
<1>20. /\ T \in SUBSET Timers /\ \A u \in T : OnTime(u)'
      /\ \A u \in Timers \ T : /\ slot'[u] = slot[u] /\ ticksLeft'[u] = ticksLeft[u]
                                 /\ hist'[u] = hist[u]
  BY <1>2, <1>4
<1>21. \A k \in Upper : Pending(k, level') = Pending(k, level)
  BY <1>2
<1> HIDE DEF T
<1> QED BY <1>1, <1>2, <1>3, <1>20, <1>21, StillInv

\* OnTick is called, a loop is entered, or a callback returns.
LEMMA QuietOnTime ==
    ASSUME TInv, OnTick \/ CbReturn \/ \E l \in Upper : LevelEnter(l)
    PROVE  TimeInv' /\ FiresOnTime'
<1>1. TypeOK /\ TimeInv /\ FiresOnTime
  BY DEF TInv, IInv
<1>2. /\ UNCHANGED <<bucketIndex, cntState, slot, ticksLeft, hist>>
      /\ cb' = cb \/ cb' = NoCallback
  BY DEF OnTick, CbReturn, LevelEnter
<1>3. \A l \in Upper : Pending(l, level') = Pending(l, level)
  BY DEF OnTick, CbReturn, LevelEnter, Pending, Idle
<1>4. FiresOnTime'
  <2>1. CASE cb' = cb
    BY <1>1, <2>1 DEF FiresOnTime
  <2>2. CASE cb' = NoCallback
    BY <2>2 DEF FiresOnTime, NoCallback
  <2> QED BY <1>2, <2>1, <2>2
<1> DEFINE T == {}
<1>5. T \in SUBSET Timers /\ \A u \in T : OnTime(u)'
  OBVIOUS
<1>6. TimeInv'
  BY <1>1, <1>2, <1>3, <1>5, StillInv
<1> QED BY <1>4, <1>6

\* A callback is called by the loop of level l.
LEMMA FireOnTime ==
    ASSUME TInv, NEW t \in Timers, NEW l \in Levels, level = l, t \in ActiveBucket(l),
           l # 0 => ticksLeft[t] = 0, Fire(t),
           UNCHANGED <<bucketIndex, cntState, ticksLeft, level>>
    PROVE  TimeInv' /\ FiresOnTime'
<1>1. TypeOK /\ TimeInv /\ FiresOnTime
  BY DEF TInv, IInv
<1>2. slot[t] = <<l, bucketIndex[l]>> /\ IsRunning(t)
  BY Plain DEF ActiveBucket, Bucket, IsRunning, NotRunning, Levels
<1>3. Timely(hist[t]) => Punctual(hist[t])
  <2> SUFFICES ASSUME Timely(hist[t]) PROVE Punctual(hist[t])
    OBVIOUS
  <2>1. OnTimeAt(<<l, bucketIndex[l]>>, ticksLeft[t], hist[t], bucketIndex, cntState, l)
    BY <1>1, <1>2 DEF TimeInv, OnTime
  <2>2. /\ bucketIndex \in Cursors /\ cntState \in Spent
        /\ ticksLeft[t] \in Ticks /\ hist[t] \in Hist
    BY <1>1, WheelTyped
  <2> QED BY <2>1, <2>2, FiredOnTime
<1>4. cb'.h = hist[t]
  BY DEF Fire
<1>5. FiresOnTime'
  BY <1>3, <1>4 DEF FiresOnTime, Timely, Punctual
<1>6. /\ OnTime(t)'
      /\ \A u \in Timers \ {t} : slot'[u] = slot[u] /\ ticksLeft'[u] = ticksLeft[u]
                                 /\ hist'[u] = hist[u]
  BY <1>1 DEF Fire, TypeOK, OnTime, IsRunning
<1> DEFINE T == {t}
<1>20. /\ T \in SUBSET Timers /\ \A u \in T : OnTime(u)'
      /\ \A u \in Timers \ T : /\ slot'[u] = slot[u] /\ ticksLeft'[u] = ticksLeft[u]
                                 /\ hist'[u] = hist[u]
  BY <1>6
<1>21. \A k \in Upper : Pending(k, level') = Pending(k, level)
  OBVIOUS
<1> HIDE DEF T
<1>7. TimeInv'
  BY <1>1, <1>20, <1>21, StillInv
<1> QED BY <1>5, <1>7

\* One turn of the loop of onTickLevel.
LEMMA PopOnTime ==
    ASSUME TInv, NEW l \in Upper, NEW t \in Timers, LevelPop(l, t)
    PROVE  TimeInv' /\ FiresOnTime'
<1>1. TypeOK /\ TimeInv /\ FiresOnTime /\ l \in Levels
  BY CntDivs DEF TInv, IInv
<1>2. level = l /\ t \in ActiveBucket(l) /\ UNCHANGED <<bucketIndex, cntState, level>>
  BY DEF LevelPop
<1>3. CASE ticksLeft[t] = 0
  BY <1>1, <1>2, <1>3, FireOnTime DEF LevelPop
<1>4. CASE ticksLeft[t] # 0
  <2> DEFINE p == Restart(ticksLeft[t])
             h == hist[t]
  <2>1. Requeue(t)
    BY <1>4 DEF LevelPop
  <2>2. /\ slot'[t] = SlotOf(p) /\ ticksLeft'[t] = p.left /\ hist'[t] = Hopped(h)
        /\ UNCHANGED cb
        /\ \A u \in Timers \ {t} : slot'[u] = slot[u] /\ ticksLeft'[u] = ticksLeft[u]
                                   /\ hist'[u] = hist[u]
    BY <1>1, <2>1 DEF Requeue, TypeOK
  <2>3. slot[t] = <<l, bucketIndex[l]>> /\ IsRunning(t)
    BY <1>2, Plain, SMTT(30) DEF ActiveBucket, Bucket, IsRunning, NotRunning, Upper
  <2>4. /\ bucketIndex \in Cursors /\ cntState \in Spent /\ bucketIndex[l] \in Offsets
        /\ ticksLeft[t] \in Ticks /\ h \in Hist /\ l # 0
    BY <1>1, WheelTyped, CntDivs DEF Cursors
  <2>5. Timely(h) => OnTimeAt(SlotOf(p), p.left, Hopped(h), bucketIndex, cntState, level)
    <3> SUFFICES ASSUME Timely(h)
                 PROVE  OnTimeAt(SlotOf(p), p.left, Hopped(h), bucketIndex, cntState, level)
      OBVIOUS
    <3>1. OnTimeAt(<<l, bucketIndex[l]>>, ticksLeft[t], h, bucketIndex, cntState, level)
      BY <1>1, <1>2, <2>3 DEF TimeInv, OnTime
    <3>2. OnTimeUp(l, bucketIndex[l], ticksLeft[t], h, bucketIndex, cntState, level)
      BY <2>4, <3>1 DEF OnTimeAt
    <3>3. PICK d \in Offsets :
             /\ bucketIndex[l] = (bucketIndex[l] + d) % WheelSize
             /\ Window(l, ticksLeft[t], h, ActiveAt(l, d, h, cntState, level))
      BY <3>2 DEF OnTimeUp
    <3>4. d = 0
      BY <2>4, <3>3, CursorStays
    <3>5. l = LastLevel /\ h.asked >= WheelSize
      BY <1>4, <3>2, <3>3 DEF Window, OnTimeUp
    <3>6. Window(LastLevel, ticksLeft[t], h, ActiveAt(LastLevel, 0, h, cntState, LastLevel))
      BY <1>2, <3>3, <3>4, <3>5
    <3>7. SlotOf(p) = <<p.wheel, (bucketIndex[p.wheel] + p.off) % WheelSize>>
      BY DEF SlotOf
    <3>8. OnTimeAt(<<p.wheel, (bucketIndex[p.wheel] + p.off) % WheelSize>>, p.left, Hopped(h),
                   bucketIndex, cntState, LastLevel)
      BY <1>4, <2>4, <3>5, <3>6, RequeuedOnTime
    <3> QED BY <1>2, <3>5, <3>7, <3>8
  <2>6. Timely(Hopped(h)) <=> Timely(h)
    BY DEF Timely, Hopped
  <2> HIDE DEF p, h
  <2>7. OnTime(t)'
    BY <1>2, <2>2, <2>5, <2>6 DEF OnTime
  <2>8. FiresOnTime'
    BY <1>1, <2>2 DEF FiresOnTime
  <2> DEFINE T == {t}
  <2>20. /\ T \in SUBSET Timers /\ \A u \in T : OnTime(u)'
        /\ \A u \in Timers \ T : /\ slot'[u] = slot[u] /\ ticksLeft'[u] = ticksLeft[u]
                                   /\ hist'[u] = hist[u]
    BY <2>2, <2>7
  <2>21. \A k \in Upper : Pending(k, level') = Pending(k, level)
    BY <1>2
  <2> HIDE DEF T
  <2>9. TimeInv'
    BY <1>1, <1>2, <2>20, <2>21, StillInv
  <2> QED BY <2>8, <2>9
<1> QED BY <1>3, <1>4

\* onTickLevel leaves a level: no timer is left behind by the turn of its wheel.
LEMMA LeaveOnTime ==
    ASSUME TInv, NEW l \in Upper, LevelSkip(l) \/ LevelExit(l)
    PROVE  TimeInv' /\ FiresOnTime'
<1>1. TypeOK /\ TimeInv /\ FiresOnTime /\ IInv
  BY DEF TInv, IInv
<1>2. /\ level = l /\ LevelInc(l) /\ level' = After(l) /\ inLoop' = FALSE
      /\ UNCHANGED <<cntPerIte, slot, ticksLeft, cb, hist>>
      /\ ActiveBucket(l) = {} \/ (inLoop /\ BurstDone(l))
  BY DEF LevelSkip, LevelExit
<1>3. \A k \in Levels : bucketIndex'[k] # bucketIndex[k] => ActiveBucket(k) = {}
  BY <1>1, <1>2, LeaveLevel
<1> DEFINE wrap == (cntState[l] + 1 = CntDiv[l])
<1>4. /\ cntState' = [cntState EXCEPT ![l] = IF wrap THEN 0 ELSE @ + 1]
      /\ bucketIndex' = [bucketIndex EXCEPT ![l] = IF wrap THEN NextBucket(@) ELSE @]
  BY <1>2 DEF LevelInc
<1>5. bucketIndex \in Cursors /\ cntState \in Spent /\ l \in Levels
  BY <1>1, WheelTyped, CntDivs
<1>6. wrap => ActiveBucket(l) = {}
  <2>1. bucketIndex[l] \in Offsets
    BY <1>5 DEF Cursors
  <2>2. NextBucket(bucketIndex[l]) # bucketIndex[l]
    BY <2>1, Plain, CursorMoves DEF NextBucket, Offsets
  <2> QED BY <1>3, <1>4, <1>5, <2>2 DEF Cursors
<1> HIDE DEF wrap
<1>7. ASSUME NEW u \in Timers PROVE OnTime(u)'
  <2> SUFFICES ASSUME IsRunning(u), Timely(hist[u])
               PROVE  OnTimeAt(slot[u], ticksLeft[u], hist[u], bucketIndex', cntState', After(l))
    BY <1>2 DEF OnTime, IsRunning
  <2>1. OnTimeAt(slot[u], ticksLeft[u], hist[u], bucketIndex, cntState, l)
    BY <1>1, <1>2 DEF TimeInv, OnTime
  <2>2. slot[u] \in Levels \X Offsets /\ hist[u] \in Hist
    BY <1>1, WheelTyped
  <2>3. wrap => slot[u] # <<l, bucketIndex[l]>>
    BY <1>6 DEF ActiveBucket, Bucket
  <2>4. wrap = (cntState[l] + 1 = CntDiv[l])
    BY DEF wrap
  <2> QED BY <1>4, <1>5, <2>1, <2>2, <2>3, <2>4, TurnedOnTime
<1>8. FiresOnTime'
  BY <1>1, <1>2 DEF FiresOnTime
<1> QED BY <1>7, <1>8 DEF TimeInv

\* The end of onTickLevel0.
LEMMA Done0OnTime ==
    ASSUME TInv, Level0Done
    PROVE  TimeInv' /\ FiresOnTime'
<1>1. TypeOK /\ TimeInv /\ FiresOnTime
  BY DEF TInv, IInv
<1>2. /\ level = 0 /\ ActiveBucket(0) = {} /\ level' = After(0)
      /\ bucketIndex' = [bucketIndex EXCEPT ![0] = NextBucket(@)]
      /\ UNCHANGED <<cntState, slot, ticksLeft, cb>>
      /\ \A u \in Timers : IsRunning(u) => hist'[u] = Aged(hist[u])
  BY DEF Level0Done
<1>3. ASSUME NEW u \in Timers PROVE OnTime(u)'
  <2> SUFFICES ASSUME IsRunning(u), Timely(Aged(hist[u]))
               PROVE  OnTimeAt(slot[u], ticksLeft[u], Aged(hist[u]), bucketIndex', cntState, After(0))
    BY <1>2 DEF OnTime, IsRunning
  <2>0. Timely(hist[u])
    BY DEF Timely, Aged
  <2>1. OnTimeAt(slot[u], ticksLeft[u], hist[u], bucketIndex, cntState, 0)
    BY <1>1, <1>2, <2>0 DEF TimeInv, OnTime
  <2>2. /\ slot[u] \in Levels \X Offsets /\ hist[u] \in Hist /\ ticksLeft[u] \in Ticks
        /\ bucketIndex \in Cursors /\ cntState \in Spent
    BY <1>1, WheelTyped
  <2>3. slot[u] # <<0, bucketIndex[0]>>
    BY <1>2 DEF ActiveBucket, Bucket
  <2> QED BY <1>2, <2>0, <2>1, <2>2, <2>3, TickedOnTime
<1>4. FiresOnTime'
  BY <1>1, <1>2 DEF FiresOnTime
<1> QED BY <1>3, <1>4 DEF TimeInv

\* A callback is called on time (OnTick, restart): exactly at the tick asked for
\* by a timer of level 0, within the resolution of its wheels for the others,
\* for every size of the wheels, any number of levels and any load of callbacks
\* that start and stop timers during the tick.
THEOREM CallbacksAreOnTime == Spec => []FiresOnTime
<1>1. Init => TInv
  <2> SUFFICES ASSUME Init PROVE TInv
    OBVIOUS
  <2>1. TimeInv
    BY DEF Init, TimeInv, OnTime, IsRunning
  <2>2. FiresOnTime
    BY DEF Init, FiresOnTime, NoCallback
  <2> QED BY <2>1, <2>2, InitInv DEF TInv
<1>2. TInv /\ [Next]_vars => TInv'
  <2> SUFFICES ASSUME TInv, [Next]_vars PROVE TimeInv' /\ FiresOnTime'
    BY NextInv DEF TInv
  <2>1. CASE OnTick \/ CbReturn \/ \E l \in Upper : LevelEnter(l)
    BY <2>1, QuietOnTime
  <2>2. ASSUME NEW t \in Timers, Level0Pop(t) PROVE TimeInv' /\ FiresOnTime'
    <3>1. 0 \in Levels /\ level = 0 /\ t \in ActiveBucket(0) /\ Fire(t)
          /\ UNCHANGED <<bucketIndex, cntState, ticksLeft, level>>
      BY <2>2, CntDivs DEF Level0Pop
    <3> QED BY <3>1, FireOnTime
  <2>3. CASE Level0Done
    BY <2>3, Done0OnTime
  <2>4. CASE \E l \in Upper : LevelSkip(l) \/ LevelExit(l)
    BY <2>4, LeaveOnTime
  <2>5. CASE \E l \in Upper, t \in Timers : LevelPop(l, t)
    BY <2>5, PopOnTime
  <2>6. CASE \E t \in Timers : Stop(t) \/ \E n \in Ticks : DoStart(t, n)
    BY <2>6, UsersOnTime
  <2>7. CASE UNCHANGED vars
    BY <2>7, StillInv DEF vars, TInv, IInv, TimeInv, OnTime, IsRunning, FiresOnTime
  <2>8. \A n : n \in StartTicks \cup CbTicks => n \in Ticks
    BY WheelAssumption DEF Ticks
  <2> QED BY <2>1, <2>2, <2>3, <2>4, <2>5, <2>6, <2>7, <2>8 DEF Next, TickStep, Start, CbStart
<1>3. TInv => FiresOnTime
  BY DEF TInv
<1> QED BY <1>1, <1>2, <1>3, PTL DEF Spec
=============================================================================
