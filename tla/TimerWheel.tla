------------------------------ MODULE TimerWheel ------------------------------
(***************************************************************************)
(* The hierarchical timer wheel of emu/core/timerw.go.  Every plugin, the  *)
(* shutdown command and the default-gateway resolution schedule their work *)
(* on one wheel per thread; OnTick is called once per tick by the main     *)
(* loop and calls the callbacks of the timers that expire.                 *)
(*                                                                         *)
(* OnTick runs on the main thread, and nothing else does meanwhile, but    *)
(* the callbacks it makes start and stop timers in the wheel it is walking *)
(* over.  So OnTick is split at its calls: one action per event popped and *)
(* one per level left, with Start and Stop enabled inside a callback.      *)
(*                                                                         *)
(* Abstractions: a bucket is a set of timers (the code keeps a list and    *)
(* pops its head: here any member may be popped); the argument of a        *)
(* callback is left out.                                                   *)
(***************************************************************************)
EXTENDS Integers, FiniteSets, TLC

CONSTANTS
    Timers,      \* the CHTimerObj objects
    WheelSize,   \* buckets of one wheel (1024 in production, 128 simulated)
    LevelDiv,    \* 1 << wheelLevel1Shift: ticks of one level-1 bucket
    MaxLevels,   \* maxLevels: 3 in production, 2 simulated
    CntDiv,      \* exData[l].cntDiv: ticks of one bucket of level l >= 1
    MinEvents,   \* minEvents: eTIMERW_SECOND_LEVEL_BURST
    TickMod,     \* 2^32: ticks are uint32
    StartTicks,  \* durations asked for from outside a callback (a bound)
    CbTicks,     \* durations asked for from inside a callback (a bound)
    MaxAge       \* where the history of a timer stops counting ticks (a bound)

Levels == 0 .. MaxLevels - 1
Upper == 1 .. MaxLevels - 1
LastLevel == MaxLevels - 1

ASSUME WheelAssumption ==
    /\ IsFiniteSet(Timers)
    /\ WheelSize \in Nat /\ WheelSize >= 2
    /\ LevelDiv \in Nat \ {0}
    /\ MaxLevels \in Nat /\ MaxLevels >= 2
    /\ CntDiv \in [Upper -> Nat \ {0}]
    /\ CntDiv[1] = LevelDiv
    /\ \A l \in Upper \ {1} : CntDiv[l] = LevelDiv * CntDiv[l - 1]
    /\ MinEvents \in Nat
    /\ TickMod \in Nat \ {0}
    /\ StartTicks \subseteq 0 .. TickMod - 1
    /\ CbTicks \subseteq 0 .. TickMod - 1
    /\ MaxAge \in Nat

\* NewTimerCtx divides the size by 16, so a bucket of level 1 is shorter than
\* the wheel of level 0; the history counts far enough to see a late timer.
ASSUME TimingAssumption ==
    /\ LevelDiv \in 2 .. WheelSize - 1
    /\ TickMod + 2 * CntDiv[LastLevel] <= MaxAge

VARIABLES
    bucketIndex, \* [Levels -> bucket]: the active bucket of each wheel
    cntState,    \* [Upper -> ticks spent in the active bucket]
    cntPerIte,   \* [Upper -> events to pop per tick from the active bucket]
    slot,        \* [Timers -> <<wheel, bucket>>], or NotRunning
    ticksLeft,   \* [Timers -> ticks left after a full turn of the last wheel]
    totalEvents, \* the counter of active timers
    level,       \* the level OnTick is working on; Idle outside OnTick
    inLoop,      \* OnTick is in the pop loop of onTickLevel(level)
    cnt,         \* cnt of onTickLevel: events popped in this loop
    cb,          \* the callback being called, or NoCallback
    hist         \* history: what was asked of a timer and how old it is

vars == <<bucketIndex, cntState, cntPerIte, slot, ticksLeft, totalEvents,
          level, inLoop, cnt, cb, hist>>

Idle == -1
NotRunning == <<-1, 0>>

IsRunning(t) == slot[t] # NotRunning

Bucket(l, b) == {t \in Timers : slot[t] = <<l, b>>}

ActiveBucket(l) == Bucket(l, bucketIndex[l])

NoHist == [asked |-> 0, age |-> 0, hops |-> 0, wheel |-> 0]
Aged(h) == [asked |-> h.asked, age |-> IF h.age < MaxAge THEN h.age + 1 ELSE h.age,
            hops |-> h.hops, wheel |-> h.wheel]
Hopped(h) == [asked |-> h.asked, age |-> h.age, hops |-> h.hops + 1, wheel |-> h.wheel]

NoCallback == [on |-> FALSE, h |-> NoHist]

-----------------------------------------------------------------------------
(***************************************************************************)
(* Where a timer goes.                                                     *)
(***************************************************************************)

\* the buckets of level l that cover ticks, rounded up in uint32 arithmetic
NTicks(l, ticks) == ((ticks + (CntDiv[l] - 1)) % TickMod) \div CntDiv[l]

AtLeast2(n) == IF n < 2 THEN 2 ELSE n

\* restart: the first upper level whose wheel spans ticks, or a full turn of
\* the last one with the rest kept in ticksLeft
Restart(ticks) ==
    LET fits == {l \in Upper : NTicks(l, ticks) < WheelSize}
    IN  IF fits = {}
        THEN [wheel |-> LastLevel, off |-> WheelSize - 1,
              left |-> ticks - (WheelSize - 1) * CntDiv[LastLevel]]
        ELSE LET l == CHOOSE x \in fits : \A y \in fits : x <= y
             IN  [wheel |-> l, off |-> AtLeast2(NTicks(l, ticks)) - 1, left |-> 0]

\* mutation of Placement: level 0 counts the current tick
PlacementOneEarly(ticks) ==
    IF ticks < WheelSize
    THEN [wheel |-> 0, off |-> ticks - 1, left |-> 0]
    ELSE Restart(ticks)

Placement(ticks) ==
    IF ticks < WheelSize
    THEN [wheel |-> 0, off |-> ticks, left |-> 0]
    ELSE Restart(ticks)

\* append: the cursor of a one-level wheel wraps at its size
SlotOf(p) == <<p.wheel, (bucketIndex[p.wheel] + p.off) % WheelSize>>

-----------------------------------------------------------------------------
(***************************************************************************)
(* The calls of the users of the wheel.  The main thread makes them        *)
(* between two ticks or from a callback.                                   *)
(***************************************************************************)

DoStart(t, ticks) ==
    /\ ~IsRunning(t)          \* Start panics on a running timer
    /\ totalEvents' = totalEvents + 1
    /\ LET p == Placement(ticks)
       IN  /\ slot' = [slot EXCEPT ![t] = SlotOf(p)]
           /\ ticksLeft' = [ticksLeft EXCEPT ![t] = p.left]
           /\ hist' = [hist EXCEPT ![t] =
                  [asked |-> ticks, age |-> 0, hops |-> 0, wheel |-> p.wheel]]
    /\ UNCHANGED <<bucketIndex, cntState, cntPerIte, level, inLoop, cnt, cb>>

Start(t, ticks) == level = Idle /\ DoStart(t, ticks)

CbStart(t, ticks) == cb.on /\ DoStart(t, ticks)

Stop(t) ==
    /\ level = Idle \/ cb.on
    /\ IsRunning(t)
    /\ slot' = [slot EXCEPT ![t] = NotRunning]
    /\ totalEvents' = totalEvents - 1
    /\ hist' = [hist EXCEPT ![t] = NoHist]
    /\ UNCHANGED <<bucketIndex, cntState, cntPerIte, ticksLeft, level, inLoop,
                   cnt, cb>>

-----------------------------------------------------------------------------
(***************************************************************************)
(* OnTick.                                                                 *)
(***************************************************************************)

OnTick ==
    /\ level = Idle
    /\ level' = 0
    /\ UNCHANGED <<bucketIndex, cntState, cntPerIte, slot, ticksLeft,
                   totalEvents, inLoop, cnt, cb, hist>>

\* popEvent followed by event.call(): the timer is detached before its
\* callback runs, so the callback may start it again
Fire(t) ==
    /\ slot' = [slot EXCEPT ![t] = NotRunning]
    /\ totalEvents' = totalEvents - 1
    /\ cb' = [on |-> TRUE, h |-> hist[t]]
    /\ hist' = [hist EXCEPT ![t] = NoHist]

\* the callback returns to the loop that called it
CbReturn ==
    /\ cb.on
    /\ cb' = NoCallback
    /\ UNCHANGED <<bucketIndex, cntState, cntPerIte, slot, ticksLeft,
                   totalEvents, level, inLoop, cnt, hist>>

\* mutation of After: the loop stops one level short
AfterShort(l) == IF l + 1 >= LastLevel THEN Idle ELSE l + 1

\* the level after l in OnTick's loop
After(l) == IF l = LastLevel THEN Idle ELSE l + 1

\* one turn of the loop of onTickLevel0
Level0Pop(t) ==
    /\ level = 0 /\ ~cb.on
    /\ t \in ActiveBucket(0)
    /\ Fire(t)
    /\ UNCHANGED <<bucketIndex, cntState, cntPerIte, ticksLeft, level, inLoop, cnt>>

\* nextTick: the wheel turns by one bucket
NextBucket(b) == (b + 1) % WheelSize

\* the end of onTickLevel0
Level0Done ==
    /\ level = 0 /\ ~cb.on
    /\ ActiveBucket(0) = {}
    /\ bucketIndex' = [bucketIndex EXCEPT ![0] = NextBucket(@)]
    /\ level' = After(0)
    /\ hist' = [t \in Timers |-> IF IsRunning(t) THEN Aged(hist[t]) ELSE hist[t]]
    /\ UNCHANGED <<cntState, cntPerIte, slot, ticksLeft, totalEvents, inLoop, cnt, cb>>

\* onTickLevelInc
LevelInc(l) ==
    LET wrap == cntState[l] + 1 = CntDiv[l]
    IN  /\ cntState' = [cntState EXCEPT ![l] = IF wrap THEN 0 ELSE @ + 1]
        /\ bucketIndex' = [bucketIndex EXCEPT ![l] = IF wrap THEN NextBucket(@) ELSE @]

\* onTickLevel when nothing is left in the active bucket
LevelSkip(l) ==
    /\ level = l /\ ~inLoop
    /\ ActiveBucket(l) = {}
    /\ LevelInc(l)
    /\ level' = After(l)
    /\ UNCHANGED <<cntPerIte, slot, ticksLeft, totalEvents, inLoop, cnt, cb, hist>>

\* mutation of PerIte: the share of a tick is rounded down
PerIteRoundedDown(l, left) ==
    LET steps == left \div CntDiv[l]
    IN  IF steps < MinEvents THEN MinEvents ELSE steps

\* events to pop on each tick of a bucket that holds left events
PerIte(l, left) ==
    LET steps == (left + CntDiv[l] - 1) \div CntDiv[l]
    IN  IF steps < MinEvents THEN MinEvents ELSE steps

\* onTickLevel up to its loop
LevelEnter(l) ==
    /\ level = l /\ ~inLoop
    /\ ActiveBucket(l) # {}
    /\ inLoop' = TRUE
    /\ cnt' = 0
    /\ cntPerIte' = IF cntState[l] = 0
                    THEN [cntPerIte EXCEPT ![l] = PerIte(l, Cardinality(ActiveBucket(l)))]
                    ELSE cntPerIte
    /\ UNCHANGED <<bucketIndex, cntState, slot, ticksLeft, totalEvents, level, cb, hist>>

\* the loop has popped its share of the bucket
BurstDone(l) == cnt > 0 /\ cnt = cntPerIte[l]

\* a popped event with ticks left goes back to the wheel instead of firing
Requeue(t) ==
    LET p == Restart(ticksLeft[t])
    IN  /\ slot' = [slot EXCEPT ![t] = SlotOf(p)]
        /\ ticksLeft' = [ticksLeft EXCEPT ![t] = p.left]
        /\ hist' = [hist EXCEPT ![t] = Hopped(@)]
        /\ UNCHANGED <<totalEvents, cb>>

\* one turn of the loop of onTickLevel
LevelPop(l, t) ==
    /\ level = l /\ inLoop /\ ~cb.on
    /\ ~BurstDone(l)
    /\ t \in ActiveBucket(l)
    /\ cnt' = cnt + 1
    /\ \/ /\ ticksLeft[t] = 0
          /\ Fire(t)
          /\ UNCHANGED ticksLeft
       \/ /\ ticksLeft[t] # 0
          /\ Requeue(t)
    /\ UNCHANGED <<bucketIndex, cntState, cntPerIte, level, inLoop>>

\* onTickLevel leaves its loop: the share is popped or the bucket is empty
LevelExit(l) ==
    /\ level = l /\ inLoop /\ ~cb.on
    /\ BurstDone(l) \/ ActiveBucket(l) = {}
    /\ LevelInc(l)
    /\ inLoop' = FALSE
    /\ cnt' = 0
    /\ level' = After(l)
    /\ UNCHANGED <<cntPerIte, slot, ticksLeft, totalEvents, cb, hist>>

-----------------------------------------------------------------------------
\* InitTW
Init ==
    /\ bucketIndex = [l \in Levels |-> 0]
    /\ cntState = [l \in Upper |-> 0]
    /\ cntPerIte = [l \in Upper |-> 0]
    /\ slot = [t \in Timers |-> NotRunning]
    /\ ticksLeft = [t \in Timers |-> 0]
    /\ totalEvents = 0
    /\ level = Idle
    /\ inLoop = FALSE
    /\ cnt = 0
    /\ cb = NoCallback
    /\ hist = [t \in Timers |-> NoHist]

\* the steps the main loop takes by itself once a tick is due
TickStep ==
    \/ OnTick
    \/ \E t \in Timers : Level0Pop(t)
    \/ Level0Done
    \/ \E l \in Upper :
          \/ LevelSkip(l)
          \/ LevelEnter(l)
          \/ \E t \in Timers : LevelPop(l, t)
          \/ LevelExit(l)
    \/ CbReturn

Next ==
    \/ TickStep
    \/ \E t \in Timers : Stop(t)
    \/ \E t \in Timers, n \in StartTicks : Start(t, n)
    \/ \E t \in Timers, n \in CbTicks : CbStart(t, n)

Spec == Init /\ [][Next]_vars

\* The tick goroutine keeps delivering ticks, and the main loop handles each
\* one it receives to its end.
FairSpec == Spec /\ WF_vars(TickStep)

-----------------------------------------------------------------------------
(***************************************************************************)
(* Properties.                                                             *)
(***************************************************************************)

Hist == [asked : 0 .. TickMod - 1, age : Nat, hops : Nat, wheel : Levels]

\* The fields of CNATimerWheel keep their ranges: cursors inside the wheels,
\* cntState below cntDiv, ticksLeft an uint32.
TypeOK ==
    /\ bucketIndex \in [Levels -> 0 .. WheelSize - 1]
    /\ cntState \in [Upper -> Nat] /\ \A l \in Upper : cntState[l] < CntDiv[l]
    /\ cntPerIte \in [Upper -> Nat]
    /\ slot \in [Timers -> (Levels \X (0 .. WheelSize - 1)) \cup {NotRunning}]
    /\ ticksLeft \in [Timers -> 0 .. TickMod - 1]
    /\ totalEvents \in Nat
    /\ level \in Levels \cup {Idle}
    /\ inLoop \in BOOLEAN /\ (inLoop => level \in Upper)
    /\ cnt \in Nat
    /\ cb \in [on : BOOLEAN, h : Hist]
    /\ hist \in [Timers -> Hist]

\* ActiveTimers() reports the timers that are linked in a bucket, also in the
\* middle of a tick when a callback looks at it.
CountersAgree == totalEvents = Cardinality({t \in Timers : IsRunning(t)})

\* The loop of onTickLevel(l) is under way.
Working(l) == level = l /\ inLoop

\* What is left in the active bucket of an upper wheel fits in the bursts it
\* has left: cntPerIte, computed when the bucket became active, times the
\* ticks it stays active, whatever callbacks stopped or started meanwhile.
BurstCovers ==
    \A l \in Upper :
        /\ Working(l) => cnt <= cntPerIte[l] /\ cntPerIte[l] > 0
        /\ (cntState[l] > 0 \/ Working(l)) =>
              Cardinality(ActiveBucket(l)) + (IF Working(l) THEN cnt ELSE 0)
                 <= cntPerIte[l] * (CntDiv[l] - cntState[l])

\* A wheel never turns past a bucket that still holds timers: the bursts of
\* onTickLevel empty a bucket in the cntDiv ticks it is active.  A timer left
\* behind would wait for a full turn of its wheel.
NoTimerLeftBehind ==
    [][\A l \in Levels : bucketIndex'[l] # bucketIndex[l] => ActiveBucket(l) = {}]_vars

\* the ticks of one bucket of the coarsest wheel a timer went through
Grain(h) == IF h.hops = 0 THEN CntDiv[h.wheel] ELSE CntDiv[LastLevel]

\* A callback is called on time: exactly for a timer of level 0, and within
\* the resolution of the coarsest wheel it went through for the others.  The
\* turns of the last wheel do not add up: however many a timer took, it is late
\* by its share of one bucket and by the resolution of the wheel it ends on.
\* (Unless the rounding of its ticks overflows uint32.)
FiresOnTime ==
    (cb.on /\ cb.h.asked + CntDiv[LastLevel] <= TickMod) =>
        LET h == cb.h
        IN  IF h.asked < WheelSize
            THEN h.age = h.asked
            ELSE /\ h.age > h.asked - 2 * Grain(h)
                 /\ h.age <= h.asked + (IF h.hops = 0 THEN 1 ELSE 2) * Grain(h)

\* Every timer that is started fires or is stopped.
EveryTimerExpires == \A t \in Timers : IsRunning(t) ~> ~IsRunning(t)

\* OnTick returns to the main loop if the callbacks ask for at least one tick: a
\* timer started with 0 ticks goes back to the bucket that is being emptied.
OnTickReturns == (level # Idle) ~> (level = Idle)

\* Every timer expires, and every OnTick returns.
TimeGoesOn == EveryTimerExpires /\ OnTickReturns

-----------------------------------------------------------------------------
\* Values for model checking: the divisors NewTimerCtx computes, and the
\* symmetry of the timers.
MCCntDiv == [l \in Upper |-> LevelDiv ^ l]

Symmetry == Permutations(Timers)
=============================================================================
