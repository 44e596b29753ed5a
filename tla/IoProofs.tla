------------------------------- MODULE IoProofs -------------------------------
(***************************************************************************)
(* What passes between the goroutines of the process.                      *)
(*                                                                         *)
(* The proxy's ring of buffers implements the packet channel for every     *)
(* ring of at least two buffers.  The type invariant carries the argument: *)
(* the main loop's buffer is never the one the goroutine writes, because   *)
(* the goroutine can move on only when the main loop is back in its select.*)
(*                                                                         *)
(* The main loop answers the requests in order and obeys the last shutdown *)
(* request, for any number of requests, delays and ticks in the channel.   *)
(* The inductive invariant numbers the requests through, from the answered *)
(* ones over the one at work to those in the socket, and says that the     *)
(* ticks handled and the ticks left in the timer add up to the delay.      *)
(*                                                                         *)
(* The ZMQ veth implements the same channel.  Its batches are below 64 KiB *)
(* with their headers, because Send flushes at the buffer size and at the  *)
(* burst size; so the uint16 offset of the parser is always that of a      *)
(* packet, which it determines, since offsets grow.  What the recursive    *)
(* functions Offset and Packets compute is shown by induction, in the form *)
(* that a set with 0 and all successors has every natural number.          *)
(***************************************************************************)
EXTENDS ProxyRing, MainLoop, VethPipe, SequenceTheorems, NaturalsInduction,
        WellFoundedInduction, TLAPS

-----------------------------------------------------------------------------
(* The ring of the proxy *)

\* The buffers keep their types, and two goroutines never share one.
THEOREM RingTyped == Spec => []TypeOK
<1>1. Init => TypeOK
  BY RingAssumption DEF Init, TypeOK, Buffers, NoBuf
<1>2. TypeOK /\ [Next]_vars => TypeOK'
  <2> SUFFICES ASSUME TypeOK, [Next]_vars PROVE TypeOK'
    OBVIOUS
  <2>1. CASE TapRead
    BY <2>1, RingAssumption DEF TapRead, TypeOK, Buffers, NoBuf
  <2>2. CASE Handover
    <3>1. ring' \in Buffers /\ ring' # ring
      BY <2>2, RingAssumption DEF Handover, TypeOK, Buffers
    <3>2. /\ data' = data /\ offering' = FALSE /\ pkt' = ring
          /\ delivered' = delivered /\ nread' = nread
      BY <2>2 DEF Handover
    <3> QED BY <3>1, <3>2 DEF TypeOK
  <2>3. CASE OnRxPkt
    <3>1. delivered' \in Seq(Frame)
      BY <2>3, RingAssumption DEF OnRxPkt, TypeOK, Buffers, NoBuf
    <3> QED BY <2>3, <3>1, RingAssumption DEF OnRxPkt, TypeOK, Buffers, NoBuf
  <2>4. CASE UNCHANGED vars
    BY <2>4 DEF vars, TypeOK
  <2> QED BY <2>1, <2>2, <2>3, <2>4 DEF Next
<1> QED BY <1>1, <1>2, PTL DEF Spec

\* A frame that is read joins the end of the queue, unless it is short.
LEMMA ReadIsPut ==
    ASSUME TypeOK, TapRead
    PROVE  [Fifo!Next]_<<InRing, delivered>>
<1>1. PICK f \in Frame : data' = [data EXCEPT ![ring] = f]
  BY DEF TapRead
<1>2. offering' = TRUE /\ offering = FALSE /\ ring' = ring /\ pkt' = pkt /\ delivered' = delivered
  BY DEF TapRead
<1>3. data'[ring'] = f
  BY <1>1, <1>2 DEF TypeOK
<1>4. pkt # NoBuf => data'[pkt] = data[pkt]
  BY <1>1 DEF TypeOK
<1> DEFINE front == IF pkt = NoBuf THEN <<>> ELSE Kept(data[pkt])
<1>5. front \in Seq(Frame)
  BY DEF TypeOK, Kept
<1>6. InRing = front /\ InRing' = front \o Kept(f)
  BY <1>2, <1>3, <1>4, <1>5 DEF InRing
<1>7. Kept(f) = <<>> \/ Kept(f) = <<f>>
  BY DEF Kept
<1>8. front \o <<f>> = Append(front, f) /\ front \o <<>> = front
  BY <1>5
<1> HIDE DEF front
<1> QED BY <1>2, <1>6, <1>7, <1>8 DEF Fifo!Next, Fifo!Put

\* The handover moves a frame within the queue.
LEMMA HandoverStutters ==
    ASSUME TypeOK, Handover
    PROVE  UNCHANGED <<InRing, delivered>>
<1>1. Kept(data[ring]) \in Seq(Frame)
  BY DEF TypeOK, Kept
<1>2. pkt' = ring /\ pkt' # NoBuf /\ data' = data /\ offering' = FALSE
  BY RingAssumption DEF Handover, TypeOK, Buffers, NoBuf
<1>3. InRing = <<>> \o Kept(data[ring])
  BY DEF Handover, InRing
<1>4. InRing' = Kept(data[ring]) \o <<>>
  BY <1>2 DEF InRing
<1> QED BY <1>1, <1>3, <1>4 DEF Handover

\* The main loop takes the first frame of the queue, or drops a short one,
\* which the queue never held.
LEMMA CopyIsGet ==
    ASSUME TypeOK, OnRxPkt
    PROVE  [Fifo!Next]_<<InRing, delivered>>
<1> DEFINE back == IF offering THEN Kept(data[ring]) ELSE <<>>
           f == data[pkt]
<1>1. f \in Frame /\ back \in Seq(Frame)
  BY DEF OnRxPkt, TypeOK, Kept
<1>2. InRing = Kept(f) \o back /\ InRing' = <<>> \o back
  BY DEF OnRxPkt, InRing
<1>3. CASE IsShort(f)
  <2>1. UNCHANGED <<InRing, delivered>>
    BY <1>1, <1>2, <1>3 DEF Kept, OnRxPkt
  <2> QED BY <2>1
<1>4. CASE ~IsShort(f)
  <2>1. InRing = <<f>> \o back /\ delivered' = Append(delivered, f)
    BY <1>2, <1>4 DEF Kept, OnRxPkt
  <2> HIDE DEF back, f
  <2>2. InRing # <<>> /\ Head(InRing) = f /\ Tail(InRing) = back /\ InRing' = back
    BY <1>1, <1>2, <2>1
  <2> QED BY <2>1, <2>2 DEF Fifo!Next, Fifo!Get
<1> QED BY <1>3, <1>4

\* The ring of buffers shared by rxThread and the main loop is a first-in
\* first-out channel of frames.
THEOREM RingImplementsFifo == Spec => Fifo!Safety
<1>1. Init => Fifo!Init
  BY DEF Init, Fifo!Init, InRing
<1>2. TypeOK /\ [Next]_vars => [Fifo!Next]_<<InRing, delivered>>
  <2> SUFFICES ASSUME TypeOK, [Next]_vars PROVE [Fifo!Next]_<<InRing, delivered>>
    OBVIOUS
  <2>1. CASE UNCHANGED vars
    BY <2>1 DEF vars, InRing
  <2> QED BY <2>1, ReadIsPut, HandoverStutters, CopyIsGet DEF Next
<1> QED BY <1>1, <1>2, RingTyped, PTL DEF Spec, Fifo!Safety

-----------------------------------------------------------------------------
(* The main loop *)

\* 1 while a request is between the socket and its answer
Busy == IF rpcThread[1] = "recv" THEN 0 ELSE 1

\* the requests are numbered through from the answered ones over the one at
\* work to those that wait in the socket; the main loop works for the RPC
\* goroutine exactly while that waits for it
RpcInv ==
    /\ answered \in Seq(Nat) /\ \A i \in 1..Len(answered) : answered[i] = i
    /\ inbox \in Seq(Request)
    /\ asked = Len(answered) + Busy + Len(inbox)
    /\ \A i \in 1..Len(inbox) : inbox[i].id = Len(answered) + Busy + i
    /\ rpcThread[1] \in {"recv", "offer", "wait", "reply"}
    /\ rpcThread[1] # "recv" => rpcThread[2] \in Request /\ rpcThread[2].id = Len(answered) + 1
    /\ rpcThread[1] = "wait" <=> main[1] \in {"serve", "answer"}
    /\ main[1] \in {"serve", "answer"} => main[2] = rpcThread[2]

\* until the thread is marked the timer holds what is left of the delay
ShutInv ==
    /\ markForShutdown \in BOOLEAN /\ shutdownTimer \in Nat \cup {-1}
    /\ wanted \in Nat \cup {-1} /\ elapsed \in Nat
    /\ markForShutdown => wanted >= 0 /\ elapsed >= wanted
    /\ ~markForShutdown =>
          \/ wanted = -1 /\ shutdownTimer = -1
          \/ wanted >= 0 /\ shutdownTimer > 0 /\ elapsed + shutdownTimer = wanted
    /\ main[1] = "select" => vec = 0 /\ ~markForShutdown
    /\ main[1] \in {"exit", "gone"} => markForShutdown

LoopInv == RpcInv /\ ShutInv

\* The process starts with empty channels and no shutdown.
LEMMA LoopInitInv == LoopInit => LoopInv
<1> SUFFICES ASSUME LoopInit PROVE LoopInv
  OBVIOUS
<1>1. rpcThread[1] = "recv" /\ main[1] = "select" /\ Busy = 0
  BY DEF LoopInit, Busy
<1>2. RpcInv
  BY <1>1 DEF LoopInit, RpcInv
<1>3. ShutInv
  BY <1>1 DEF LoopInit, ShutInv
<1> QED BY <1>2, <1>3 DEF LoopInv

\* A request that the client sends is the next number, at the end of the socket.
LEMMA AskStep ==
    ASSUME LoopInv, ClientAsks
    PROVE  LoopInv'
<1>1. PICK d \in Delays \cup {-1} : inbox' = Append(inbox, [id |-> asked + 1, delay |-> d])
  BY DEF ClientAsks
<1> DEFINE r == [id |-> asked + 1, delay |-> d]
<1>2. asked \in Nat /\ asked < MaxRequests
  BY SMTT(30) DEF LoopInv, RpcInv, Busy, ClientAsks
<1>3. r \in Request /\ r.id = asked + 1
  BY <1>2, LoopAssumption DEF Request
<1> HIDE DEF r
<1>4. inbox \in Seq(Request) /\ inbox' = Append(inbox, r)
  BY <1>1 DEF LoopInv, RpcInv, r
<1>5. inbox' \in Seq(Request) /\ Len(inbox') = Len(inbox) + 1
  BY <1>3, <1>4
<1>6. \A i \in 1..Len(inbox') : inbox'[i] = IF i <= Len(inbox) THEN inbox[i] ELSE r
  BY <1>3, <1>4
<1>7. RpcInv'
  <2>1. /\ rpcThread' = rpcThread /\ answered' = answered /\ main' = main
        /\ asked' = asked + 1 /\ Busy' = Busy /\ Busy \in {0, 1}
    BY DEF ClientAsks, Busy
  <2>2. answered \in Seq(Nat) /\ asked = Len(answered) + Busy + Len(inbox)
    BY DEF LoopInv, RpcInv
  <2>3. asked' = Len(answered') + Busy' + Len(inbox')
    BY <1>4, <1>5, <2>1, <2>2
  <2>4. \A i \in 1..Len(inbox') : inbox'[i].id = Len(answered') + Busy' + i
    <3> SUFFICES ASSUME NEW i \in 1..Len(inbox')
                 PROVE  inbox'[i].id = Len(answered) + Busy + i
      BY <2>1
    <3>1. CASE i <= Len(inbox)
      <4>1. i \in 1..Len(inbox) /\ inbox'[i] = inbox[i]
        BY <1>4, <1>5, <1>6, <3>1
      <4> QED BY <4>1 DEF LoopInv, RpcInv
    <3>2. CASE i > Len(inbox)
      <4>1. i = Len(inbox) + 1 /\ inbox'[i] = r
        BY <1>4, <1>5, <1>6, <3>2
      <4> QED BY <1>3, <1>4, <2>1, <2>2, <4>1
    <3> QED BY <1>4, <1>5, <3>1, <3>2
  <2> QED BY <1>5, <2>1, <2>3, <2>4 DEF LoopInv, RpcInv
<1>8. ShutInv'
  BY DEF LoopInv, ShutInv, ClientAsks, shutVars
<1> QED BY <1>7, <1>8 DEF LoopInv

\* RecvBytes takes the first request, which is the next to be answered.
LEMMA RecvStep ==
    ASSUME LoopInv, RecvBytes
    PROVE  LoopInv'
<1>1. /\ rpcThread' = <<"offer", Head(inbox)>> /\ rpcThread[1] = "recv" /\ inbox' = Tail(inbox)
      /\ answered' = answered /\ asked' = asked /\ main' = main
      /\ inbox \in Seq(Request) /\ inbox # <<>> /\ answered \in Seq(Nat)
  BY DEF LoopInv, RpcInv, RecvBytes
<1>2. /\ Len(inbox) >= 1 /\ Head(inbox) = inbox[1] /\ Head(inbox) \in Request
      /\ inbox' \in Seq(Request) /\ Len(inbox') = Len(inbox) - 1
      /\ \A i \in 1..Len(inbox') : inbox'[i] = inbox[i + 1]
  BY <1>1
<1>3. Busy = 0 /\ Busy' = 1 /\ rpcThread'[1] = "offer" /\ rpcThread'[2] = inbox[1]
  BY <1>1, <1>2 DEF Busy
<1>4. RpcInv'
  BY <1>1, <1>2, <1>3, SMTT(30) DEF LoopInv, RpcInv
<1>5. ShutInv'
  BY DEF LoopInv, ShutInv, RecvBytes, shutVars
<1> QED BY <1>4, <1>5 DEF LoopInv

\* SendBytes answers the request at work.
LEMMA SendStep ==
    ASSUME LoopInv, SendBytes
    PROVE  LoopInv'
<1>1. /\ rpcThread' = <<"recv", None>> /\ rpcThread[1] = "reply" /\ inbox' = inbox
      /\ answered' = Append(answered, rpcThread[2].id) /\ asked' = asked /\ main' = main
      /\ inbox \in Seq(Request) /\ answered \in Seq(Nat)
      /\ rpcThread[2].id = Len(answered) + 1
  BY DEF LoopInv, RpcInv, SendBytes
<1>2. /\ answered' \in Seq(Nat) /\ Len(answered') = Len(answered) + 1
      /\ \A i \in 1..Len(answered') : answered'[i] = IF i <= Len(answered) THEN answered[i] ELSE Len(answered) + 1
  BY <1>1
<1>3. Busy = 1 /\ Busy' = 0 /\ rpcThread'[1] = "recv"
  BY <1>1 DEF Busy
<1>4. RpcInv'
  BY <1>1, <1>2, <1>3, SMTT(30) DEF LoopInv, RpcInv
<1>5. ShutInv'
  BY DEF LoopInv, ShutInv, SendBytes, shutVars
<1> QED BY <1>4, <1>5 DEF LoopInv

\* The main loop takes a request from the RPC goroutine, and gives it back.
LEMMA HandStep ==
    ASSUME LoopInv, SelectRpc \/ Answer
    PROVE  LoopInv'
<1>1. CASE SelectRpc
  <2>1. rpcThread'[1] = "wait" /\ rpcThread'[2] = rpcThread[2] /\ main'[1] = "serve" /\ main'[2] = rpcThread[2]
    BY <1>1 DEF SelectRpc
  <2>2. Busy' = Busy
    BY <1>1, <2>1 DEF SelectRpc, Busy
  <2>3. RpcInv'
    BY <1>1, <2>1, <2>2 DEF LoopInv, RpcInv, SelectRpc
  <2>4. ShutInv'
    BY <1>1, <2>1 DEF LoopInv, ShutInv, SelectRpc, shutVars
  <2> QED BY <2>3, <2>4 DEF LoopInv
<1>2. CASE Answer
  <2>1. rpcThread'[1] = "reply" /\ rpcThread'[2] = rpcThread[2] /\ main'[1] = "flush"
    BY <1>2 DEF Answer, LoopInv, RpcInv
  <2>2. Busy' = Busy
    BY <1>2, <2>1 DEF Answer, Busy
  <2>3. RpcInv'
    BY <1>2, <2>1, <2>2 DEF LoopInv, RpcInv, Answer
  <2>4. ShutInv'
    BY <1>2, <2>1 DEF LoopInv, ShutInv, Answer, shutVars
  <2> QED BY <2>3, <2>4 DEF LoopInv
<1> QED BY <1>1, <1>2

\* A tick takes one from the shutdown timer, which marks the thread at its end.
LEMMA TickStep ==
    ASSUME LoopInv, SelectTick
    PROVE  LoopInv'
<1>1. main'[1] = "flush" /\ main[1] = "select" /\ Busy' = Busy /\ rpcVars' = rpcVars
  BY DEF SelectTick, Busy, rpcVars
<1>2. RpcInv'
  BY <1>1 DEF LoopInv, RpcInv, rpcVars
<1>3. ShutInv'
  <2>1. /\ ~markForShutdown /\ elapsed \in Nat /\ wanted \in Nat \cup {-1} /\ wanted' = wanted
        /\ elapsed' = IF wanted >= 0 THEN elapsed + 1 ELSE 0
        /\ shutdownTimer' = IF shutdownTimer > 0 THEN shutdownTimer - 1 ELSE -1
        /\ markForShutdown' \in BOOLEAN /\ (markForShutdown' <=> shutdownTimer = 1)
    BY <1>1 DEF LoopInv, ShutInv, SelectTick
  <2>2. CASE wanted = -1 /\ shutdownTimer = -1
    BY <1>1, <2>1, <2>2 DEF ShutInv
  <2>3. CASE wanted >= 0 /\ shutdownTimer > 0 /\ elapsed + shutdownTimer = wanted
    <3>1. shutdownTimer \in Nat /\ wanted \in Nat
      BY <2>1, <2>3 DEF LoopInv, ShutInv
    <3>2. elapsed' = elapsed + 1 /\ shutdownTimer' = shutdownTimer - 1
      BY <2>1, <2>3, <3>1
    <3> QED BY <1>1, <2>1, <2>3, <3>1, <3>2 DEF ShutInv
  <2> QED BY <2>1, <2>2, <2>3 DEF LoopInv, ShutInv
<1> QED BY <1>2, <1>3 DEF LoopInv

\* A shutdown request replaces an earlier one, unless the thread is marked.
LEMMA ServeStep ==
    ASSUME LoopInv, Serve
    PROVE  LoopInv'
<1>1. main'[1] = "answer" /\ main'[2] = main[2] /\ main[1] = "serve" /\ Busy' = Busy /\ rpcVars' = rpcVars
  BY DEF Serve, Busy, rpcVars
<1>2. RpcInv'
  BY <1>1 DEF LoopInv, RpcInv, rpcVars
<1>3. main[2] \in Request
  BY <1>1 DEF LoopInv, RpcInv
<1>4. CASE main[2].delay >= 0
  <2>1. main[2].delay \in Nat
    <3>1. main[2].delay \in Delays \cup {-1}
      BY <1>3 DEF Request
    <3>2. CASE main[2].delay = -1
      BY <1>4, <3>2
    <3>3. CASE main[2].delay \in Delays
      BY <3>3, LoopAssumption
    <3> QED BY <3>1, <3>2, <3>3
  <2>2. Shutdown(main[2].delay)
    BY <1>4 DEF Serve
  <2>3. CASE markForShutdown
    BY <1>1, <1>2, <2>2, <2>3 DEF LoopInv, ShutInv, Shutdown, shutVars
  <2>4. CASE ~markForShutdown
    <3> DEFINE d == main[2].delay
    <3>1. /\ markForShutdown' \in BOOLEAN /\ (markForShutdown' <=> d = 0) /\ wanted' = d /\ elapsed' = 0
          /\ shutdownTimer' = IF d = 0 THEN shutdownTimer ELSE d
      BY <2>2, <2>4 DEF Shutdown
    <3> HIDE DEF d
    <3>2. d \in Nat
      BY <2>1 DEF d
    <3>3. ShutInv'
      BY <1>1, <3>1, <3>2 DEF LoopInv, ShutInv
    <3> QED BY <1>2, <3>3 DEF LoopInv
  <2> QED BY <2>3, <2>4
<1>5. CASE ~(main[2].delay >= 0)
  <2>1. UNCHANGED shutVars
    BY <1>5 DEF Serve
  <2> QED BY <1>1, <1>2, <2>1 DEF LoopInv, ShutInv, shutVars
<1> QED BY <1>4, <1>5

\* The other steps of the goroutines and of the main loop.
LEMMA OtherSteps ==
    ASSUME LoopInv, TimerStep \/ VethRecv \/ SelectVeth \/ FlushTx \/ Exit \/ UNCHANGED loopVars
    PROVE  LoopInv'
<1>1. rpcVars' = rpcVars /\ Busy' = Busy
  BY DEF TimerStep, TimerFires, TimerThread, TickSent, VethRecv, SelectVeth, FlushTx, Exit,
         loopVars, rpcVars, Busy
<1>2. CASE TimerStep \/ VethRecv \/ UNCHANGED loopVars
  <2>1. CASE TimerFires
    BY <1>1, <2>1 DEF TimerFires, rpcVars, shutVars, LoopInv, RpcInv, ShutInv
  <2>2. CASE TimerThread
    BY <1>1, <2>2 DEF TimerThread, rpcVars, shutVars, LoopInv, RpcInv, ShutInv
  <2>3. CASE TickSent
    BY <1>1, <2>3 DEF TickSent, rpcVars, shutVars, LoopInv, RpcInv, ShutInv
  <2>4. CASE VethRecv
    BY <1>1, <2>4 DEF VethRecv, rpcVars, shutVars, LoopInv, RpcInv, ShutInv
  <2>5. CASE UNCHANGED loopVars
    BY <1>1, <2>5 DEF loopVars, rpcVars, shutVars, LoopInv, RpcInv, ShutInv
  <2> QED BY <1>2, <2>1, <2>2, <2>3, <2>4, <2>5 DEF TimerStep
<1>3. CASE SelectVeth
  BY <1>1, <1>3 DEF SelectVeth, rpcVars, shutVars, LoopInv, RpcInv, ShutInv
<1>4. CASE FlushTx
  BY <1>1, <1>4 DEF FlushTx, rpcVars, shutVars, LoopInv, RpcInv, ShutInv
<1>5. CASE Exit
  BY <1>1, <1>5 DEF Exit, rpcVars, LoopInv, RpcInv, ShutInv
<1> QED BY <1>2, <1>3, <1>4, <1>5

\* However the goroutines interleave, the main loop answers the requests in
\* order, each once with its own result, never waits with packets unsent, and
\* is marked for shutdown exactly when the last request said.
THEOREM LoopIsSound == LoopSpec => []LoopSound
<1>1. LoopInv /\ [LoopNext]_loopVars => LoopInv'
  BY AskStep, RecvStep, SendStep, HandStep, TickStep, ServeStep, OtherSteps DEF LoopNext, MainStep
<1>2. LoopInv => LoopSound
  <2> SUFFICES ASSUME LoopInv PROVE LoopSound
    OBVIOUS
  <2>1. QuietWhenWaiting
    BY DEF LoopInv, ShutInv, QuietWhenWaiting
  <2>2. ShutdownWhenAsked
    BY DEF LoopInv, ShutInv, ShutdownWhenAsked
  <2>3. answered = [i \in 1..Len(answered) |-> i]
    BY DEF LoopInv, RpcInv
  <2>4. AnswersInOrder
    BY <2>3 DEF LoopInv, RpcInv, AnswersInOrder
  <2> QED BY <2>1, <2>2, <2>4 DEF LoopSound
<1> QED BY LoopInitInv, <1>1, <1>2, PTL DEF LoopSpec

-----------------------------------------------------------------------------
(* Loops *)

\* A set of natural numbers with 0 and the successors of its members is all of them.
LEMMA SetInduction ==
    ASSUME NEW T, 0 \in T, \A n \in T : n + 1 \in T
    PROVE  Nat \subseteq T
<1> SUFFICES ASSUME Nat \ T # {} PROVE FALSE
  OBVIOUS
<1> DEFINE R == OpToRel(<, Nat)
<1>1. IsWellFoundedOn(R, Nat)
  BY NatLessThanWellFounded
<1>2. PICK x \in Nat \ T : \A y \in Nat \ T : ~ (<<y, x>> \in R)
  BY <1>1, WFMin
<1>3. \A y \in Nat \ T : ~(y < x)
  BY <1>2 DEF OpToRel
<1> HIDE DEF R
<1>4. x # 0 /\ x - 1 \in Nat /\ x - 1 < x
  BY <1>2
<1>5. x - 1 \in T
  BY <1>3, <1>4
<1>6. x - 1 + 1 = x
  BY <1>4
<1> QED BY <1>2, <1>5, <1>6

\* f has the values of a loop of n turns that starts with b and whose turn i maps v to g[<<i, v>>]
IsLoop(f, b, g, n) == f[0] = b /\ \A i \in 1..n : f[i] = g[<<i, f[i - 1]>>]

\* A loop has its values.
LEMMA LoopIs ==
    ASSUME NEW V, NEW b \in V, NEW n \in Nat, NEW g \in [(1..n) \X V -> V]
    PROVE  \E f \in [0..n -> V] : IsLoop(f, b, g, n)
<1> DEFINE Loop(f, k) == IsLoop(f, b, g, k)
           T == {k \in Nat : k <= n => \E f \in [0..k -> V] : Loop(f, k)}
<1>1. 0 \in T
  <2> DEFINE f == [i \in 0..0 |-> b]
  <2>1. f \in [0..0 -> V] /\ Loop(f, 0)
    BY DEF IsLoop
  <2> QED BY <2>1
<1>2. ASSUME NEW k \in T PROVE k + 1 \in T
  <2>1. k \in Nat
    OBVIOUS
  <2> SUFFICES ASSUME k + 1 <= n PROVE \E f \in [0 .. k + 1 -> V] : Loop(f, k + 1)
    BY <2>1
  <2>2. PICK f \in [0..k -> V] : Loop(f, k)
    BY <2>1
  <2> DEFINE h == [i \in 0 .. k + 1 |-> IF i = k + 1 THEN g[<<k + 1, f[k]>>] ELSE f[i]]
  <2>3. f[k] \in V /\ <<k + 1, f[k]>> \in (1..n) \X V
    BY <2>1
  <2>4. g[<<k + 1, f[k]>>] \in V
    BY <2>3
  <2>5. h \in [0 .. k + 1 -> V]
    BY <2>1, <2>4
  <2>6. h[0] = b
    BY <2>1, <2>2 DEF IsLoop
  <2>7. ASSUME NEW i \in 1 .. k + 1 PROVE h[i] = g[<<i, h[i - 1]>>]
    <3>1. CASE i = k + 1
      <4>1. h[i] = g[<<k + 1, f[k]>>] /\ h[i - 1] = f[k]
        BY <2>1, <3>1
      <4> QED BY <3>1, <4>1
    <3>2. CASE i # k + 1
      <4>1. i \in 1..k /\ h[i] = f[i] /\ h[i - 1] = f[i - 1]
        BY <2>1, <3>2
      <4> QED BY <2>2, <4>1 DEF IsLoop
    <3> QED BY <3>1, <3>2
  <2> HIDE DEF h
  <2> QED BY <2>5, <2>6, <2>7 DEF IsLoop
<1>3. Nat \subseteq T
  <2> HIDE DEF T
  <2> QED BY <1>1, <1>2, SetInduction
<1>4. n \in T
  BY <1>3
<1> QED BY <1>4

\* Two loops with the same start and the same turns have the same values.
SameTurns(f, h, n) == f[0] = h[0] /\ \A i \in 1..n : f[i - 1] = h[i - 1] => f[i] = h[i]

LEMMA SameLoop ==
    ASSUME NEW n \in Nat, NEW f, NEW h, SameTurns(f, h, n)
    PROVE  \A i \in 0..n : f[i] = h[i]
<1> DEFINE T == {k \in Nat : k <= n => f[k] = h[k]}
<1>1. 0 \in T
  BY DEF SameTurns
<1>2. ASSUME NEW k \in T PROVE k + 1 \in T
  <2>1. k \in Nat
    OBVIOUS
  <2>2. k + 1 <= n => k + 1 \in 1..n /\ (k + 1) - 1 = k /\ k <= n
    BY <2>1
  <2> QED BY <2>1, <2>2 DEF SameTurns
<1>3. Nat \subseteq T
  <2> HIDE DEF T
  <2> QED BY <1>1, <1>2, SetInduction
<1> QED BY <1>3

-----------------------------------------------------------------------------
(* The offsets of the packets of a message *)

\* the values of the loop that Offset describes
OffLoop(msg, n, f) ==
    f = [i \in 0..n |-> IF i = 0 THEN HdrSize ELSE f[i - 1] + HdrSize + msg[i].len]

\* Offset is the value of that loop after its last turn.
LEMMA OffsetLoop ==
    ASSUME NEW msg \in Seq(Packet), NEW n \in 0..Len(msg)
    PROVE  \E f \in [0..n -> Nat] : OffLoop(msg, n, f) /\ Offset(msg, n) = f[n]
<1> DEFINE g == [x \in (1..n) \X Nat |-> x[2] + HdrSize + msg[x[1]].len]
           up == CHOOSE f : f = [i \in 0..n |-> IF i = 0 THEN HdrSize ELSE f[i - 1] + HdrSize + msg[i].len]
<1>0. n \in Nat /\ HdrSize \in Nat /\ \A i \in 1..n : msg[i].len \in Nat
  <2>1. \A i \in 1..n : i \in 1..Len(msg)
    OBVIOUS
  <2>2. \A i \in 1..n : msg[i] \in Packet
    BY <2>1
  <2>3. HdrSize \in Nat /\ \A p \in Packet : p.len \in Nat
    BY VethAssumption DEF SizesFit, Packet
  <2>4. n \in Nat
    OBVIOUS
  <2> QED BY <2>2, <2>3, <2>4
<1>1. g \in [(1..n) \X Nat -> Nat]
  BY <1>0
<1>2. PICK f \in [0..n -> Nat] : IsLoop(f, HdrSize, g, n)
  <2> HIDE DEF g
  <2> QED BY <1>0, <1>1, LoopIs
<1>3. ASSUME NEW i \in 0..n
      PROVE  f[i] = IF i = 0 THEN HdrSize ELSE f[i - 1] + HdrSize + msg[i].len
  <2>1. CASE i = 0
    BY <1>2, <2>1 DEF IsLoop
  <2>2. CASE i # 0
    <3>1. i \in 1..n /\ i - 1 \in 0..n
      BY <1>0, <2>2
    <3>2. <<i, f[i - 1]>> \in (1..n) \X Nat
      BY <3>1
    <3>3. g[<<i, f[i - 1]>>] = f[i - 1] + HdrSize + msg[i].len
      BY <3>2
    <3> HIDE DEF g
    <3> QED BY <1>2, <2>2, <3>1, <3>3 DEF IsLoop
  <2> QED BY <2>1, <2>2
<1>4. f = [i \in 0..n |-> IF i = 0 THEN HdrSize ELSE f[i - 1] + HdrSize + msg[i].len]
  <2> DEFINE h == [i \in 0..n |-> IF i = 0 THEN HdrSize ELSE f[i - 1] + HdrSize + msg[i].len]
  <2>1. \A i \in 0..n : f[i] = h[i]
    BY <1>3
  <2>2. DOMAIN h = 0..n /\ h = [i \in 0..n |-> h[i]]
    OBVIOUS
  <2> HIDE DEF h
  <2>3. f = h
    BY <2>1, <2>2
  <2> QED BY <2>3 DEF h
<1>5. up = [i \in 0..n |-> IF i = 0 THEN HdrSize ELSE up[i - 1] + HdrSize + msg[i].len]
  BY <1>4
<1>6. Offset(msg, n) = up[n]
  BY DEF Offset
<1> HIDE DEF up, g
<1>7. up[0] = f[0]
  BY <1>0, <1>2, <1>5 DEF IsLoop
<1>8. ASSUME NEW i \in 1..n, up[i - 1] = f[i - 1] PROVE up[i] = f[i]
  <2>1. i \in 0..n /\ i # 0
    BY <1>0
  <2>2. up[i] = up[i - 1] + HdrSize + msg[i].len
    BY <1>5, <2>1
  <2>3. f[i] = f[i - 1] + HdrSize + msg[i].len
    BY <1>3, <2>1
  <2> QED BY <1>8, <2>2, <2>3
<1>9. \A i \in 0..n : up[i] = f[i]
  <2>1. SameTurns(up, f, n)
    BY <1>7, <1>8 DEF SameTurns
  <2>2. n \in Nat
    BY <1>0
  <2>3. \A x, y : SameTurns(x, y, n) => \A i \in 0..n : x[i] = y[i]
    BY <2>2, SameLoop, Zenon
  <2> QED BY <2>1, <2>3, Zenon
<1>10. up[n] = f[n]
  BY <1>0, <1>9
<1> QED BY <1>4, <1>6, <1>10 DEF OffLoop

\* The offset of a packet is that of the one before it and its own length.
LEMMA OffsetIs ==
    ASSUME NEW msg \in Seq(Packet), NEW n \in 0..Len(msg)
    PROVE  /\ Offset(msg, n) \in Nat
           /\ n = 0 => Offset(msg, n) = HdrSize
           /\ n # 0 => Offset(msg, n) = Offset(msg, n - 1) + HdrSize + msg[n].len
<1>0. n \in Nat
  OBVIOUS
<1>1. PICK f \in [0..n -> Nat] : OffLoop(msg, n, f) /\ Offset(msg, n) = f[n]
  BY OffsetLoop
<1>2. f = [i \in 0..n |-> IF i = 0 THEN HdrSize ELSE f[i - 1] + HdrSize + msg[i].len]
  BY <1>1 DEF OffLoop
<1>3. f[0] = HdrSize /\ \A i \in 1..n : f[i] = f[i - 1] + HdrSize + msg[i].len
  BY <1>0, <1>2
<1>4. f[n] \in Nat
  BY <1>0
<1>5. CASE n # 0
  <2>1. n - 1 \in 0..Len(msg) /\ n - 1 \in Nat
    BY <1>0, <1>5
  <2>2. PICK h \in [0 .. n - 1 -> Nat] : OffLoop(msg, n - 1, h) /\ Offset(msg, n - 1) = h[n - 1]
    BY <2>1, OffsetLoop
  <2>3. h = [i \in 0 .. n - 1 |-> IF i = 0 THEN HdrSize ELSE h[i - 1] + HdrSize + msg[i].len]
    BY <2>2 DEF OffLoop
  <2>4. h[0] = HdrSize /\ \A i \in 1 .. n - 1 : h[i] = h[i - 1] + HdrSize + msg[i].len
    <3>1. 0 \in 0 .. n - 1 /\ \A i \in 1 .. n - 1 : i \in 0 .. n - 1 /\ i # 0
      BY <2>1
    <3> QED BY <2>3, <3>1
  <2>5. \A i \in 1 .. n - 1 : f[i - 1] = h[i - 1] => f[i] = h[i]
    BY <1>0, <1>3, <2>4
  <2>6. \A i \in 0 .. n - 1 : f[i] = h[i]
    <3>1. f[0] = h[0]
      BY <1>3, <2>4
    <3>2. SameTurns(f, h, n - 1)
      BY <2>5, <3>1 DEF SameTurns
    <3> DEFINE k == n - 1
    <3>3. k \in Nat /\ SameTurns(f, h, k)
      BY <2>1, <3>2
    <3> HIDE DEF k
    <3>4. \A i \in 0..k : f[i] = h[i]
      <4>1. \A x, y : SameTurns(x, y, k) => \A i \in 0..k : x[i] = y[i]
        BY <3>3, SameLoop, Zenon
      <4> QED BY <3>3, <4>1, Zenon
    <3> QED BY <3>4 DEF k
  <2>7. f[n - 1] = h[n - 1] /\ n \in 1..n
    BY <1>0, <1>5, <2>1, <2>6
  <2> QED BY <1>1, <1>3, <1>4, <1>5, <2>2, <2>7
<1> QED BY <1>1, <1>3, <1>4, <1>5

\* A message that goes on after its first n packets has them where they were.
LEMMA OffsetKept ==
    ASSUME NEW msg \in Seq(Packet), NEW new \in Seq(Packet), NEW n \in 0..Len(msg), n <= Len(new),
           \A i \in 1..n : new[i] = msg[i]
    PROVE  Offset(new, n) = Offset(msg, n)
<1> DEFINE f == [i \in 0..n |-> Offset(new, i)]
           h == [i \in 0..n |-> Offset(msg, i)]
<1>0. n \in Nat /\ \A i \in 0..n : i \in 0..Len(msg) /\ i \in 0..Len(new)
  OBVIOUS
<1>1. Offset(new, 0) = Offset(msg, 0)
  BY <1>0, OffsetIs
<1>2. ASSUME NEW i \in 1..n, Offset(new, i - 1) = Offset(msg, i - 1)
      PROVE  Offset(new, i) = Offset(msg, i)
  <2>1. i \in 0..Len(msg) /\ i \in 0..Len(new) /\ i # 0
    BY <1>0
  <2>2. Offset(new, i) = Offset(new, i - 1) + HdrSize + new[i].len
    BY <2>1, OffsetIs
  <2>3. Offset(msg, i) = Offset(msg, i - 1) + HdrSize + msg[i].len
    BY <2>1, OffsetIs
  <2> QED BY <1>2, <2>2, <2>3
<1>3. f[0] = h[0] /\ \A i \in 1..n : f[i - 1] = h[i - 1] => f[i] = h[i]
  BY <1>0, <1>1, <1>2
<1>4. \A i \in 0..n : f[i] = h[i]
  <2> HIDE DEF f, h
  <2>1. SameTurns(f, h, n)
    BY <1>3 DEF SameTurns
  <2>2. n \in Nat
    BY <1>0
  <2>3. \A x, y : SameTurns(x, y, n) => \A i \in 0..n : x[i] = y[i]
    BY <2>2, SameLoop, Zenon
  <2> QED BY <2>1, <2>3, Zenon
<1>5. f[n] = h[n]
  BY <1>0, <1>4
<1> QED BY <1>0, <1>5

\* Offsets grow.
LEMMA OffsetGrows ==
    ASSUME NEW msg \in Seq(Packet), NEW m \in 0..Len(msg), NEW n \in 0..Len(msg), m < n
    PROVE  Offset(msg, m) < Offset(msg, n)
<1> DEFINE T == {k \in Nat : m + 1 + k <= Len(msg) => Offset(msg, m) < Offset(msg, m + 1 + k)}
<1>0. m \in Nat /\ n \in Nat /\ Len(msg) \in Nat /\ HdrSize \in Nat \ {0}
  BY VethAssumption DEF SizesFit
<1>1. ASSUME NEW i \in 1..Len(msg) PROVE Offset(msg, i - 1) < Offset(msg, i)
  <2>1. msg[i] \in Packet
    OBVIOUS
  <2>2. msg[i].len \in Nat
    BY <2>1, VethAssumption DEF Packet, SizesFit
  <2>3. i \in 0..Len(msg) /\ i - 1 \in 0..Len(msg) /\ i # 0
    BY <1>0
  <2>4. Offset(msg, i - 1) \in Nat /\ Offset(msg, i) = Offset(msg, i - 1) + HdrSize + msg[i].len
    BY <2>3, OffsetIs
  <2> QED BY <1>0, <2>2, <2>4
<1>2. 0 \in T
  <2>1. m + 1 <= Len(msg) => m + 1 \in 1..Len(msg) /\ (m + 1) - 1 = m
    BY <1>0
  <2> QED BY <1>0, <1>1, <2>1
<1>3. ASSUME NEW k \in T PROVE k + 1 \in T
  <2>1. k \in Nat
    OBVIOUS
  <2> SUFFICES ASSUME m + 1 + (k + 1) <= Len(msg) PROVE Offset(msg, m) < Offset(msg, m + 1 + (k + 1))
    BY <2>1
  <2> DEFINE i == m + 1 + (k + 1)
  <2>2. i \in 1..Len(msg) /\ i - 1 = m + 1 + k /\ m + 1 + k <= Len(msg) /\ i \in 0..Len(msg)
        /\ i - 1 \in 0..Len(msg)
    BY <1>0, <2>1
  <2>3. Offset(msg, i - 1) < Offset(msg, i)
    BY <1>1, <2>2
  <2>4. Offset(msg, m) < Offset(msg, i - 1)
    BY <2>2
  <2>5. Offset(msg, m) \in Nat /\ Offset(msg, i) \in Nat /\ Offset(msg, i - 1) \in Nat
    BY <2>2, OffsetIs
  <2> HIDE DEF i
  <2>6. Offset(msg, m) < Offset(msg, i)
    BY <2>3, <2>4, <2>5
  <2> QED BY <2>6 DEF i
<1>4. Nat \subseteq T
  <2> HIDE DEF T
  <2> QED BY <1>2, <1>3, SetInduction
<1>5. n - m - 1 \in Nat /\ m + 1 + (n - m - 1) = n
  BY <1>0
<1>6. n - m - 1 \in T
  BY <1>4, <1>5
<1> QED BY <1>0, <1>5, <1>6

-----------------------------------------------------------------------------
(* The packets of a sequence of messages *)

Then(a, b) == a \o b

\* What concatenation does.
LEMMA ThenIs ==
    ASSUME NEW S
    PROVE  /\ \A a, b \in Seq(S) : Then(a, b) \in Seq(S)
           /\ \A a \in Seq(S) : Then(a, <<>>) = a /\ Then(<<>>, a) = a
           /\ \A a, b, c \in Seq(S) : Then(Then(a, b), c) = Then(a, Then(b, c))
<1>1. ASSUME NEW a \in Seq(S), NEW b \in Seq(S) PROVE Then(a, b) \in Seq(S)
  BY DEF Then
<1>2. ASSUME NEW a \in Seq(S) PROVE Then(a, <<>>) = a /\ Then(<<>>, a) = a
  BY ConcatEmptySeq DEF Then
<1>3. ASSUME NEW a \in Seq(S), NEW b \in Seq(S), NEW c \in Seq(S)
      PROVE  Then(Then(a, b), c) = Then(a, Then(b, c))
  <2>1. (a \o b) \o c = a \o (b \o c)
    BY ConcatAssociative
  <2> QED BY <2>1 DEF Then
<1> QED BY <1>1, <1>2, <1>3

\* the values of the loop that Packets describes
PktLoop(msgs, n, f) ==
    f = [i \in 0..n |-> IF i = 0 THEN <<>> ELSE Then(f[i - 1], msgs[i])]

\* Packets is the value of that loop after its last turn.
LEMMA PacketsLoop ==
    ASSUME NEW msgs \in Seq(Seq(Packet)), NEW n \in 0..Len(msgs)
    PROVE  \E f \in [0..n -> Seq(Packet)] : PktLoop(msgs, n, f) /\ Packets(msgs, n) = f[n]
<1> DEFINE g == [x \in (1..n) \X Seq(Packet) |-> Then(x[2], msgs[x[1]])]
           up == CHOOSE f : f = [i \in 0..n |-> IF i = 0 THEN <<>> ELSE Then(f[i - 1], msgs[i])]
<1>0. n \in Nat /\ <<>> \in Seq(Packet) /\ \A i \in 1..n : msgs[i] \in Seq(Packet)
  <2>1. \A i \in 1..n : i \in 1..Len(msgs)
    OBVIOUS
  <2>2. \A i \in 1..n : msgs[i] \in Seq(Packet)
    BY <2>1
  <2>3. n \in Nat /\ <<>> \in Seq(Packet)
    OBVIOUS
  <2> QED BY <2>2, <2>3
<1>1. g \in [(1..n) \X Seq(Packet) -> Seq(Packet)]
  <2>1. \A a, b \in Seq(Packet) : Then(a, b) \in Seq(Packet)
    BY ThenIs
  <2> QED BY <1>0, <2>1
<1>2. PICK f \in [0..n -> Seq(Packet)] : IsLoop(f, <<>>, g, n)
  <2> HIDE DEF g
  <2> QED BY <1>0, <1>1, LoopIs
<1>3. ASSUME NEW i \in 0..n
      PROVE  f[i] = IF i = 0 THEN <<>> ELSE Then(f[i - 1], msgs[i])
  <2>1. CASE i = 0
    BY <1>2, <2>1 DEF IsLoop
  <2>2. CASE i # 0
    <3>1. i \in 1..n /\ i - 1 \in 0..n
      BY <1>0, <2>2
    <3>2. <<i, f[i - 1]>> \in (1..n) \X Seq(Packet)
      BY <3>1
    <3>3. g[<<i, f[i - 1]>>] = Then(f[i - 1], msgs[i])
      BY <3>2
    <3> HIDE DEF g
    <3> QED BY <1>2, <2>2, <3>1, <3>3 DEF IsLoop
  <2> QED BY <2>1, <2>2
<1>4. f = [i \in 0..n |-> IF i = 0 THEN <<>> ELSE Then(f[i - 1], msgs[i])]
  <2> DEFINE h == [i \in 0..n |-> IF i = 0 THEN <<>> ELSE Then(f[i - 1], msgs[i])]
  <2>1. \A i \in 0..n : f[i] = h[i]
    BY <1>3
  <2>2. DOMAIN h = 0..n /\ h = [i \in 0..n |-> h[i]]
    OBVIOUS
  <2> HIDE DEF h
  <2>3. f = h
    BY <2>1, <2>2
  <2> QED BY <2>3 DEF h
<1>5. up = [i \in 0..n |-> IF i = 0 THEN <<>> ELSE Then(up[i - 1], msgs[i])]
  BY <1>4
<1>6. Packets(msgs, n) = up[n]
  BY DEF Packets, Then
<1> HIDE DEF up, g
<1>7. up[0] = f[0]
  BY <1>0, <1>2, <1>5 DEF IsLoop
<1>8. ASSUME NEW i \in 1..n, up[i - 1] = f[i - 1] PROVE up[i] = f[i]
  <2>1. i \in 0..n /\ i # 0
    BY <1>0
  <2>2. up[i] = Then(up[i - 1], msgs[i])
    BY <1>5, <2>1
  <2>3. f[i] = Then(f[i - 1], msgs[i])
    BY <1>3, <2>1
  <2> QED BY <1>8, <2>2, <2>3
<1>9. \A i \in 0..n : up[i] = f[i]
  <2>1. SameTurns(up, f, n)
    BY <1>7, <1>8 DEF SameTurns
  <2>2. n \in Nat
    BY <1>0
  <2>3. \A x, y : SameTurns(x, y, n) => \A i \in 0..n : x[i] = y[i]
    BY <2>2, SameLoop, Zenon
  <2> QED BY <2>1, <2>3, Zenon
<1>10. up[n] = f[n]
  BY <1>0, <1>9
<1> QED BY <1>4, <1>6, <1>10 DEF PktLoop

\* The packets of n messages are those of the messages before, and then those of the last.
LEMMA PacketsIs ==
    ASSUME NEW msgs \in Seq(Seq(Packet)), NEW n \in 0..Len(msgs)
    PROVE  /\ Packets(msgs, n) \in Seq(Packet)
           /\ n = 0 => Packets(msgs, n) = <<>>
           /\ n # 0 => Packets(msgs, n) = Then(Packets(msgs, n - 1), msgs[n])
<1>0. n \in Nat
  OBVIOUS
<1>1. PICK f \in [0..n -> Seq(Packet)] : PktLoop(msgs, n, f) /\ Packets(msgs, n) = f[n]
  BY PacketsLoop
<1>2. f = [i \in 0..n |-> IF i = 0 THEN <<>> ELSE Then(f[i - 1], msgs[i])]
  BY <1>1 DEF PktLoop
<1>3. f[0] = <<>> /\ \A i \in 1..n : f[i] = Then(f[i - 1], msgs[i])
  BY <1>0, <1>2
<1>4. f[n] \in Seq(Packet)
  BY <1>0
<1>5. CASE n # 0
  <2>1. n - 1 \in 0..Len(msgs) /\ n - 1 \in Nat
    BY <1>0, <1>5
  <2>2. PICK h \in [0 .. n - 1 -> Seq(Packet)] : PktLoop(msgs, n - 1, h) /\ Packets(msgs, n - 1) = h[n - 1]
    BY <2>1, PacketsLoop
  <2>3. h = [i \in 0 .. n - 1 |-> IF i = 0 THEN <<>> ELSE Then(h[i - 1], msgs[i])]
    BY <2>2 DEF PktLoop
  <2>4. h[0] = <<>> /\ \A i \in 1 .. n - 1 : h[i] = Then(h[i - 1], msgs[i])
    <3>1. 0 \in 0 .. n - 1 /\ \A i \in 1 .. n - 1 : i \in 0 .. n - 1 /\ i # 0
      BY <2>1
    <3> QED BY <2>3, <3>1
  <2>5. \A i \in 1 .. n - 1 : f[i - 1] = h[i - 1] => f[i] = h[i]
    BY <1>0, <1>3, <2>4
  <2>6. \A i \in 0 .. n - 1 : f[i] = h[i]
    <3>1. f[0] = h[0]
      BY <1>3, <2>4
    <3>2. SameTurns(f, h, n - 1)
      BY <2>5, <3>1 DEF SameTurns
    <3> DEFINE k == n - 1
    <3>3. k \in Nat /\ SameTurns(f, h, k)
      BY <2>1, <3>2
    <3> HIDE DEF k
    <3>4. \A i \in 0..k : f[i] = h[i]
      <4>1. \A x, y : SameTurns(x, y, k) => \A i \in 0..k : x[i] = y[i]
        BY <3>3, SameLoop, Zenon
      <4> QED BY <3>3, <4>1, Zenon
    <3> QED BY <3>4 DEF k
  <2>7. f[n - 1] = h[n - 1] /\ n \in 1..n
    BY <1>0, <1>5, <2>1, <2>6
  <2> QED BY <1>1, <1>3, <1>4, <1>5, <2>2, <2>7
<1> QED BY <1>1, <1>3, <1>4, <1>5

\* Messages behind the first n do not change what those have.
LEMMA PacketsKept ==
    ASSUME NEW msgs \in Seq(Seq(Packet)), NEW new \in Seq(Seq(Packet)), NEW n \in 0..Len(msgs), n <= Len(new),
           \A i \in 1..n : new[i] = msgs[i]
    PROVE  Packets(new, n) = Packets(msgs, n)
<1> DEFINE f == [i \in 0..n |-> Packets(new, i)]
           h == [i \in 0..n |-> Packets(msgs, i)]
<1>0. n \in Nat /\ \A i \in 0..n : i \in 0..Len(msgs) /\ i \in 0..Len(new)
  OBVIOUS
<1>1. Packets(new, 0) = Packets(msgs, 0)
  BY <1>0, PacketsIs
<1>2. ASSUME NEW i \in 1..n, Packets(new, i - 1) = Packets(msgs, i - 1)
      PROVE  Packets(new, i) = Packets(msgs, i)
  <2>1. i \in 0..Len(msgs) /\ i \in 0..Len(new) /\ i # 0
    BY <1>0
  <2>2. Packets(new, i) = Then(Packets(new, i - 1), new[i])
    BY <2>1, PacketsIs
  <2>3. Packets(msgs, i) = Then(Packets(msgs, i - 1), msgs[i])
    BY <2>1, PacketsIs
  <2> QED BY <1>2, <2>2, <2>3
<1>3. f[0] = h[0] /\ \A i \in 1..n : f[i - 1] = h[i - 1] => f[i] = h[i]
  BY <1>0, <1>1, <1>2
<1>4. \A i \in 0..n : f[i] = h[i]
  <2> HIDE DEF f, h
  <2>1. SameTurns(f, h, n)
    BY <1>3 DEF SameTurns
  <2>2. n \in Nat
    BY <1>0
  <2>3. \A x, y : SameTurns(x, y, n) => \A i \in 0..n : x[i] = y[i]
    BY <2>2, SameLoop, Zenon
  <2> QED BY <2>1, <2>3, Zenon
<1>5. f[n] = h[n]
  BY <1>0, <1>4
<1> QED BY <1>0, <1>5

\* The packets of the first message come first.
LEMMA PacketsFirst ==
    ASSUME NEW msgs \in Seq(Seq(Packet)), msgs # <<>>
    PROVE  Packets(msgs, Len(msgs)) = Then(Head(msgs), Packets(Tail(msgs), Len(msgs) - 1))
<1> DEFINE t == Tail(msgs)
           N == Len(msgs) - 1
           T == {k \in Nat : k <= N => Packets(msgs, k + 1) = Then(Head(msgs), Packets(t, k))}
<1>0. /\ N \in Nat /\ N + 1 = Len(msgs) /\ t \in Seq(Seq(Packet)) /\ Len(t) = N
      /\ \A i \in 1..N : t[i] = msgs[i + 1] /\ t[i] \in Seq(Packet)
      /\ Head(msgs) = msgs[1] /\ msgs[1] \in Seq(Packet)
  OBVIOUS
<1> HIDE DEF t, N
<1>1. 0 \in T
  <2>1. Packets(t, 0) = <<>>
    BY <1>0, PacketsIs
  <2>2. 1 \in 0..Len(msgs) /\ 0 \in 0..Len(msgs) /\ 1 - 1 = 0
    BY <1>0
  <2>3. Packets(msgs, 0) = <<>>
    BY <2>2, PacketsIs
  <2>4. Packets(msgs, 1) = Then(Packets(msgs, 1 - 1), msgs[1])
    BY <2>2, PacketsIs
  <2>5. Packets(msgs, 1) = Head(msgs)
    BY <1>0, <2>2, <2>3, <2>4, ThenIs
  <2>6. Then(Head(msgs), <<>>) = Head(msgs)
    BY <1>0, ThenIs
  <2> QED BY <2>1, <2>5, <2>6
<1>2. ASSUME NEW k \in T PROVE k + 1 \in T
  <2>1. k \in Nat
    OBVIOUS
  <2> SUFFICES ASSUME k + 1 <= N PROVE Packets(msgs, (k + 1) + 1) = Then(Head(msgs), Packets(t, k + 1))
    BY <2>1
  <2>2. /\ k \in 0..Len(t) /\ k + 1 \in 0..Len(t) /\ k + 1 # 0 /\ (k + 1) - 1 = k /\ k <= N
        /\ k + 2 \in 0..Len(msgs) /\ k + 2 # 0 /\ (k + 2) - 1 = k + 1 /\ (k + 1) + 1 = k + 2
        /\ k + 1 \in 1..N
    BY <1>0, <2>1
  <2> DEFINE a == Packets(t, k)
             m == msgs[k + 2]
  <2>3. Packets(msgs, k + 1) = Then(Head(msgs), a)
    BY <2>2
  <2>4. a \in Seq(Packet) /\ Packets(t, k + 1) = Then(a, t[k + 1])
    BY <1>0, <2>2, PacketsIs
  <2>5. Packets(msgs, k + 2) = Then(Packets(msgs, k + 1), m)
    BY <2>2, PacketsIs
  <2>6. t[k + 1] = m /\ m \in Seq(Packet)
    BY <1>0, <2>2
  <2> HIDE DEF a, m
  <2>7. Then(Then(Head(msgs), a), m) = Then(Head(msgs), Then(a, m))
    BY <1>0, <2>4, <2>6, ThenIs
  <2> QED BY <2>2, <2>3, <2>4, <2>5, <2>6, <2>7
<1>3. Nat \subseteq T
  <2> HIDE DEF T
  <2> QED BY <1>1, <1>2, SetInduction
<1>4. N \in T
  BY <1>0, <1>3
<1> QED BY <1>0, <1>4 DEF t, N

\* A message at the end.
LEMMA PacketsMore ==
    ASSUME NEW msgs \in Seq(Seq(Packet)), NEW m \in Seq(Packet)
    PROVE  /\ Append(msgs, m) \in Seq(Seq(Packet)) /\ Packets(msgs, Len(msgs)) \in Seq(Packet)
           /\ Packets(Append(msgs, m), Len(Append(msgs, m))) = Then(Packets(msgs, Len(msgs)), m)
<1> DEFINE w == Append(msgs, m)
           n == Len(msgs)
<1>1. /\ w \in Seq(Seq(Packet)) /\ Len(w) = n + 1 /\ w[n + 1] = m /\ n \in Nat
      /\ \A i \in 1..n : w[i] = msgs[i]
  OBVIOUS
<1> HIDE DEF w
<1>2. n \in 0..Len(msgs) /\ n <= Len(w) /\ n + 1 \in 0..Len(w) /\ n + 1 # 0 /\ (n + 1) - 1 = n
  BY <1>1
<1>3. Packets(w, n) = Packets(msgs, n) /\ Packets(msgs, n) \in Seq(Packet)
  BY <1>1, <1>2, PacketsKept, PacketsIs
<1>4. Packets(w, n + 1) = Then(Packets(w, (n + 1) - 1), w[n + 1])
  BY <1>1, <1>2, PacketsIs
<1>5. Packets(w, Len(w)) = Then(Packets(msgs, n), m)
  BY <1>1, <1>2, <1>3, <1>4
<1> QED BY <1>1, <1>3, <1>5 DEF w

-----------------------------------------------------------------------------
(* Batches *)

\* what Send knows of the packets it has collected
Batch(m, size) ==
    /\ m \in Seq(Packet) /\ size \in Nat
    /\ Offset(m, Len(m)) = size + HdrSize * (Len(m) + 1)
    /\ Len(m) <= BurstSize
    /\ size < MaxBuffer \/ Len(m) = 1

\* a message whose offsets OnRxStream can count
Fits(m) == m \in Seq(Packet) /\ m # <<>> /\ Offset(m, Len(m)) < OffMod

\* The empty vector.
LEMMA BatchEmpty == Batch(<<>>, 0)
<1>1. <<>> \in Seq(Packet) /\ Len(<<>>) = 0
  OBVIOUS
<1>2. Offset(<<>>, 0) = HdrSize
  <2> DEFINE e == <<>>
  <2>1. e \in Seq(Packet) /\ 0 \in 0..Len(e)
    BY <1>1
  <2> HIDE DEF e
  <2>2. Offset(e, 0) = HdrSize
    BY <2>1, OffsetIs
  <2> QED BY <2>2 DEF e
<1>3. HdrSize * (0 + 1) = HdrSize /\ 0 < MaxBuffer /\ 0 <= BurstSize /\ HdrSize \in Nat
  BY VethAssumption DEF SizesFit
<1> QED BY <1>1, <1>2, <1>3 DEF Batch

\* One packet more, which the buffer has room for unless it is the first.
LEMMA BatchMore ==
    ASSUME NEW v, NEW size, Batch(v, size), Len(v) < BurstSize, NEW p \in Packet,
           ~(size + p.len >= MaxBuffer /\ v # <<>>)
    PROVE  Batch(Append(v, p), size + p.len)
<1> DEFINE w == Append(v, p)
           n == Len(v)
<1>0. /\ HdrSize \in Nat /\ MaxBuffer \in Nat /\ BurstSize \in Nat /\ p.len \in Nat
      /\ v \in Seq(Packet) /\ size \in Nat /\ n < BurstSize
  BY VethAssumption DEF SizesFit, Packet, Batch
<1>1. /\ w \in Seq(Packet) /\ Len(w) = n + 1 /\ w[n + 1] = p /\ n \in Nat
      /\ \A i \in 1..n : w[i] = v[i]
  BY <1>0
<1> HIDE DEF w
<1>2. n \in 0..Len(v) /\ n <= Len(w) /\ n + 1 \in 0..Len(w) /\ n + 1 # 0 /\ (n + 1) - 1 = n
  BY <1>1
<1>3. Offset(w, n) = Offset(v, n)
  BY <1>0, <1>1, <1>2, OffsetKept
<1>4. Offset(w, n + 1) = Offset(w, (n + 1) - 1) + HdrSize + w[n + 1].len
  BY <1>1, <1>2, OffsetIs
<1>5. Offset(w, n + 1) = (size + HdrSize * (n + 1)) + HdrSize + p.len
  BY <1>1, <1>2, <1>3, <1>4 DEF Batch
<1>6. (size + HdrSize * (n + 1)) + HdrSize + p.len = (size + p.len) + HdrSize * ((n + 1) + 1)
  BY <1>0, <1>1
<1>7. size + p.len < MaxBuffer \/ Len(w) = 1
  <2>1. CASE v = <<>>
    BY <1>1, <2>1
  <2>2. CASE v # <<>>
    BY <1>0, <2>2
  <2> QED BY <2>1, <2>2
<1>8. Len(w) <= BurstSize /\ size + p.len \in Nat
  BY <1>0, <1>1
<1> QED BY <1>1, <1>5, <1>6, <1>7, <1>8 DEF Batch, w

\* A batch of one packet.
LEMMA BatchOne ==
    ASSUME NEW p \in Packet
    PROVE  Batch(<<p>>, p.len)
<1>1. 0 < BurstSize /\ Len(<<>>) = 0 /\ p.len \in Nat /\ 0 + p.len = p.len
  <2>1. p.len \in Nat
    BY VethAssumption DEF SizesFit, Packet
  <2>2. 0 < BurstSize
    BY VethAssumption DEF SizesFit
  <2> QED BY <2>1, <2>2
<1>2. Append(<<>>, p) = <<p>>
  OBVIOUS
<1>3. Batch(Append(<<>>, p), 0 + p.len)
  BY <1>1, BatchEmpty, BatchMore
<1> QED BY <1>1, <1>2, <1>3

\* No batch is so long that an offset wraps.
LEMMA BatchFits ==
    ASSUME NEW m, NEW size, Batch(m, size), m # <<>>
    PROVE  Fits(m)
<1> DEFINE n == Len(m)
<1>0. /\ HdrSize \in Nat /\ MaxBuffer \in Nat /\ BurstSize \in Nat /\ OffMod \in Nat
      /\ MaxBuffer + HdrSize * (BurstSize + 1) < OffMod
      /\ m \in Seq(Packet) /\ size \in Nat /\ n \in Nat /\ n <= BurstSize
      /\ Offset(m, n) = size + HdrSize * (n + 1)
      /\ size < MaxBuffer \/ n = 1
  BY VethAssumption DEF SizesFit, Batch
<1>1. CASE size < MaxBuffer
  <2>1. HdrSize * (n + 1) <= HdrSize * (BurstSize + 1)
    <3>1. HdrSize * (BurstSize + 1) = HdrSize * (n + 1) + HdrSize * (BurstSize - n)
      BY <1>0
    <3>2. HdrSize * (BurstSize - n) \in Nat /\ HdrSize * (n + 1) \in Nat
      BY <1>0
    <3> QED BY <3>1, <3>2
  <2>2. HdrSize * (n + 1) \in Nat /\ HdrSize * (BurstSize + 1) \in Nat
    BY <1>0
  <2>3. Offset(m, n) < OffMod
    BY <1>0, <1>1, <2>1, <2>2
  <2> QED BY <1>0, <2>3 DEF Fits
<1>2. CASE n = 1
  <2>1. m[1] \in Packet
    BY <1>0, <1>2
  <2>2. m[1].len \in PktLens /\ m[1].len \in Nat
    BY <2>1, VethAssumption DEF Packet, SizesFit
  <2>3. m[1].len + 2 * HdrSize < OffMod
    BY <2>2, VethAssumption DEF SizesFit
  <2>4. 1 \in 0..Len(m) /\ 0 \in 0..Len(m) /\ 1 - 1 = 0
    BY <1>2
  <2>5. Offset(m, 0) = HdrSize
    BY <1>0, <2>4, OffsetIs
  <2>6. Offset(m, 1) = Offset(m, 1 - 1) + HdrSize + m[1].len
    BY <1>0, <2>4, OffsetIs
  <2>7. Offset(m, n) < OffMod
    BY <1>0, <1>2, <2>2, <2>3, <2>4, <2>5, <2>6
  <2> QED BY <1>0, <2>7 DEF Fits
<1> QED BY <1>0, <1>1, <1>2

\* The offset of a packet tells which one it is.
LEMMA FoundAt ==
    ASSUME NEW msg \in Seq(Packet), NEW i \in 1..Len(msg)
    PROVE  AtOffset(msg, Offset(msg, i - 1)) = i
<1>1. DOMAIN msg = 1..Len(msg) /\ Len(msg) \in Nat
  OBVIOUS
<1>2. ASSUME NEW j \in 1..Len(msg), Offset(msg, j - 1) = Offset(msg, i - 1)
      PROVE  j = i
  <2>1. /\ i \in Int /\ j \in Int /\ i - 1 \in 0..Len(msg) /\ j - 1 \in 0..Len(msg)
    BY <1>1
  <2>2. Offset(msg, i - 1) \in Nat
    BY <2>1, OffsetIs
  <2>3. ~(j - 1 < i - 1)
    <3> SUFFICES ASSUME j - 1 < i - 1 PROVE FALSE
      OBVIOUS
    <3>1. Offset(msg, j - 1) < Offset(msg, i - 1)
      BY <2>1, OffsetGrows
    <3> QED BY <1>2, <2>2, <3>1
  <2>4. ~(i - 1 < j - 1)
    <3> SUFFICES ASSUME i - 1 < j - 1 PROVE FALSE
      OBVIOUS
    <3>1. Offset(msg, i - 1) < Offset(msg, j - 1)
      BY <2>1, OffsetGrows
    <3> QED BY <1>2, <2>2, <3>1
  <2> QED BY <2>1, <2>3, <2>4
<1> DEFINE o == Offset(msg, i - 1)
           At(j) == Offset(msg, j - 1) = o
<1>3. At(i) /\ \A j \in DOMAIN msg : At(j) => j = i
  BY <1>1, <1>2
<1>4. AtOffset(msg, o) = IF \E j \in DOMAIN msg : At(j) THEN CHOOSE j \in DOMAIN msg : At(j) ELSE 0
  BY DEF AtOffset
<1> HIDE DEF At
<1>5. i \in DOMAIN msg
  BY <1>1
<1> QED BY <1>3, <1>4, <1>5

-----------------------------------------------------------------------------
(* What is on its way *)

\* A packet added behind, and the first one taken.
LEMMA ThenEnds ==
    ASSUME NEW S, NEW a \in Seq(S), NEW b \in Seq(S)
    PROVE  /\ \A p \in S : Append(Then(a, b), p) = Then(a, Append(b, p))
           /\ a # <<>> => /\ Then(a, b) # <<>> /\ Head(Then(a, b)) = Head(a)
                          /\ Tail(Then(a, b)) = Then(Tail(a), b)
<1>1. ASSUME NEW p \in S PROVE Append(a \o b, p) = a \o Append(b, p)
  OBVIOUS
<1>2. ASSUME a # <<>>
      PROVE  a \o b # <<>> /\ Head(a \o b) = Head(a) /\ Tail(a \o b) = Tail(a) \o b
  BY <1>2
<1> QED BY <1>1, <1>2 DEF Then

\* the packets the sender has flushed and those it has collected
Ahead(w, v) == Then(Packets(w, Len(w)), v)

\* A flush changes nothing, a packet is added at the end, and the goroutine
\* takes the first message.
LEMMA AheadSteps ==
    ASSUME NEW w \in Seq(Seq(Packet)), NEW v \in Seq(Packet)
    PROVE  /\ Ahead(w, v) \in Seq(Packet)
           /\ Append(w, v) \in Seq(Seq(Packet)) /\ Ahead(Append(w, v), <<>>) = Ahead(w, v)
           /\ \A p \in Packet : Ahead(w, Append(v, p)) = Append(Ahead(w, v), p)
           /\ w # <<>> => /\ Head(w) \in Seq(Packet) /\ Tail(w) \in Seq(Seq(Packet))
                          /\ Ahead(w, v) = Then(Head(w), Ahead(Tail(w), v))
<1> DEFINE x == Packets(w, Len(w))
<1>1. x \in Seq(Packet) /\ Append(w, v) \in Seq(Seq(Packet)) /\ <<>> \in Seq(Packet)
      /\ Packets(Append(w, v), Len(Append(w, v))) = Then(x, v)
  BY PacketsMore
<1> HIDE DEF x
<1>2. Ahead(w, v) = Then(x, v) /\ Then(x, v) \in Seq(Packet)
  BY <1>1, ThenIs DEF Ahead, x
<1>3. Ahead(Append(w, v), <<>>) = Ahead(w, v)
  <2>1. Then(Then(x, v), <<>>) = Then(x, v)
    BY <1>2, ThenIs
  <2> QED BY <1>1, <1>2, <2>1 DEF Ahead
<1>4. ASSUME NEW p \in Packet PROVE Ahead(w, Append(v, p)) = Append(Ahead(w, v), p)
  <2>1. Append(Then(x, v), p) = Then(x, Append(v, p))
    BY <1>1, ThenEnds
  <2> QED BY <1>2, <2>1 DEF Ahead, x
<1>5. ASSUME w # <<>>
      PROVE  /\ Head(w) \in Seq(Packet) /\ Tail(w) \in Seq(Seq(Packet))
             /\ Ahead(w, v) = Then(Head(w), Ahead(Tail(w), v))
  <2> DEFINE h == Head(w)
             t == Tail(w)
             y == Packets(t, Len(t))
  <2>1. h \in Seq(Packet) /\ t \in Seq(Seq(Packet)) /\ Len(t) = Len(w) - 1
    BY <1>5
  <2>2. x = Then(h, y)
    BY <1>5, <2>1, PacketsFirst DEF x
  <2>3. y \in Seq(Packet)
    BY <2>1, PacketsMore
  <2> HIDE DEF h, t, y
  <2>4. Then(Then(h, y), v) = Then(h, Then(y, v))
    BY <2>1, <2>3, ThenIs
  <2>5. Ahead(w, v) = Then(h, Then(y, v))
    BY <1>2, <2>2, <2>4
  <2>6. Ahead(t, v) = Then(y, v)
    BY DEF Ahead, y
  <2> QED BY <2>1, <2>5, <2>6 DEF h, t
<1> QED BY <1>1, <1>2, <1>3, <1>4, <1>5

-----------------------------------------------------------------------------
(* The two processes *)

\* the sender: what it has collected is a batch that can still grow, and every message fits
Sending(w, v, size) ==
    /\ Batch(v, size) /\ Len(v) < BurstSize
    /\ w \in Seq(Seq(Packet)) /\ \A k \in 1..Len(w) : Fits(w[k])

\* the receiver: its messages fit, and the parser is at the beginning of a packet
Receiving(r, c, o) ==
    /\ r \in Seq(Packet) /\ (r # <<>> => Fits(r))
    /\ c \in Seq(Packet) /\ (c # <<>> => Fits(c) /\ \E i \in 1..Len(c) : o = Offset(c, i - 1))

\* The inductive invariant.
VethInv ==
    /\ sent \in 0..MaxPkts
    /\ Sending(wire, txVec, txVecSize) /\ Receiving(rxOffer, cur, of)
    /\ rxParseErr = 0

\* what is left of message c at offset o
Left(c, o) == IF c = NoMsg \/ AtOffset(c, o) = 0 THEN <<>> ELSE SubSeq(c, AtOffset(c, o), Len(c))

\* The parser has still to deliver the packets from the one it is at.
LEMMA LeftIs ==
    ASSUME NEW c \in Seq(Packet), NEW i \in 1..Len(c)
    PROVE  /\ Left(c, Offset(c, i - 1)) = SubSeq(c, i, Len(c))
           /\ SubSeq(c, i, Len(c)) \in Seq(Packet)
<1>1. AtOffset(c, Offset(c, i - 1)) = i
  BY FoundAt
<1>2. c # <<>> /\ i # 0
  OBVIOUS
<1> QED BY <1>1, <1>2 DEF Left, NoMsg

\* the packets on their way, as what the receiver has and what is ahead of it
Way(r, c, o, w, v) == Then(Then(Left(c, o), r), Ahead(w, v))

\* They are those of OnTheWay.
LEMMA WayIs ==
    ASSUME NEW r, NEW c, NEW o, NEW w, NEW v, NEW size, Receiving(r, c, o), Sending(w, v, size)
    PROVE  /\ Left(c, o) \in Seq(Packet) /\ r \in Seq(Packet) /\ Ahead(w, v) \in Seq(Packet)
           /\ Left(c, o) \o r \o Packets(w, Len(w)) \o v = Way(r, c, o, w, v)
<1>1. /\ r \in Seq(Packet) /\ c \in Seq(Packet) /\ v \in Seq(Packet) /\ w \in Seq(Seq(Packet))
  BY DEF Receiving, Sending, Batch
<1> DEFINE x == Packets(w, Len(w))
           l == Left(c, o)
<1>2. l \in Seq(Packet)
  <2>1. CASE c = <<>>
    <3>1. l = <<>>
      BY <2>1 DEF Left, NoMsg
    <3> HIDE DEF l
    <3> QED BY <3>1
  <2>2. CASE c # <<>>
    <3>1. PICK i \in 1..Len(c) : o = Offset(c, i - 1)
      BY <2>2 DEF Receiving
    <3> QED BY <1>1, <3>1, LeftIs
  <2> QED BY <2>1, <2>2
<1>3. x \in Seq(Packet) /\ Ahead(w, v) \in Seq(Packet)
  BY <1>1, PacketsMore, AheadSteps
<1>4. Left(c, o) \o r \o Packets(w, Len(w)) \o v = Then(Then(Then(l, r), x), v)
  BY DEF Then
<1>5. Ahead(w, v) = Then(x, v)
  BY DEF Ahead
<1>6. Way(r, c, o, w, v) = Then(Then(l, r), Then(x, v))
  BY <1>5 DEF Way
<1> HIDE DEF x, l
<1>7. Then(l, r) \in Seq(Packet)
  BY <1>1, <1>2, ThenIs
<1> DEFINE y == Then(l, r)
<1> HIDE DEF y
<1>8. Then(Then(y, x), v) = Then(y, Then(x, v))
  BY <1>1, <1>3, <1>7, ThenIs DEF y
<1> QED BY <1>1, <1>2, <1>3, <1>4, <1>6, <1>8 DEF l, y

\* The refinement mapping before and after a step.
LEMMA OnTheWayIs ==
    /\ VethInv => OnTheWay = Way(rxOffer, cur, of, wire, txVec)
    /\ VethInv' => OnTheWay' = Way(rxOffer', cur', of', wire', txVec')
<1>1. OnTheWay = Left(cur, of) \o rxOffer \o Packets(wire, Len(wire)) \o txVec
  BY DEF OnTheWay, Rest, Left
<1>2. OnTheWay' = Left(cur', of') \o rxOffer' \o Packets(wire', Len(wire')) \o txVec'
  BY DEF OnTheWay, Rest, Left
<1>3. VethInv => OnTheWay = Way(rxOffer, cur, of, wire, txVec)
  BY <1>1, WayIs DEF VethInv
<1>4. VethInv' => OnTheWay' = Way(rxOffer', cur', of', wire', txVec')
  BY <1>2, WayIs DEF VethInv
<1> QED BY <1>3, <1>4

\* A message that fits joins the wire.
LEMMA WireGrows ==
    ASSUME NEW w \in Seq(Seq(Packet)), \A k \in 1..Len(w) : Fits(w[k]), NEW m, Fits(m)
    PROVE  Append(w, m) \in Seq(Seq(Packet)) /\ \A k \in 1..Len(Append(w, m)) : Fits(Append(w, m)[k])
<1> DEFINE u == Append(w, m)
<1>1. m \in Seq(Packet)
  BY DEF Fits
<1>2. u \in Seq(Seq(Packet)) /\ Len(u) = Len(w) + 1 /\ u[Len(w) + 1] = m /\ Len(w) \in Nat
      /\ \A k \in 1..Len(w) : u[k] = w[k]
  BY <1>1
<1> HIDE DEF u
<1>3. ASSUME NEW k \in 1..Len(u) PROVE Fits(u[k])
  <2>1. k \in 1..Len(w) \/ k = Len(w) + 1
    BY <1>2
  <2> QED BY <1>2, <2>1
<1>4. u \in Seq(Seq(Packet)) /\ \A k \in 1..Len(u) : Fits(u[k])
  BY <1>2, <1>3
<1> QED BY <1>4 DEF u

\* FlushTx: what was collected becomes a message.
LEMMA Flushed ==
    ASSUME NEW w, NEW v, NEW size, Batch(v, size), v # <<>>,
           w \in Seq(Seq(Packet)), \A k \in 1..Len(w) : Fits(w[k])
    PROVE  Sending(Append(w, v), <<>>, 0) /\ Ahead(Append(w, v), <<>>) = Ahead(w, v)
<1>1. Fits(v) /\ v \in Seq(Packet)
  BY BatchFits DEF Batch
<1>2. Append(w, v) \in Seq(Seq(Packet)) /\ \A k \in 1..Len(Append(w, v)) : Fits(Append(w, v)[k])
  BY <1>1, WireGrows
<1>3. Batch(<<>>, 0) /\ Len(<<>>) < BurstSize
  BY BatchEmpty, VethAssumption DEF SizesFit
<1>4. Ahead(Append(w, v), <<>>) = Ahead(w, v)
  BY <1>1, AheadSteps
<1> QED BY <1>2, <1>3, <1>4 DEF Sending

\* Send adds a packet at the end, however often it flushes.
LEMMA SendAddsOne ==
    ASSUME VethInv, NEW p \in Packet, Send(p)
    PROVE  /\ Sending(wire', txVec', txVecSize')
           /\ Ahead(wire', txVec') = Append(Ahead(wire, txVec), p)
<1> DEFINE full == txVecSize + p.len >= MaxBuffer /\ txVec # <<>>
           kept == IF full THEN <<p>> ELSE Append(txVec, p)
           size == IF full THEN p.len ELSE txVecSize + p.len
           early == IF full THEN Append(wire, txVec) ELSE wire
           burst == Len(kept) = BurstSize
<1>0. /\ txVec' = IF burst THEN <<>> ELSE kept
      /\ txVecSize' = IF burst THEN 0 ELSE size
      /\ wire' = IF burst THEN Append(early, kept) ELSE early
  BY DEF Send
<1>1. /\ Batch(txVec, txVecSize) /\ Len(txVec) < BurstSize /\ txVec \in Seq(Packet)
      /\ wire \in Seq(Seq(Packet)) /\ \A k \in 1..Len(wire) : Fits(wire[k])
  BY DEF VethInv, Sending, Batch
<1>2. /\ Batch(kept, size) /\ kept # <<>>
      /\ early \in Seq(Seq(Packet)) /\ \A k \in 1..Len(early) : Fits(early[k])
      /\ Ahead(early, kept) = Append(Ahead(wire, txVec), p)
  <2>1. CASE full
    <3>1. Sending(Append(wire, txVec), <<>>, 0) /\ Ahead(Append(wire, txVec), <<>>) = Ahead(wire, txVec)
      BY <1>1, <2>1, Flushed
    <3>2. Batch(<<p>>, p.len) /\ <<p>> # <<>>
      BY BatchOne
    <3>3. kept = <<p>> /\ size = p.len /\ early = Append(wire, txVec)
      BY <2>1
    <3> HIDE DEF full, kept, size, early
    <3>4. early \in Seq(Seq(Packet)) /\ \A k \in 1..Len(early) : Fits(early[k])
      BY <3>1, <3>3 DEF Sending
    <3>5. <<>> \in Seq(Packet) /\ Append(<<>>, p) = <<p>>
      OBVIOUS
    <3>6. Ahead(early, Append(<<>>, p)) = Append(Ahead(early, <<>>), p)
      BY <3>4, <3>5, AheadSteps
    <3> QED BY <3>1, <3>2, <3>3, <3>4, <3>5, <3>6
  <2>2. CASE ~full
    <3>1. Batch(Append(txVec, p), txVecSize + p.len)
      BY <1>1, <2>2, BatchMore
    <3>2. Append(txVec, p) # <<>>
      BY <1>1
    <3>3. Ahead(wire, Append(txVec, p)) = Append(Ahead(wire, txVec), p)
      BY <1>1, AheadSteps
    <3>4. kept = Append(txVec, p) /\ size = txVecSize + p.len /\ early = wire
      BY <2>2
    <3> HIDE DEF full, kept, size, early
    <3> QED BY <1>1, <3>1, <3>2, <3>3, <3>4
  <2> QED BY <2>1, <2>2
<1> HIDE DEF full, kept, size, early
<1>3. CASE burst
  <2>1. wire' = Append(early, kept) /\ txVec' = <<>> /\ txVecSize' = 0
    BY <1>0, <1>3
  <2>2. Sending(Append(early, kept), <<>>, 0) /\ Ahead(Append(early, kept), <<>>) = Ahead(early, kept)
    BY <1>2, Flushed
  <2> QED BY <1>2, <2>1, <2>2
<1>4. CASE ~burst
  <2>1. wire' = early /\ txVec' = kept /\ txVecSize' = size
    BY <1>0, <1>4
  <2>2. Len(kept) < BurstSize
    <3>1. Len(kept) \in Nat /\ Len(kept) <= BurstSize /\ BurstSize \in Nat
      BY <1>2, VethAssumption DEF Batch, SizesFit
    <3> QED BY <1>4, <3>1
  <2> QED BY <1>2, <2>1, <2>2 DEF Sending
<1> QED BY <1>3, <1>4

\* SendBuffer puts a packet into the channel.
LEMMA SendIsPut ==
    ASSUME VethInv, SendBuffer
    PROVE  VethInv' /\ \E p \in Packet : VethFifo!Put(p)
<1>1. PICK n \in PktLens : sent < MaxPkts /\ Send([id |-> sent + 1, len |-> n])
  BY DEF SendBuffer
<1> DEFINE p == [id |-> sent + 1, len |-> n]
<1>2. sent \in 0..MaxPkts /\ MaxPkts \in Nat
  BY VethAssumption DEF VethInv, SizesFit
<1>3. p \in Packet
  BY <1>1, <1>2 DEF Packet
<1> HIDE DEF p
<1>4. Send(p)
  BY <1>1 DEF p
<1>5. /\ sent' = sent + 1 /\ rxOffer' = rxOffer /\ cur' = cur /\ of' = of
      /\ vethDelivered' = vethDelivered /\ rxParseErr' = rxParseErr
  BY <1>4 DEF Send
<1>6. Sending(wire', txVec', txVecSize') /\ Ahead(wire', txVec') = Append(Ahead(wire, txVec), p)
  BY <1>3, <1>4, SendAddsOne
<1>7. sent' \in 0..MaxPkts
  BY <1>1, <1>2, <1>5
<1>8. VethInv'
  BY <1>5, <1>6, <1>7 DEF VethInv
<1>9. OnTheWay' = Append(OnTheWay, p)
  <2> DEFINE x == Then(Left(cur, of), rxOffer)
             y == Ahead(wire, txVec)
  <2>1. Left(cur, of) \in Seq(Packet) /\ rxOffer \in Seq(Packet) /\ y \in Seq(Packet)
    BY WayIs DEF VethInv
  <2>2. OnTheWay = Then(x, y) /\ OnTheWay' = Then(x, Append(y, p))
    BY <1>5, <1>6, <1>8, OnTheWayIs DEF Way
  <2>3. x \in Seq(Packet)
    BY <2>1, ThenIs
  <2> HIDE DEF x, y
  <2>4. Append(Then(x, y), p) = Then(x, Append(y, p))
    BY <1>3, <2>1, <2>3, ThenEnds
  <2> QED BY <2>2, <2>4
<1> QED BY <1>3, <1>5, <1>8, <1>9 DEF VethFifo!Put

\* FlushTx moves what was collected to the wire.
LEMMA FlushStutters ==
    ASSUME VethInv, VethFlushTx
    PROVE  VethInv' /\ OnTheWay' = OnTheWay /\ vethDelivered' = vethDelivered
<1>1. /\ txVec # <<>> /\ wire' = Append(wire, txVec) /\ txVec' = <<>> /\ txVecSize' = 0
      /\ sent' = sent /\ rxOffer' = rxOffer /\ cur' = cur /\ of' = of
      /\ vethDelivered' = vethDelivered /\ rxParseErr' = rxParseErr
  BY DEF VethFlushTx
<1>2. /\ Batch(txVec, txVecSize) /\ wire \in Seq(Seq(Packet)) /\ \A k \in 1..Len(wire) : Fits(wire[k])
  BY DEF VethInv, Sending
<1>3. Sending(Append(wire, txVec), <<>>, 0) /\ Ahead(Append(wire, txVec), <<>>) = Ahead(wire, txVec)
  BY <1>1, <1>2, Flushed
<1>4. Sending(wire', txVec', txVecSize') /\ Ahead(wire', txVec') = Ahead(wire, txVec)
  BY <1>1, <1>3
<1>5. VethInv'
  BY <1>1, <1>4 DEF VethInv
<1>6. OnTheWay' = OnTheWay
  BY <1>1, <1>4, <1>5, OnTheWayIs DEF Way
<1> QED BY <1>1, <1>5, <1>6

\* The goroutine moves the first message from the wire to the channel.
LEMMA RecvStutters ==
    ASSUME VethInv, VethRecvBytes
    PROVE  VethInv' /\ OnTheWay' = OnTheWay /\ vethDelivered' = vethDelivered
<1> DEFINE h == Head(wire)
           t == Tail(wire)
<1>1. /\ rxOffer = <<>> /\ wire # <<>> /\ rxOffer' = h /\ wire' = t
      /\ sent' = sent /\ txVec' = txVec /\ txVecSize' = txVecSize /\ cur' = cur /\ of' = of
      /\ vethDelivered' = vethDelivered /\ rxParseErr' = rxParseErr
  BY DEF VethRecvBytes, NoMsg
<1>2. /\ Batch(txVec, txVecSize) /\ Len(txVec) < BurstSize /\ txVec \in Seq(Packet)
      /\ wire \in Seq(Seq(Packet)) /\ \A k \in 1..Len(wire) : Fits(wire[k])
  BY DEF VethInv, Sending, Batch
<1>3. /\ h \in Seq(Packet) /\ t \in Seq(Seq(Packet))
      /\ Ahead(wire, txVec) = Then(h, Ahead(t, txVec))
  BY <1>1, <1>2, AheadSteps
<1>4. h = wire[1] /\ 1 \in 1..Len(wire) /\ \A k \in 1..Len(t) : k + 1 \in 1..Len(wire) /\ t[k] = wire[k + 1]
  BY <1>1, <1>2
<1>5. Fits(h) /\ \A k \in 1..Len(t) : Fits(t[k])
  BY <1>2, <1>4
<1> HIDE DEF h, t
<1>6. Sending(wire', txVec', txVecSize')
  BY <1>1, <1>2, <1>3, <1>5 DEF Sending
<1>7. Receiving(rxOffer', cur', of')
  <2>1. Receiving(rxOffer, cur, of)
    BY DEF VethInv
  <2>2. Receiving(h, cur, of)
    BY <1>3, <1>5, <2>1 DEF Receiving
  <2> QED BY <1>1, <2>2
<1>8. VethInv'
  BY <1>1, <1>6, <1>7 DEF VethInv
<1>9. OnTheWay' = OnTheWay
  <2> DEFINE l == Left(cur, of)
             y == Ahead(t, txVec)
  <2>1. l \in Seq(Packet)
    BY WayIs DEF VethInv
  <2>2. y \in Seq(Packet)
    BY <1>2, <1>3, AheadSteps
  <2>3. OnTheWay = Then(Then(l, <<>>), Then(h, y)) /\ OnTheWay' = Then(Then(l, h), y)
    BY <1>1, <1>3, <1>8, OnTheWayIs DEF Way
  <2> HIDE DEF l, y
  <2>4. Then(l, <<>>) = l
    BY <2>1, ThenIs
  <2>5. Then(Then(l, h), y) = Then(l, Then(h, y))
    BY <1>3, <2>1, <2>2, ThenIs
  <2> QED BY <2>3, <2>4, <2>5
<1> QED BY <1>1, <1>8, <1>9

\* The main loop takes the message to parse it from its first packet.
LEMMA StreamStutters ==
    ASSUME VethInv, OnRxStream
    PROVE  VethInv' /\ OnTheWay' = OnTheWay /\ vethDelivered' = vethDelivered
<1> DEFINE r == rxOffer
<1>1. /\ cur = <<>> /\ r # <<>> /\ cur' = r /\ rxOffer' = <<>> /\ of' = HdrSize
      /\ sent' = sent /\ txVec' = txVec /\ txVecSize' = txVecSize /\ wire' = wire
      /\ vethDelivered' = vethDelivered /\ rxParseErr' = rxParseErr
  BY DEF OnRxStream, NoMsg
<1>2. r \in Seq(Packet) /\ Fits(r)
  BY <1>1 DEF VethInv, Receiving
<1>3. 1 \in 1..Len(r) /\ 0 \in 0..Len(r) /\ 1 - 1 = 0 /\ <<>> \in Seq(Packet)
  BY <1>1, <1>2
<1>4. Offset(r, 1 - 1) = HdrSize
  BY <1>2, <1>3, OffsetIs
<1>5. Left(r, HdrSize) = SubSeq(r, 1, Len(r)) /\ SubSeq(r, 1, Len(r)) = r
  <2>1. Left(r, Offset(r, 1 - 1)) = SubSeq(r, 1, Len(r))
    BY <1>2, <1>3, LeftIs
  <2>2. SubSeq(r, 1, Len(r)) = r
    BY <1>2
  <2> QED BY <1>4, <2>1, <2>2
<1>6. Receiving(<<>>, r, HdrSize)
  <2>1. \E i \in 1..Len(r) : HdrSize = Offset(r, i - 1)
    BY <1>3, <1>4
  <2> HIDE DEF r
  <2> QED BY <1>2, <1>3, <2>1 DEF Receiving
<1>7. VethInv'
  BY <1>1, <1>6 DEF VethInv
<1>8. OnTheWay' = OnTheWay
  <2> DEFINE y == Ahead(wire, txVec)
  <2>1. Left(cur, of) = <<>>
    BY <1>1 DEF Left, NoMsg
  <2>2. OnTheWay = Then(Then(<<>>, r), y) /\ OnTheWay' = Then(Then(r, <<>>), y)
    BY <1>1, <1>5, <1>7, <2>1, OnTheWayIs DEF Way
  <2> HIDE DEF y, r
  <2>3. Then(<<>>, r) = r /\ Then(r, <<>>) = r
    BY <1>2, ThenIs
  <2> QED BY <2>2, <2>3
<1> QED BY <1>1, <1>7, <1>8

\* One turn of the parser takes the packet it is at from the channel: its
\* offsets do not wrap, so the message is never taken for a bad one.
LEMMA RxIsGet ==
    ASSUME VethInv, RxPacket
    PROVE  VethInv' /\ VethFifo!Get
<1> DEFINE c == cur
           n == Len(c)
<1>1. /\ c # <<>> /\ sent' = sent /\ txVec' = txVec /\ txVecSize' = txVecSize /\ wire' = wire
      /\ rxOffer' = rxOffer
  BY DEF RxPacket, NoMsg
<1>2. c \in Seq(Packet) /\ Fits(c) /\ Receiving(rxOffer, cur, of) /\ n \in Nat
  BY <1>1 DEF VethInv, Receiving
<1>3. PICK i \in 1..n : of = Offset(c, i - 1)
  BY <1>1 DEF VethInv, Receiving
<1>4. AtOffset(c, of) = i
  BY <1>2, <1>3, FoundAt
<1>5. /\ HdrSize \in Nat \ {0} /\ OffMod \in Nat \ {0} /\ c[i] \in Packet /\ c[i].len \in Nat /\ i \in Nat
  <2>1. c[i] \in Packet
    BY <1>2, <1>3
  <2>2. \A p \in Packet : p.len \in Nat
    BY VethAssumption DEF SizesFit, Packet
  <2>3. HdrSize \in Nat \ {0} /\ OffMod \in Nat \ {0} /\ i \in Nat
    BY <1>3, VethAssumption DEF SizesFit
  <2> QED BY <2>1, <2>2, <2>3
<1> DEFINE blen == Offset(c, n)
           next == Offset(c, i)
<1>6. /\ of \in Nat /\ next = of + HdrSize + c[i].len /\ blen \in Nat /\ next <= blen /\ blen < OffMod
  <2>1. i \in 0..n /\ i # 0 /\ i - 1 \in 0..n /\ n \in 0..n
    BY <1>2, <1>3
  <2>2. of \in Nat /\ next = of + HdrSize + c[i].len /\ blen \in Nat
    BY <1>2, <1>3, <2>1, OffsetIs
  <2>3. CASE i = n
    BY <1>2, <2>2, <2>3 DEF Fits
  <2>4. CASE i # n
    <3>1. i < n
      BY <1>2, <1>3, <2>4
    <3>2. next < blen
      BY <1>2, <2>1, <3>1, OffsetGrows
    <3>3. next \in Nat
      BY <2>1, <1>2, OffsetIs
    <3>4. blen < OffMod
      BY DEF Fits, VethInv, Receiving
    <3> HIDE DEF blen, next
    <3> QED BY <2>2, <3>2, <3>3, <3>4
  <2> QED BY <2>3, <2>4
<1> HIDE DEF next, blen
<1>7. /\ (of + HdrSize + c[i].len) % OffMod = next
      /\ ~(blen < (of + HdrSize) % OffMod) /\ i # 0 /\ ~(blen < next)
  <2>1. ASSUME NEW a \in Nat, a < OffMod PROVE a % OffMod = a
    BY <1>5, <2>1
  <2>2. next \in Nat /\ next < OffMod /\ of + HdrSize \in Nat /\ of + HdrSize <= blen /\ of + HdrSize < OffMod
    BY <1>5, <1>6
  <2>3. next % OffMod = next /\ (of + HdrSize) % OffMod = of + HdrSize
    BY <2>1, <2>2
  <2> QED BY <1>3, <1>6, <2>2, <2>3
<1>8. /\ cur' = IF i = n THEN <<>> ELSE c
      /\ vethDelivered' = Append(vethDelivered, c[i]) /\ of' = next /\ rxParseErr' = rxParseErr
  BY <1>4, <1>7 DEF RxPacket, NoMsg, blen
<1> DEFINE s == SubSeq(c, i, n)
           u == IF i = n THEN <<>> ELSE SubSeq(c, i + 1, n)
<1>9. s \in Seq(Packet) /\ s # <<>> /\ Head(s) = c[i] /\ Tail(s) = u
  <2>1. s \in Seq(Packet) /\ Len(s) = n - i + 1 /\ \A k \in 1..Len(s) : s[k] = c[i + k - 1]
    BY <1>2, <1>3
  <2>2. u \in Seq(Packet) /\ Len(u) = n - i /\ \A k \in 1..Len(u) : u[k] = c[i + k]
    BY <1>2, <1>3
  <2> HIDE DEF s, u
  <2>3. n - i \in Nat /\ i + 1 - 1 = i /\ Len(s) = (n - i) + 1 /\ 1 \in 1..Len(s)
    BY <1>2, <1>3, <2>1
  <2>4. s # <<>> /\ Head(s) = s[1] /\ s[1] = c[i]
    BY <2>1, <2>3
  <2>5. /\ Tail(s) \in Seq(Packet) /\ Len(Tail(s)) = n - i
        /\ \A k \in 1 .. n - i : Tail(s)[k] = s[k + 1]
    BY <2>1, <2>3, <2>4
  <2>6. ASSUME NEW k \in 1 .. n - i PROVE Tail(s)[k] = u[k]
    <3>1. k + 1 \in 1..Len(s) /\ i + (k + 1) - 1 = i + k /\ k \in 1..Len(u)
      BY <1>3, <2>2, <2>3
    <3>2. s[k + 1] = c[i + (k + 1) - 1] /\ u[k] = c[i + k]
      BY <2>1, <2>2, <3>1
    <3> QED BY <2>5, <3>1, <3>2
  <2>7. Tail(s) = u
    <3> DEFINE x == Tail(s)
    <3>1. x \in Seq(Packet) /\ Len(x) = Len(u) /\ \A k \in 1..Len(x) : x[k] = u[k]
      BY <2>2, <2>5, <2>6
    <3> HIDE DEF x
    <3>2. x = u
      BY <2>2, <3>1, SeqEqual
    <3> QED BY <3>2 DEF x
  <2> QED BY <2>1, <2>4, <2>7
<1>10. Left(cur, of) = s
  BY <1>2, <1>3, LeftIs
<1>11. Left(cur', of') = u /\ Receiving(rxOffer', cur', of')
  <2>1. CASE i = n
    <3>1. cur' = <<>> /\ u = <<>>
      BY <1>8, <2>1
    <3>2. Left(cur', of') = <<>>
      BY <3>1 DEF Left, NoMsg
    <3>3. Receiving(rxOffer', cur', of')
      BY <1>1, <1>2, <3>1 DEF Receiving
    <3> QED BY <3>1, <3>2, <3>3
  <2>2. CASE i # n
    <3>1. cur' = c /\ u = SubSeq(c, i + 1, n) /\ i + 1 \in 1..n /\ (i + 1) - 1 = i
      BY <1>2, <1>3, <1>8, <2>2
    <3>2. of' = Offset(c, (i + 1) - 1)
      BY <1>8, <3>1 DEF next
    <3>3. Left(c, Offset(c, (i + 1) - 1)) = SubSeq(c, i + 1, n)
      BY <1>2, <3>1, LeftIs
    <3>4. \E j \in 1..n : of' = Offset(c, j - 1)
      BY <3>1, <3>2
    <3> HIDE DEF c, u
    <3>5. Receiving(rxOffer, c, of')
      BY <1>2, <3>4 DEF Receiving, c
    <3> QED BY <1>1, <3>1, <3>2, <3>3, <3>5
  <2> QED BY <2>1, <2>2
<1>12. VethInv'
  BY <1>1, <1>8, <1>11 DEF VethInv
<1>13. OnTheWay # <<>> /\ OnTheWay' = Tail(OnTheWay) /\ Head(OnTheWay) = c[i]
  <2> DEFINE r == rxOffer
             y == Ahead(wire, txVec)
  <2>1. r \in Seq(Packet) /\ y \in Seq(Packet)
    BY WayIs DEF VethInv
  <2>2. OnTheWay = Then(Then(s, r), y) /\ OnTheWay' = Then(Then(u, r), y)
    BY <1>1, <1>10, <1>11, <1>12, OnTheWayIs DEF Way
  <2> HIDE DEF r, y, s, u
  <2>3. Then(s, r) # <<>> /\ Head(Then(s, r)) = Head(s) /\ Tail(Then(s, r)) = Then(Tail(s), r)
    BY <1>9, <2>1, ThenEnds
  <2>4. Then(s, r) \in Seq(Packet)
    BY <1>9, <2>1, ThenIs
  <2> DEFINE a == Then(s, r)
  <2>5. a # <<>> /\ Head(a) = Head(s) /\ Tail(a) = Then(Tail(s), r) /\ a \in Seq(Packet)
    BY <2>3, <2>4
  <2> HIDE DEF a
  <2>6. Then(a, y) # <<>> /\ Head(Then(a, y)) = Head(a) /\ Tail(Then(a, y)) = Then(Tail(a), y)
    BY <2>1, <2>5, ThenEnds
  <2>7. OnTheWay = Then(a, y)
    BY <2>2 DEF a
  <2> QED BY <1>9, <2>2, <2>5, <2>6, <2>7
<1> QED BY <1>8, <1>12, <1>13 DEF VethFifo!Get

\* The two processes implement the first-in first-out channel for every burst
\* size, buffer size and packet lengths that SizesFit allows.
THEOREM VethImplementsFifo == VethSpec => VethFifo!Safety
<1>1. VethInit => VethInv /\ VethFifo!Init
  <2> SUFFICES ASSUME VethInit PROVE VethInv /\ VethFifo!Init
    OBVIOUS
  <2>1. /\ sent = 0 /\ txVec = <<>> /\ txVecSize = 0 /\ wire = <<>> /\ rxOffer = <<>> /\ cur = <<>>
        /\ vethDelivered = <<>> /\ rxParseErr = 0
    BY DEF VethInit, NoMsg
  <2>2. Sending(<<>>, <<>>, 0)
    BY BatchEmpty, VethAssumption DEF Sending, SizesFit
  <2>3. Receiving(<<>>, <<>>, of)
    BY DEF Receiving
  <2>4. 0 \in 0..MaxPkts
    BY VethAssumption DEF SizesFit
  <2>5. VethInv
    BY <2>1, <2>2, <2>3, <2>4 DEF VethInv
  <2> DEFINE e == <<>>
  <2>6. OnTheWay = Then(Then(e, e), Then(Packets(wire, Len(wire)), e))
    <3>1. Left(cur, of) = e
      BY <2>1 DEF Left, NoMsg
    <3> QED BY <2>1, <2>5, <3>1, OnTheWayIs DEF Way, Ahead
  <2>7. Packets(wire, Len(wire)) = e
    <3>1. wire \in Seq(Seq(Packet)) /\ Len(wire) = 0 /\ 0 \in 0..Len(wire)
      BY <2>1
    <3> QED BY <3>1, PacketsIs
  <2>8. e \in Seq(Packet)
    OBVIOUS
  <2>9. Then(e, e) = e
    BY <2>8, ThenIs
  <2>10. OnTheWay = <<>>
    BY <2>6, <2>7, <2>9
  <2> QED BY <2>1, <2>5, <2>10 DEF VethFifo!Init
<1>2. VethInv /\ [VethNext]_vethVars => VethInv' /\ [VethFifo!Next]_<<OnTheWay, vethDelivered>>
  <2> SUFFICES ASSUME VethInv, [VethNext]_vethVars
               PROVE  VethInv' /\ [VethFifo!Next]_<<OnTheWay, vethDelivered>>
    OBVIOUS
  <2>1. CASE SendBuffer
    BY <2>1, SendIsPut DEF VethFifo!Next
  <2>2. CASE VethFlushTx
    BY <2>2, FlushStutters
  <2>3. CASE VethRecvBytes
    BY <2>3, RecvStutters
  <2>4. CASE OnRxStream
    BY <2>4, StreamStutters
  <2>5. CASE RxPacket
    BY <2>5, RxIsGet DEF VethFifo!Next
  <2>6. CASE UNCHANGED vethVars
    <3>1. /\ sent' = sent /\ txVec' = txVec /\ txVecSize' = txVecSize /\ wire' = wire /\ rxOffer' = rxOffer
          /\ cur' = cur /\ of' = of /\ vethDelivered' = vethDelivered /\ rxParseErr' = rxParseErr
      BY <2>6 DEF vethVars, rxVars
    <3>2. VethInv'
      BY <3>1 DEF VethInv
    <3>3. OnTheWay' = OnTheWay
      BY <3>1, <3>2, OnTheWayIs
    <3> QED BY <3>1, <3>2, <3>3
  <2> QED BY <2>1, <2>2, <2>3, <2>4, <2>5, <2>6 DEF VethNext, Receive
<1> QED BY <1>1, <1>2, PTL DEF VethSpec, VethFifo!Safety
=============================================================================
