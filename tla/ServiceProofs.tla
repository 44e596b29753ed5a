----------------------------- MODULE ServiceProofs -----------------------------
(***************************************************************************)
(* The client that starts its plugins, ping, and the IPFIX exporter.       *)
(*                                                                         *)
(* Ping counts right for any parameters: fewer requests are sent than      *)
(* there are sequence numbers, so that two of a run differ.                *)
(*                                                                         *)
(* A client's plugin starts once for each family.  It has acted on exactly *)
(* the families that the client has announced, but between the creation    *)
(* and the first poll, where it may be ahead by the forced gateways.       *)
(*                                                                         *)
(* The IPFIX exporter never refuses a packet, and the generators are       *)
(* paused exactly while the channel to its goroutine is above its          *)
(* watermark, for any number of generators, any burst and any thresholds   *)
(* the channel accepts.  NoWriteRefused is not inductive.  A packet is     *)
(* accepted because the generator that writes is not paused, hence         *)
(* (PauseFollowsChannel) the high watermark was not announced, hence the   *)
(* channel is not above its threshold; the threshold may only be passed    *)
(* between a send and the check that follows it, and by one packet.        *)
(***************************************************************************)
EXTENDS Ping, ClientCtx, IpfixUdp, TLAPS

-----------------------------------------------------------------------------
(* Ping *)

\* A remainder is determined by a quotient.
LEMMA ModIs ==
    ASSUME NEW m \in Nat \ {0}, NEW q \in Nat, NEW r \in 0 .. m - 1
    PROVE (m * q + r) % m = r
  OBVIOUS

\* Division with remainder.
LEMMA DivMod ==
    ASSUME NEW m \in Nat \ {0}, NEW a \in Nat
    PROVE  a % m \in 0 .. m - 1 /\ \E q \in Nat : m * q \in Nat /\ a = m * q + (a % m)
<1> DEFINE q == a \div m
           r == a - m * q
<1>1. q \in Nat /\ q * m <= a /\ a < q * m + m
  OBVIOUS
<1> HIDE DEF q
<1>2. m * q \in Nat /\ r \in 0 .. m - 1 /\ a = m * q + r
  BY <1>1
<1> HIDE DEF r
<1> DEFINE x == a % m
<1>3. x = r
  BY <1>1, <1>2, ModIs
<1> HIDE DEF x
<1>4. x \in 0 .. m - 1 /\ q \in Nat /\ m * q \in Nat /\ a = m * q + x
  BY <1>1, <1>2, <1>3
<1>5. x \in 0 .. m - 1 /\ \E k \in Nat : m * k \in Nat /\ a = m * k + x
  BY <1>4, Zenon
<1> QED BY <1>5, Zenon DEF x
\* The remainder of a sum, of which one part was reduced before.
LEMMA ModAdd ==
    ASSUME NEW m \in Nat \ {0}, NEW a \in Nat, NEW b \in Nat
    PROVE  ((a % m) + b) % m = (a + b) % m
<1> DEFINE r == a % m
<1>0. r \in 0 .. m - 1 /\ \E q \in Nat : m * q \in Nat /\ a = m * q + r
  BY DivMod, Zenon
<1> HIDE DEF r
<1>1. PICK q \in Nat : m * q \in Nat /\ a = m * q + r
  BY <1>0
<1> DEFINE c == r + b
           s == c % m
<1>2. c \in Nat
  BY <1>0
<1> HIDE DEF c
<1>3. s \in 0 .. m - 1 /\ \E p \in Nat : m * p \in Nat /\ c = m * p + s
  BY <1>2, DivMod, Zenon
<1> HIDE DEF s
<1>4. PICK p \in Nat : m * p \in Nat /\ c = m * p + s
  BY <1>3
<1>5. q + p \in Nat /\ m * (q + p) = m * q + m * p
  BY <1>1, <1>4
<1>6. a + b = m * (q + p) + s
  BY <1>0, <1>1, <1>3, <1>4, <1>5 DEF c
<1>7. (m * (q + p) + s) % m = s
  BY <1>3, <1>5, ModIs
<1>8. (a + b) % m = s
  BY <1>6, <1>7
<1> QED BY <1>8, Zenon DEF r, c, s

\* Numbers less than m apart with the same remainder are equal.
LEMMA ModInj ==
    ASSUME NEW m \in Nat \ {0}, NEW a \in Nat, NEW b \in Nat, a % m = b % m, a - b < m, b - a < m
    PROVE  a = b
<1> DEFINE r == a % m
<1>0. /\ r \in 0 .. m - 1
      /\ \E q \in Nat : m * q \in Nat /\ a = m * q + r
      /\ \E p \in Nat : m * p \in Nat /\ b = m * p + r
  BY DivMod, Zenon
<1> HIDE DEF r
<1>1. PICK q \in Nat, p \in Nat : /\ m * q \in Nat /\ a = m * q + r
                                 /\ m * p \in Nat /\ b = m * p + r
  BY <1>0
<1>2. ASSUME NEW u \in Nat, NEW v \in Nat, u < v PROVE m * u + m <= m * v
  <2>1. v - u - 1 \in Nat
    BY <1>2
  <2>2. m * (v - u - 1) \in Nat
    BY <2>1
  <2> QED BY <2>2
<1>3. ~ q < p
  BY <1>0, <1>1, <1>2
<1>4. ~ p < q
  BY <1>0, <1>1, <1>2
<1> QED BY <1>1, <1>3, <1>4

---------------------------------------------------------------------------
(* Ping.                                                                   *)

PingRecs ==
    [run : Nat, par : PingParams, id : PingIds, seq : Nat, start : 0 .. PingSeqMod - 1,
     first : BOOLEAN, last : Nat, sent : Nat, inOrder : Nat, outOfOrder : Nat, timer : Nat,
     got : Seq(Nat)]

PingMsgs == [kind : {"request", "reply"}, run : Nat, id : PingIds, seq : Nat, k : Nat]

\* The requests of p under way are numbered 1 to sent, and a message of its run has the sequence
\* number of its request.
Counts(p, net) ==
    /\ p.sent <= p.par.amount
    /\ p.seq = (p.start + p.sent) % PingSeqMod
    /\ \A m \in net : m.run = p.run =>
         m.k \in 1 .. p.sent /\ m.seq = (p.start + (m.k - 1)) % PingSeqMod
    /\ \A k \in 1 .. p.sent : \E m \in net : m.kind = "request" /\ m.run = p.run /\ m.k = k

\* As long as no reply was out of order, the last one is that of the request with the number of
\* the replies.
Orders(p) ==
    /\ p.inOrder + p.outOfOrder = Len(p.got)
    /\ p.first <=> Len(p.got) # 0
    /\ Len(p.got) <= p.par.amount + 1
    /\ p.outOfOrder = 0 =>
         /\ Len(p.got) # 0 => p.last = (p.start + (Len(p.got) - 1)) % PingSeqMod
         /\ \A i \in 1 .. Len(p.got) : p.got[i] \in {0, i}
    /\ (\A i \in 1 .. Len(p.got) : p.got[i] = i) => p.outOfOrder = 0

\* The inductive invariant of the ping.
PingInv ==
    /\ pingRuns \in Nat
    /\ pingNet \subseteq PingMsgs
    /\ \A m \in pingNet : m.run <= pingRuns
    /\ ping # <<>> => \E p \in PingRecs : /\ ping = <<p>> /\ p.run = pingRuns
                                          /\ Counts(p, pingNet) /\ Orders(p)

\* What the parameters are.
LEMMA PingNumbers ==
    /\ PingSeqMod \in Nat \ {0}
    /\ \A par \in PingParams : /\ par.amount \in Nat /\ par.amount < PingSeqMod /\ par.burst \in Nat
                               /\ par.interval \in Nat /\ par.timeout \in Nat
BY PingAssumption

\* sendPing: the next requests follow the earlier ones, and are no more than what is missing.
LEMMA BurstCounts ==
    ASSUME NEW p \in PingRecs, NEW net \in SUBSET PingMsgs, Counts(p, net), Orders(p),
           NEW t \in Nat
    PROVE  LET s == sendPing(p)
               q == [s.ping EXCEPT !.timer = t]
               r == Requests(p, s.n)
           IN  /\ q \in PingRecs /\ q.run = p.run
               /\ Counts(q, net \cup r) /\ Orders(q)
               /\ r \subseteq PingMsgs /\ \A m \in r : m.run = p.run
<1> DEFINE s == sendPing(p)
           n == Min({p.par.burst, p.par.amount - p.sent})
           q == [s.ping EXCEPT !.timer = t]
           r == Requests(p, n)
<1>1. /\ p.par \in PingParams /\ p.par.amount \in Nat /\ p.par.burst \in Nat /\ p.sent \in Nat
      /\ p.start \in Nat /\ p.seq \in Nat /\ p.run \in Nat /\ p.id \in PingIds
      /\ PingSeqMod \in Nat \ {0}
  BY PingNumbers DEF PingRecs
<1>2. p.sent <= p.par.amount /\ p.seq = (p.start + p.sent) % PingSeqMod
  BY DEF Counts
<1>3. n \in Nat /\ n <= p.par.amount - p.sent
  <2> DEFINE a == p.par.burst
             b == p.par.amount - p.sent
  <2>1. a \in Nat /\ b \in Nat
    BY <1>1, <1>2
  <2> HIDE DEF a, b
  <2>2. Min({a, b}) \in {a, b} /\ \A y \in {a, b} : Min({a, b}) <= y
    <3>1. \E x \in {a, b} : \A y \in {a, b} : x <= y
      BY <2>1
    <3> QED BY <3>1 DEF Min
  <2> QED BY <2>1, <2>2 DEF a, b
<1>4. s.ping = [p EXCEPT !.sent = p.sent + n, !.seq = (p.seq + n) % PingSeqMod] /\ s.n = n
  BY DEF sendPing, PingRecs
<1> HIDE DEF n
<1>5. /\ (p.seq + n) % PingSeqMod = (p.start + (p.sent + n)) % PingSeqMod
      /\ (p.seq + n) % PingSeqMod \in Nat
  <2> DEFINE a == p.start + p.sent
  <2>1. a \in Nat /\ a + n = p.start + (p.sent + n)
    BY <1>1, <1>3
  <2> HIDE DEF a
  <2>2. ((a % PingSeqMod) + n) % PingSeqMod = (a + n) % PingSeqMod
    BY <2>1, <1>1, <1>3, ModAdd
  <2>3. (a + n) % PingSeqMod \in Nat
    <3> DEFINE c == a + n
    <3>1. c \in Nat
      BY <2>1, <1>3
    <3> HIDE DEF c
    <3>2. c % PingSeqMod \in 0 .. PingSeqMod - 1
      BY <3>1, <1>1, DivMod
    <3> QED BY <3>2, <1>1 DEF c
  <2>4. p.seq = a % PingSeqMod
    BY <1>2 DEF a
  <2> QED BY <2>1, <2>2, <2>3, <2>4, <1>1
<1>6. /\ q \in PingRecs /\ q.run = p.run /\ q.par = p.par /\ q.start = p.start /\ q.id = p.id
      /\ q.sent = p.sent + n /\ q.seq = (p.start + (p.sent + n)) % PingSeqMod
      /\ q.first = p.first /\ q.last = p.last /\ q.inOrder = p.inOrder
      /\ q.outOfOrder = p.outOfOrder /\ q.got = p.got
  <2> DEFINE x == (p.seq + n) % PingSeqMod
             y == p.sent + n
  <2>1. x \in Nat /\ y \in Nat /\ s.ping = [p EXCEPT !.sent = y, !.seq = x]
    BY <1>1, <1>3, <1>4, <1>5
  <2>2. x = (p.start + (p.sent + n)) % PingSeqMod
    BY <1>5
  <2> HIDE DEF x, s
  <2> SUFFICES /\ q \in PingRecs /\ q.run = p.run /\ q.par = p.par /\ q.start = p.start /\ q.id = p.id
               /\ q.sent = y /\ q.seq = x
               /\ q.first = p.first /\ q.last = p.last /\ q.inOrder = p.inOrder
               /\ q.outOfOrder = p.outOfOrder /\ q.got = p.got
    BY <2>2
  <2> HIDE DEF y
  <2> QED BY <2>1 DEF PingRecs
<1> HIDE DEF q, s
<1>7. ASSUME NEW i \in 1 .. n
      PROVE  (p.seq + i - 1) % PingSeqMod = (p.start + ((p.sent + i) - 1)) % PingSeqMod
             /\ (p.seq + i - 1) % PingSeqMod \in Nat
  <2> DEFINE a == p.start + p.sent
             j == i - 1
  <2>1. a \in Nat /\ j \in Nat /\ a + j = p.start + ((p.sent + i) - 1) /\ p.seq + i - 1 = p.seq + j
    BY <1>1, <1>3
  <2>2. p.seq = a % PingSeqMod
    BY <1>2
  <2> HIDE DEF a, j
  <2>3. ((a % PingSeqMod) + j) % PingSeqMod = (a + j) % PingSeqMod
    BY <2>1, <1>1, ModAdd
  <2>4. (a + j) % PingSeqMod \in Nat
    <3> DEFINE c == a + j
    <3>1. c \in Nat
      BY <2>1
    <3> HIDE DEF c
    <3>2. c % PingSeqMod \in 0 .. PingSeqMod - 1
      BY <3>1, <1>1, DivMod
    <3> QED BY <3>2, <1>1 DEF c
  <2> QED BY <2>1, <2>2, <2>3, <2>4, <1>1
<1>8. ASSUME NEW m \in r
      PROVE  /\ m \in PingMsgs /\ m.run = p.run /\ m.k \in (p.sent + 1) .. (p.sent + n)
             /\ m.seq = (p.start + (m.k - 1)) % PingSeqMod
  <2>1. PICK i \in 1 .. n : m = [kind |-> "request", run |-> p.run, id |-> p.id,
                                 seq |-> (p.seq + i - 1) % PingSeqMod, k |-> p.sent + i]
    BY DEF Requests
  <2> DEFINE x == (p.seq + i - 1) % PingSeqMod
  <2>2. x = (p.start + ((p.sent + i) - 1)) % PingSeqMod /\ x \in Nat
    BY <1>7
  <2>3. p.sent + i \in Nat /\ p.sent + i \in (p.sent + 1) .. (p.sent + n)
    BY <1>1, <1>3
  <2>4. m = [kind |-> "request", run |-> p.run, id |-> p.id, seq |-> x, k |-> p.sent + i]
    BY <2>1
  <2> HIDE DEF x
  <2>5. m.seq = x /\ m.k = p.sent + i /\ m.run = p.run /\ m \in PingMsgs
    BY <2>2, <2>3, <2>4, <1>1 DEF PingMsgs
  <2> QED BY <2>2, <2>3, <2>5
<1>9. ASSUME NEW k \in (p.sent + 1) .. (p.sent + n)
      PROVE  \E m \in r : m.kind = "request" /\ m.run = p.run /\ m.k = k
  <2> DEFINE i == k - p.sent
             m == [kind |-> "request", run |-> p.run, id |-> p.id,
                   seq |-> (p.seq + i - 1) % PingSeqMod, k |-> p.sent + i]
  <2>1. i \in 1 .. n /\ p.sent + i = k
    BY <1>1, <1>3
  <2> HIDE DEF i
  <2>2. m \in r
    BY <2>1 DEF Requests
  <2>3. m.kind = "request" /\ m.run = p.run /\ m.k = k
    BY <2>1
  <2> QED BY <2>2, <2>3
<1> HIDE DEF r
<1>10. Counts(q, net \cup r)
  <2>1. q.sent <= q.par.amount
    BY <1>1, <1>3, <1>6
  <2>2. ASSUME NEW m \in net \cup r, m.run = q.run
        PROVE  m.k \in 1 .. q.sent /\ m.seq = (q.start + (m.k - 1)) % PingSeqMod
    <3>1. CASE m \in net
      <4>1. m.k \in 1 .. p.sent /\ m.seq = (p.start + (m.k - 1)) % PingSeqMod
        BY <2>2, <3>1, <1>6 DEF Counts
      <4> QED BY <4>1, <1>1, <1>3, <1>6
    <3>2. CASE m \in r
      <4>1. m.k \in (p.sent + 1) .. (p.sent + n) /\ m.seq = (p.start + (m.k - 1)) % PingSeqMod
        BY <3>2, <1>8
      <4> QED BY <4>1, <1>1, <1>3, <1>6
    <3> QED BY <3>1, <3>2
  <2>3. ASSUME NEW k \in 1 .. q.sent
        PROVE  \E m \in net \cup r : m.kind = "request" /\ m.run = q.run /\ m.k = k
    <3>1. k \in 1 .. p.sent \/ k \in (p.sent + 1) .. (p.sent + n)
      BY <1>1, <1>3, <1>6
    <3>2. CASE k \in 1 .. p.sent
      BY <3>2, <1>6 DEF Counts
    <3>3. CASE k \in (p.sent + 1) .. (p.sent + n)
      BY <3>3, <1>6, <1>9
    <3> QED BY <3>1, <3>2, <3>3
  <2> QED BY <2>1, <2>2, <2>3, <1>6 DEF Counts
<1>11. Orders(q)
  BY <1>6 DEF Orders
<1>12. r \subseteq PingMsgs /\ \A m \in r : m.run = p.run
  BY <1>8
<1>13. r = Requests(p, s.n)
  BY <1>4 DEF r, s
<1> QED BY <1>6, <1>10, <1>11, <1>12, <1>13 DEF q, s

\* Without a reply out of order so far, a reply is in order when it is that of the request with
\* the next number.
LEMMA NextInOrder ==
    ASSUME NEW p \in PingRecs, Orders(p), p.outOfOrder = 0, NEW seq
    PROVE  InOrder(p, seq) <=> seq = (p.start + Len(p.got)) % PingSeqMod
<1>1. /\ p.start \in 0 .. PingSeqMod - 1 /\ Len(p.got) \in Nat /\ PingSeqMod \in Nat \ {0}
      /\ p.first \in BOOLEAN
  BY PingNumbers DEF PingRecs
<1>2. CASE Len(p.got) = 0
  <2>1. p.first = FALSE
    BY <1>1, <1>2 DEF Orders
  <2>2. (p.start + Len(p.got)) % PingSeqMod = p.start
    BY <1>1, <1>2
  <2> QED BY <2>1, <2>2 DEF InOrder
<1>3. CASE Len(p.got) # 0
  <2> DEFINE a == p.start + (Len(p.got) - 1)
  <2>1. p.first = TRUE /\ p.last = a % PingSeqMod
    BY <1>1, <1>3 DEF Orders
  <2>2. a \in Nat /\ a + 1 = p.start + Len(p.got)
    BY <1>1, <1>3
  <2> HIDE DEF a
  <2>3. ((a % PingSeqMod) + 1) % PingSeqMod = (a + 1) % PingSeqMod
    <3> DEFINE b == 1
    <3>1. b \in Nat
      OBVIOUS
    <3> HIDE DEF b
    <3>2. ((a % PingSeqMod) + b) % PingSeqMod = (a + b) % PingSeqMod
      BY <3>1, <2>2, <1>1, ModAdd
    <3> QED BY <3>2 DEF b
  <2> QED BY <2>1, <2>2, <2>3 DEF InOrder
<1> QED BY <1>2, <1>3

\* HandleEchoReply keeps what the counters say.
LEMMA ReplyCounted ==
    ASSUME NEW p \in PingRecs, NEW net \in SUBSET PingMsgs, Counts(p, net), Orders(p),
           NEW m \in net, NEW q \in Counted(p, m)
    PROVE  q \in PingRecs /\ q.run = p.run /\ Counts(q, net) /\ Orders(q)
<1> DEFINE ord == IF InOrder(p, m.seq) THEN 1 ELSE 0
           k == IF m.run = p.run THEN m.k ELSE 0
           n == Len(p.got)
           got == Append(p.got, k)
<1>0. /\ p.par \in PingParams /\ p.par.amount \in Nat /\ p.par.amount < PingSeqMod
      /\ p.start \in 0 .. PingSeqMod - 1 /\ p.got \in Seq(Nat) /\ n \in Nat
      /\ p.inOrder \in Nat /\ p.outOfOrder \in Nat /\ p.sent \in Nat
      /\ PingSeqMod \in Nat \ {0} /\ m.seq \in Nat /\ m.k \in Nat
  BY PingNumbers DEF PingRecs, PingMsgs
<1>1. CASE q = p
  BY <1>1
<1>2. CASE /\ m.id = p.id /\ n < p.par.amount + 1
           /\ q = [p EXCEPT !.inOrder = @ + ord, !.outOfOrder = @ + 1 - ord, !.first = TRUE,
                            !.last = m.seq, !.got = Append(@, k)]
  <2>0. n <= p.par.amount
    <3> HIDE DEF n
    <3> QED BY <1>0, <1>2
  <2>1. ord \in {0, 1} /\ k \in Nat
    BY <1>0
  <2>2. /\ got \in Seq(Nat) /\ Len(got) = n + 1 /\ got[n + 1] = k
        /\ \A i \in 1 .. n : got[i] = p.got[i]
    BY <1>0, <2>1
  <2>3. /\ q \in PingRecs /\ q.run = p.run /\ q.par = p.par /\ q.start = p.start
        /\ q.sent = p.sent /\ q.seq = p.seq /\ q.first = TRUE /\ q.last = m.seq
        /\ q.inOrder = p.inOrder + ord /\ q.outOfOrder = p.outOfOrder + 1 - ord /\ q.got = got
    <3> HIDE DEF ord, k
    <3>1. p.inOrder + ord \in Nat /\ p.outOfOrder + 1 - ord \in Nat
      BY <1>0, <2>1
    <3>2. q = [p EXCEPT !.inOrder = p.inOrder + ord, !.outOfOrder = p.outOfOrder + 1 - ord,
                        !.first = TRUE, !.last = m.seq, !.got = got]
      BY <1>2 DEF PingRecs
    <3> HIDE DEF got
    <3> QED BY <3>1, <3>2, <2>2, <1>0 DEF PingRecs
  <2>4. Counts(q, net)
    BY <2>3 DEF Counts
  <2>5. p.outOfOrder = 0 => (ord = 1 <=> m.seq = (p.start + n) % PingSeqMod)
    BY NextInOrder
  <2>6. (m.run = p.run /\ p.outOfOrder = 0) => (ord = 1 <=> k = n + 1)
    <3> SUFFICES ASSUME m.run = p.run, p.outOfOrder = 0
                 PROVE  ord = 1 <=> k = n + 1
      OBVIOUS
    <3>1. k = m.k /\ m.k \in 1 .. p.sent /\ m.seq = (p.start + (m.k - 1)) % PingSeqMod
          /\ p.sent <= p.par.amount
      BY DEF Counts
    <3> DEFINE a == p.start + (m.k - 1)
               b == p.start + n
    <3>2. a \in Nat /\ b \in Nat /\ a - b < PingSeqMod /\ b - a < PingSeqMod
      <4>1. /\ p.start \in Nat /\ m.k - 1 \in Nat /\ m.k - 1 <= p.par.amount
            /\ n \in Nat /\ p.par.amount \in Nat
        BY <1>0, <3>1
      <4>2. ASSUME NEW u \in Nat, NEW x \in Nat, NEW y \in Nat, NEW z \in Nat, NEW w \in Nat,
                   x <= z, y <= z, z < w
            PROVE  u + x \in Nat /\ u + y \in Nat /\ (u + x) - (u + y) < w /\ (u + y) - (u + x) < w
        BY <4>2
      <4>3. PingSeqMod \in Nat /\ p.par.amount < PingSeqMod
        BY <1>0
      <4> HIDE DEF n
      <4> QED BY <4>1, <4>2, <4>3, <2>0
    <3>3. (a % PingSeqMod = b % PingSeqMod) <=> a = b
      <4> HIDE DEF a, b
      <4> QED BY <3>2, <1>0, ModInj
    <3>4. a = b <=> m.k = n + 1
      <4>1. p.start \in Int /\ m.k \in Int /\ n \in Int
        BY <1>0
      <4> HIDE DEF n
      <4> QED BY <4>1
    <3>5. m.seq = a % PingSeqMod /\ (ord = 1 <=> m.seq = b % PingSeqMod)
      BY <3>1, <2>5
    <3> HIDE DEF a, b, ord
    <3> QED BY <3>1, <3>3, <3>4, <3>5
  <2> HIDE DEF ord, got
  <2>7. q.outOfOrder = 0 => p.outOfOrder = 0 /\ ord = 1
    BY <2>1, <2>3, <1>0
  <2>8. q.inOrder + q.outOfOrder = Len(q.got) /\ Len(q.got) <= q.par.amount + 1
    <3>1. p.inOrder + p.outOfOrder = n
      BY DEF Orders
    <3> HIDE DEF n
    <3>2. Len(q.got) = n + 1 /\ q.par.amount = p.par.amount
      BY <2>2, <2>3
    <3>3. /\ q.inOrder = p.inOrder + ord /\ q.outOfOrder = p.outOfOrder + 1 - ord
          /\ p.inOrder \in Int /\ p.outOfOrder \in Int /\ ord \in Int /\ n \in Int
          /\ p.par.amount \in Int
      BY <2>1, <2>3, <1>0
    <3> QED BY <3>1, <3>2, <3>3, <2>0, SMTT(30)
  <2>9. q.outOfOrder = 0 => /\ q.last = (q.start + (Len(q.got) - 1)) % PingSeqMod
                            /\ \A i \in 1 .. Len(q.got) : q.got[i] \in {0, i}
    <3> SUFFICES ASSUME q.outOfOrder = 0
                 PROVE  /\ q.last = (q.start + (Len(q.got) - 1)) % PingSeqMod
                        /\ \A i \in 1 .. Len(q.got) : q.got[i] \in {0, i}
      OBVIOUS
    <3>1. q.last = (p.start + n) % PingSeqMod
      BY <2>3, <2>5, <2>7
    <3>2. Len(q.got) - 1 = n
      BY <2>2, <2>3, <1>0
    <3>3. k \in {0, n + 1}
      BY <2>6, <2>7
    <3>4. \A i \in 1 .. n : p.got[i] \in {0, i}
      BY <2>7 DEF Orders
    <3> HIDE DEF k, n
    <3>5. \A i \in 1 .. n + 1 : got[i] \in {0, i}
      <4> SUFFICES ASSUME NEW i \in 1 .. n + 1 PROVE got[i] \in {0, i}
        OBVIOUS
      <4>1. n \in Nat /\ (i = n + 1 \/ i \in 1 .. n)
        BY <1>0
      <4>2. CASE i = n + 1
        BY <4>2, <3>3, <2>2
      <4>3. CASE i \in 1 .. n
        BY <4>3, <3>4, <2>2
      <4> QED BY <4>1, <4>2, <4>3
    <3> QED BY <3>1, <3>2, <3>5, <2>2, <2>3
  <2>10. (\A i \in 1 .. Len(q.got) : q.got[i] = i) => q.outOfOrder = 0
    <3> SUFFICES ASSUME \A i \in 1 .. Len(q.got) : q.got[i] = i
                 PROVE  q.outOfOrder = 0
      OBVIOUS
    <3>1. \A i \in 1 .. n + 1 : got[i] = i
      BY <2>2, <2>3
    <3>2. k = n + 1 /\ \A i \in 1 .. n : p.got[i] = i
      <4> HIDE DEF k, n
      <4> QED BY <3>1, <2>2, <1>0
    <3>3. p.outOfOrder = 0
      BY <3>2 DEF Orders
    <3>4. m.run = p.run
      BY <3>2, <1>0
    <3>5. ord = 1
      BY <3>2, <3>3, <3>4, <2>6
    <3> QED BY <3>3, <3>5, <2>3
  <2>11. q.first <=> Len(q.got) # 0
    BY <2>2, <2>3, <1>0
  <2> QED BY <2>3, <2>4, <2>8, <2>9, <2>10, <2>11 DEF Orders
<1> QED BY <1>1, <1>2 DEF Counted

\* The steps of the ping keep its invariant.
LEMMA PingInvInductive == PingInv /\ [PingNext]_pingvars => PingInv'
<1> SUFFICES ASSUME PingInv, [PingNext]_pingvars
             PROVE  PingInv'
  OBVIOUS
<1>0. pingRuns \in Nat /\ pingNet \in SUBSET PingMsgs /\ \A m \in pingNet : m.run \in Nat /\ m.run <= pingRuns
  BY DEF PingInv, PingMsgs
<1>a. ASSUME ping # <<>>
      PROVE  /\ ping = <<ping[1]>> /\ ping[1] \in PingRecs /\ ping[1].run = pingRuns
             /\ Counts(ping[1], pingNet) /\ Orders(ping[1])
  BY <1>a DEF PingInv
<1>1. ASSUME NEW par \in PingParams, NEW id \in PingIds, NEW seq \in PingSeqs, StartPing(par, id, seq)
      PROVE  PingInv'
  <2> DEFINE p == NewPing(par, id, seq)
             s == sendPing(p)
             q == [s.ping EXCEPT !.timer = par.interval]
             r == Requests(p, s.n)
  <2>1. /\ ping' = <<q>> /\ pingNet' = pingNet \cup r /\ pingRuns' = pingRuns + 1
    BY <1>1 DEF StartPing
  <2>2. /\ p \in PingRecs /\ p.run = pingRuns + 1 /\ p.sent = 0 /\ p.seq = seq /\ p.start = seq
        /\ p.par = par /\ p.got = <<>> /\ p.first = FALSE /\ p.inOrder = 0 /\ p.outOfOrder = 0
    BY <1>0, PingAssumption DEF NewPing, PingRecs
  <2>3. par.interval \in Nat /\ par.amount \in Nat /\ PingSeqMod \in Nat \ {0} /\ seq \in 0 .. PingSeqMod - 1
    BY PingNumbers, PingAssumption
  <2> HIDE DEF p
  <2>4. Counts(p, pingNet)
    <3>1. (p.start + p.sent) % PingSeqMod = p.seq
      BY <2>2, <2>3
    <3>2. \A m \in pingNet : m.run # p.run
      BY <2>2, <1>0
    <3> QED BY <3>1, <3>2, <2>2, <2>3 DEF Counts
  <2>5. Orders(p)
    BY <2>2, <2>3 DEF Orders
  <2>6. /\ q \in PingRecs /\ q.run = p.run /\ Counts(q, pingNet \cup r) /\ Orders(q)
        /\ r \subseteq PingMsgs /\ \A m \in r : m.run = p.run
    BY <2>2, <2>3, <2>4, <2>5, <1>0, BurstCounts
  <2> HIDE DEF q, r, s
  <2>7. \A m \in pingNet' : m.run <= pingRuns'
    BY <2>1, <2>2, <2>6, <1>0
  <2> QED BY <2>1, <2>2, <2>6, <2>7, <1>0 DEF PingInv
<1>2. CASE StopPing
  BY <1>2, <1>0 DEF StopPing, PingInv
<1>3. CASE PingOnEvent
  <2> DEFINE p == ping[1]
             s == sendPing(p)
             r == Requests(p, s.n)
             t == IF s.ping.sent = p.par.amount THEN p.par.timeout ELSE p.par.interval
             q == [s.ping EXCEPT !.timer = t]
  <2>0. ping # <<>> /\ pingRuns' = pingRuns
    BY <1>3 DEF PingOnEvent
  <2>1. CASE p.sent < p.par.amount
    <3>1. ping' = <<q>> /\ pingNet' = pingNet \cup r
      BY <1>3, <2>1 DEF PingOnEvent
    <3>2. p \in PingRecs /\ p.run = pingRuns /\ Counts(p, pingNet) /\ Orders(p)
      BY <2>0, <1>a
    <3>3. t \in Nat
      BY <3>2, PingNumbers DEF PingRecs
    <3> HIDE DEF p, t
    <3>4. /\ q \in PingRecs /\ q.run = p.run /\ Counts(q, pingNet \cup r) /\ Orders(q)
          /\ r \subseteq PingMsgs /\ \A m \in r : m.run = p.run
      BY <3>2, <3>3, <1>0, BurstCounts
    <3> HIDE DEF q, r, s
    <3>5. \A m \in pingNet' : m.run <= pingRuns'
      BY <2>0, <3>1, <3>2, <3>4, <1>0
    <3> QED BY <2>0, <3>1, <3>2, <3>4, <3>5, <1>0 DEF PingInv
  <2>2. CASE ~ p.sent < p.par.amount
    <3>1. ping' = <<>> /\ pingNet' = pingNet
      BY <1>3, <2>2 DEF PingOnEvent
    <3> QED BY <2>0, <3>1, <1>0 DEF PingInv
  <2> QED BY <2>1, <2>2
<1>4. CASE PingTick
  <2> DEFINE p == ping[1]
             q == [p EXCEPT !.timer = @ - 1]
  <2>1. /\ ping # <<>> /\ ping' = <<q>> /\ p.timer > 0
        /\ pingNet' = pingNet /\ pingRuns' = pingRuns
    BY <1>4 DEF PingTick
  <2>2. p \in PingRecs /\ p.run = pingRuns /\ Counts(p, pingNet) /\ Orders(p)
    BY <2>1, <1>a
  <2> HIDE DEF p
  <2>3. /\ q \in PingRecs /\ q.run = p.run /\ q.par = p.par /\ q.start = p.start /\ q.sent = p.sent
        /\ q.seq = p.seq /\ q.first = p.first /\ q.last = p.last /\ q.inOrder = p.inOrder
        /\ q.outOfOrder = p.outOfOrder /\ q.got = p.got
    <3>1. p.timer - 1 \in Nat
      BY <2>1, <2>2 DEF PingRecs
    <3> QED BY <3>1, <2>2 DEF PingRecs
  <2> HIDE DEF q
  <2>4. Counts(q, pingNet) /\ Orders(q)
    BY <2>2, <2>3 DEF Counts, Orders
  <2> QED BY <2>1, <2>2, <2>3, <2>4, <1>0 DEF PingInv
<1>5. CASE PeerChanges
  BY <1>5 DEF PeerChanges, PingInv
<1>6. ASSUME NEW m \in pingNet, HandleEcho(m)
      PROVE  PingInv'
  <2> DEFINE e == [m EXCEPT !.kind = "reply"]
  <2>1. pingNet' = pingNet \cup {e} /\ ping' = ping /\ pingRuns' = pingRuns
    BY <1>6 DEF HandleEcho
  <2>2. e \in PingMsgs /\ e.run = m.run /\ e.k = m.k /\ e.seq = m.seq
    BY <1>0 DEF PingMsgs
  <2> HIDE DEF e
  <2>3. ASSUME NEW p \in PingRecs, Counts(p, pingNet)
        PROVE  Counts(p, pingNet')
    BY <2>1, <2>2, <2>3 DEF Counts
  <2>4. pingNet' \subseteq PingMsgs /\ \A n \in pingNet' : n.run <= pingRuns'
    BY <2>1, <2>2, <1>0
  <2>5. CASE ping # <<>>
    BY <2>1, <2>3, <2>4, <2>5, <1>0, <1>a DEF PingInv
  <2>6. CASE ping = <<>>
    BY <2>1, <2>4, <2>6, <1>0 DEF PingInv
  <2> QED BY <2>5, <2>6
<1>7. ASSUME NEW m \in pingNet, HandleEchoReply(m)
      PROVE  PingInv'
  <2>1. /\ ping # <<>> /\ pingNet' = pingNet /\ pingRuns' = pingRuns
        /\ \E q \in Counted(ping[1], m) : ping' = <<q>>
    BY <1>7 DEF HandleEchoReply
  <2>2. PICK q \in Counted(ping[1], m) : ping' = <<q>>
    BY <2>1
  <2> DEFINE p == ping[1]
  <2>3. p \in PingRecs /\ p.run = pingRuns /\ Counts(p, pingNet) /\ Orders(p) /\ q \in Counted(p, m)
    BY <2>1, <1>a
  <2> HIDE DEF p
  <2>4. q \in PingRecs /\ q.run = p.run /\ Counts(q, pingNet) /\ Orders(q)
    BY <2>3, <1>0, ReplyCounted
  <2> QED BY <2>1, <2>2, <2>3, <2>4, <1>0 DEF PingInv
<1>8. CASE UNCHANGED pingvars
  BY <1>8 DEF PingInv, pingvars
<1> QED BY <1>1, <1>2, <1>3, <1>4, <1>5, <1>6, <1>7, <1>8 DEF PingNext

\* The requests of a ping are exactly as many as it was asked for, and its counters tell replies
\* that came in order, across the wrap of the sequence number, from those that did not, for every
\* ping shorter than the cycle of the sequence numbers (ping.go, sendPing and HandleEchoReply).
THEOREM PingCountsRight == PingSpec => []PingSound
<1>1. PingInit => PingInv
  BY DEF PingInit, PingInv
<1>2. PingInv => PingSound
  <2> SUFFICES ASSUME PingInv, ping # <<>>
               PROVE  PingExact /\ PingOrder
    BY DEF PingSound, PingExact, PingOrder
  <2> DEFINE p == ping[1]
  <2>1. /\ p \in PingRecs /\ p.run = pingRuns /\ Counts(p, pingNet) /\ Orders(p)
    BY DEF PingInv
  <2> HIDE DEF p
  <2>2. {m.k : m \in {n \in pingNet : n.kind = "request" /\ n.run = p.run}} = 1 .. p.sent
    BY <2>1 DEF Counts
  <2>3. p.sent <= p.par.amount /\ DOMAIN p.got = 1 .. Len(p.got)
    BY <2>1 DEF Counts, PingRecs
  <2>4. PingExact
    BY <2>2, <2>3 DEF PingExact, p
  <2>5. PingOrder
    BY <2>1, <2>3 DEF Orders, PingOrder, p
  <2> QED BY <2>4, <2>5
<1> QED BY <1>1, <1>2, PingInvInductive, PTL DEF PingSpec

-----------------------------------------------------------------------------
(* The client *)

ClientRecs ==
    [life : {"none", "up", "half", "removed"}, plugs : SUBSET Plugins, bus : SUBSET Plugins,
     mask : SUBSET Families, attempts : Nat, polls : Nat, timer : BOOLEAN,
     known : [Plugins -> SUBSET Families], starts : [Plugins -> [Families -> Nat]]]

(* The families plugin p acts on.                                          *)
Uses(p) == IF p \in Both THEN Families ELSE {FamilyOf[p]}

(* Every plugin is on the bus and has started once for each family it has  *)
(* acted on, and the polls are the attempts that were counted.             *)
Served(c) ==
    /\ c.bus = Plugins /\ c.plugs = Plugins
    /\ \A p \in Plugins, f \in Families : c.starts[p][f] = IF f \in c.known[p] THEN 1 ELSE 0
    /\ c.attempts \in 0 .. MaxAttempts

(* The plugins have acted on what the client has announced.                *)
Announced(c) == \A p \in Plugins : c.known[p] = Uses(p) \cap c.mask

(* A client before a poll: they may have acted on what it will announce.   *)
BeforePoll(c) ==
    /\ c \in ClientRecs /\ c.life = "up" /\ Served(c)
    /\ \A p \in Plugins : /\ Uses(p) \cap c.mask \subseteq c.known[p]
                          /\ c.known[p] \subseteq Uses(p) \cap (c.mask \cup DgResolved)
    /\ c.polls = c.attempts

(* A client after a poll.                                                  *)
AfterPoll(c) ==
    /\ c \in ClientRecs /\ c.life = "up" /\ Served(c) /\ Announced(c)
    /\ IF c.timer THEN c.polls = c.attempts
       ELSE c.mask = Families \/ c.polls = 1 + MaxAttempts

(* The inductive invariant of the client.                                  *)
ClInv ==
    /\ cctx \in ClientRecs
    /\ gw \in [forced : SUBSET Families, learned : SUBSET Families]
    /\ cctx.life = "up" => AfterPoll(cctx)
    /\ cctx.timer => cctx.life = "up"

(* BroadcastMsg: a plugin has then acted on all the families of the mask   *)
(* that it uses, and has started for each of them once.                    *)
LEMMA BroadcastStartsOnce ==
    ASSUME NEW c \in ClientRecs, NEW mask \in SUBSET Families, Served(c)
    PROVE  LET d == BroadcastMsg(c, mask) IN
           /\ d \in ClientRecs /\ Served(d)
           /\ \A p \in Plugins : d.known[p] = c.known[p] \cup (Uses(p) \cap mask)
           /\ d.life = c.life /\ d.mask = c.mask /\ d.polls = c.polls
           /\ d.attempts = c.attempts /\ d.timer = c.timer
<1> DEFINE new == [p \in Plugins |->
                     IF p \in c.bus THEN OnMacResolved(p, c.known[p], mask) ELSE {}]
           kn == [p \in Plugins |-> c.known[p] \cup new[p]]
           st == [p \in Plugins |-> [f \in Families |->
                     IF f \in new[p] THEN c.starts[p][f] + 1 ELSE c.starts[p][f]]]
           d == BroadcastMsg(c, mask)
<1>1. /\ c.bus = Plugins /\ c.known \in [Plugins -> SUBSET Families]
      /\ c.starts \in [Plugins -> [Families -> Nat]]
  BY DEF Served, ClientRecs
<1>2. \A p \in Plugins : new[p] = (Uses(p) \cap mask) \ c.known[p]
  BY <1>1, ClientAssumption DEF OnMacResolved, Uses, Plugins, Families
<1>3. d = [c EXCEPT !.known = kn, !.starts = st]
  BY DEF BroadcastMsg
<1> HIDE DEF new, d
<1>4. kn \in [Plugins -> SUBSET Families] /\ st \in [Plugins -> [Families -> Nat]]
  <2>1. \A p \in Plugins : c.known[p] \cup new[p] \in SUBSET Families
    BY <1>1, <1>2
  <2>2. \A p \in Plugins, f \in Families : c.starts[p][f] \in Nat
    BY <1>1
  <2> QED BY <2>1, <2>2
<1>5. \A p \in Plugins : kn[p] = c.known[p] \cup (Uses(p) \cap mask)
  BY <1>2
<1>6. \A p \in Plugins, f \in Families : st[p][f] = IF f \in kn[p] THEN 1 ELSE 0
  <2> SUFFICES ASSUME NEW p \in Plugins, NEW f \in Families
               PROVE  st[p][f] = IF f \in kn[p] THEN 1 ELSE 0
    OBVIOUS
  <2>1. c.starts[p][f] = IF f \in c.known[p] THEN 1 ELSE 0
    BY DEF Served
  <2>2. st[p][f] = IF f \in new[p] THEN c.starts[p][f] + 1 ELSE c.starts[p][f]
    OBVIOUS
  <2> QED BY <2>1, <2>2, <1>2, <1>5, SMTT(30)
<1> HIDE DEF kn, st
<1>7. /\ d \in ClientRecs /\ d.known = kn /\ d.starts = st /\ d.bus = c.bus /\ d.plugs = c.plugs
      /\ d.life = c.life /\ d.mask = c.mask /\ d.polls = c.polls
      /\ d.attempts = c.attempts /\ d.timer = c.timer
  BY <1>3, <1>4 DEF ClientRecs
<1>8. Served(d)
  BY <1>6, <1>7 DEF Served
<1> QED BY <1>5, <1>7, <1>8 DEF d

(* CClient.OnEvent: a poll announces all that is resolved, and goes on     *)
(* polling unless both families are or the attempts are used up.           *)
LEMMA PollAnnounces ==
    ASSUME NEW c, BeforePoll(c), gw \in [forced : SUBSET Families, learned : SUBSET Families]
    PROVE  AfterPoll(PollDg(c))
<1> DEFINE found == DgResolved \ c.mask
           d == [c EXCEPT !.mask = @ \cup found, !.polls = @ + 1, !.timer = FALSE]
           e == IF found # {} THEN BroadcastMsg(d, d.mask) ELSE d
<1>1. DgResolved \in SUBSET Families
  BY DEF DgResolved
<1>2. /\ d \in ClientRecs /\ d.mask = c.mask \cup DgResolved /\ d.mask \in SUBSET Families
      /\ d.polls = c.polls + 1 /\ d.timer = FALSE /\ d.life = c.life /\ d.bus = c.bus
      /\ d.plugs = c.plugs /\ d.known = c.known /\ d.starts = c.starts /\ d.attempts = c.attempts
  <2>1. c \in ClientRecs /\ c.mask \cup found = c.mask \cup DgResolved /\ c.mask \in SUBSET Families
    BY DEF BeforePoll, ClientRecs
  <2>2. c.mask \cup found \in SUBSET Families
    BY <2>1, <1>1
  <2> DEFINE mask == c.mask \cup found
  <2>3. d = [c EXCEPT !.mask = mask, !.polls = c.polls + 1, !.timer = FALSE]
    BY <2>1 DEF ClientRecs
  <2>4. mask \in SUBSET Families /\ mask = c.mask \cup DgResolved
    BY <2>1, <2>2
  <2> HIDE DEF mask, d
  <2>5. c.polls + 1 \in Nat
    BY <2>1 DEF ClientRecs
  <2> QED BY <2>1, <2>3, <2>4, <2>5 DEF ClientRecs
<1>3. Served(d)
  BY <1>2 DEF BeforePoll, Served
<1> HIDE DEF d
<1>4. /\ e \in ClientRecs /\ Served(e) /\ e.life = "up" /\ e.mask = d.mask
      /\ e.polls = c.attempts + 1 /\ e.attempts = c.attempts /\ e.timer = FALSE
      /\ \A p \in Plugins : e.known[p] = Uses(p) \cap d.mask
  <2>1. \A p \in Plugins : /\ Uses(p) \cap c.mask \subseteq c.known[p]
                           /\ c.known[p] \subseteq Uses(p) \cap d.mask
    BY <1>2 DEF BeforePoll
  <2>2. CASE found # {}
    <3>1. e = BroadcastMsg(d, d.mask)
      BY <2>2
    <3> HIDE DEF e
    <3>2. /\ e \in ClientRecs /\ Served(e)
          /\ \A p \in Plugins : e.known[p] = d.known[p] \cup (Uses(p) \cap d.mask)
          /\ e.life = d.life /\ e.mask = d.mask /\ e.polls = d.polls
          /\ e.attempts = d.attempts /\ e.timer = d.timer
      <4>1. d \in ClientRecs /\ d.mask \in SUBSET Families
        BY <1>2
      <4> QED BY <4>1, <3>1, <1>3, BroadcastStartsOnce
    <3>3. c.life = "up" /\ c.polls = c.attempts
      BY DEF BeforePoll
    <3>4. \A p \in Plugins : e.known[p] = Uses(p) \cap d.mask
      BY <3>2, <2>1, <1>2
    <3> QED BY <3>2, <3>3, <3>4, <1>2
  <2>3. CASE found = {}
    <3>1. d.mask = c.mask
      BY <2>3, <1>2
    <3> QED BY <3>1, <2>1, <2>3, <1>2, <1>3 DEF BeforePoll
  <2> QED BY <2>2, <2>3
<1>5. PollDg(c) = IF e.attempts < MaxAttempts /\ e.mask # Families
                THEN [e EXCEPT !.attempts = @ + 1, !.timer = TRUE] ELSE e
  BY DEF PollDg, d
<1> HIDE DEF e
<1>6. c.attempts \in 0 .. MaxAttempts /\ MaxAttempts \in Nat
  BY ClientAssumption DEF BeforePoll, Served
<1>7. CASE e.attempts < MaxAttempts /\ e.mask # Families
  <2> DEFINE g == [e EXCEPT !.attempts = @ + 1, !.timer = TRUE]
  <2>1. /\ g \in ClientRecs /\ g.attempts = e.attempts + 1 /\ g.timer = TRUE /\ g.life = e.life
        /\ g.bus = e.bus /\ g.plugs = e.plugs /\ g.known = e.known /\ g.starts = e.starts
        /\ g.mask = e.mask /\ g.polls = e.polls
    BY <1>4 DEF ClientRecs
  <2>2. g.attempts \in 0 .. MaxAttempts
    BY <2>1, <1>4, <1>6, <1>7
  <2> HIDE DEF g
  <2>3. Served(g) /\ Announced(g)
    BY <2>1, <2>2, <1>4 DEF Served, Announced
  <2>4. AfterPoll(g)
    BY <2>1, <2>3, <1>4, <1>6 DEF AfterPoll
  <2> QED BY <2>4, <1>5, <1>7 DEF g
<1>8. CASE ~ (e.attempts < MaxAttempts /\ e.mask # Families)
  <2>1. e.mask = Families \/ e.polls = 1 + MaxAttempts
    BY <1>4, <1>6, <1>8
  <2> QED BY <2>1, <1>4, <1>5, <1>8 DEF AfterPoll, Announced
<1> QED BY <1>7, <1>8

(* The client with the plugins that were made.                             *)
Made(made, failed, way) == [addPlugins(NewClient, made, failed) EXCEPT !.life = way]

(* What is known of it.                                                    *)
Added(c, made, failed, way) ==
    /\ c \in ClientRecs /\ c.bus = made \cup failed /\ c.plugs = made /\ c.life = way
    /\ c.timer = FALSE /\ c.mask = {} /\ c.attempts = 0 /\ c.polls = 0
    /\ \A p \in Plugins : /\ c.known[p] = IF p \in made \cap Both THEN gw.forced ELSE {}
                          /\ \A f \in Families :
                               c.starts[p][f] = IF f \in c.known[p] THEN 1 ELSE 0

(* addPlugin: the plugins made have acted on the forced gateways.          *)
LEMMA PluginsAdded ==
    ASSUME NEW made \in SUBSET Plugins, NEW failed \in SUBSET Plugins,
           NEW way \in {"up", "half"}, gw.forced \in SUBSET Families
    PROVE  Added(Made(made, failed, way), made, failed, way)
<1> DEFINE c == Made(made, failed, way)
<1>0. NewClient \in ClientRecs
  BY DEF NewClient, ClientRecs
<1> DEFINE forced == [p \in Plugins |-> IF p \in made \cap Both THEN gw.forced ELSE {}]
           st == [p \in Plugins |-> [f \in Families |-> IF f \in forced[p] THEN 1 ELSE 0]]
           a == addPlugins(NewClient, made, failed)
<1>2. /\ forced \in [Plugins -> SUBSET Families]
      /\ \A p \in Plugins : forced[p] = IF p \in made \cap Both THEN gw.forced ELSE {}
  OBVIOUS
<1>3. a = [NewClient EXCEPT !.bus = made \cup failed, !.plugs = made, !.known = forced,
                            !.starts = st]
  BY DEF addPlugins
<1> HIDE DEF forced, a
<1>4. /\ st \in [Plugins -> [Families -> Nat]]
      /\ \A p \in Plugins : \A f \in Families : st[p][f] = IF f \in forced[p] THEN 1 ELSE 0
  OBVIOUS
<1> HIDE DEF st
<1>5. /\ NewClient.timer = FALSE /\ NewClient.mask = {} /\ NewClient.attempts = 0
      /\ NewClient.polls = 0
  BY DEF NewClient
<1>6. /\ a \in ClientRecs /\ a.bus = made \cup failed /\ a.plugs = made /\ a.known = forced
      /\ a.starts = st /\ a.timer = FALSE /\ a.mask = {} /\ a.attempts = 0 /\ a.polls = 0
  BY <1>2, <1>3, <1>4, <1>5, <1>0 DEF ClientRecs
<1>7. /\ c \in ClientRecs /\ c.bus = a.bus /\ c.plugs = a.plugs /\ c.known = a.known
      /\ c.starts = a.starts /\ c.timer = a.timer /\ c.mask = a.mask
      /\ c.attempts = a.attempts /\ c.polls = a.polls /\ c.life = way
  BY <1>6 DEF ClientRecs, Made, a
<1> HIDE DEF c
<1>8. Added(c, made, failed, way)
  <2>1. /\ c \in ClientRecs /\ c.bus = made \cup failed /\ c.plugs = made /\ c.life = way
        /\ c.timer = FALSE /\ c.mask = {} /\ c.attempts = 0 /\ c.polls = 0
        /\ c.known = forced /\ c.starts = st
    BY <1>6, <1>7
  <2>2. \A p \in Plugins : /\ c.known[p] = IF p \in made \cap Both THEN gw.forced ELSE {}
                           /\ \A f \in Families :
                                c.starts[p][f] = IF f \in c.known[p] THEN 1 ELSE 0
    BY <1>2, <1>4, <2>1
  <2> QED BY <2>1, <2>2 DEF Added
<1> QED BY <1>8 DEF c

LEMMA ClInvInductive == ClInv /\ [ClNext]_clvars => ClInv'
<1> SUFFICES ASSUME ClInv, [ClNext]_clvars
             PROVE  ClInv'
  OBVIOUS
<1>0. MaxAttempts \in Nat
  BY ClientAssumption
<1>a. gw.forced \in SUBSET Families
  BY DEF ClInv
<1>1. CASE ClAdd
  <2>1. CASE cctx' = PollDg([addPlugins(NewClient, Plugins, {}) EXCEPT !.life = "up"])
    <3> DEFINE c == [addPlugins(NewClient, Plugins, {}) EXCEPT !.life = "up"]
    <3>1. /\ c \in ClientRecs /\ c.bus = Plugins /\ c.plugs = Plugins /\ c.life = "up"
          /\ c.mask = {} /\ c.attempts = 0 /\ c.polls = 0
          /\ \A p \in Plugins : /\ c.known[p] = IF p \in Both THEN gw.forced ELSE {}
                                /\ \A f \in Families :
                                     c.starts[p][f] = IF f \in c.known[p] THEN 1 ELSE 0
      <4> DEFINE N == {}
      <4>1. N \in SUBSET Plugins /\ Plugins \in SUBSET Plugins /\ Plugins \cup N = Plugins
            /\ Plugins \cap Both = Both
        BY DEF Plugins
      <4>2. c = Made(Plugins, N, "up")
        BY DEF Made
      <4> HIDE DEF N, c
      <4>3. Added(c, Plugins, N, "up")
        BY <4>1, <4>2, <1>a, PluginsAdded
      <4> QED BY <4>1, <4>3 DEF Added
    <3> HIDE DEF c
    <3>2. BeforePoll(c)
      <4>1. gw.forced \subseteq DgResolved /\ gw.forced \subseteq Families
        BY DEF ClInv, DgResolved
      <4> QED BY <4>1, <3>1, <1>0 DEF BeforePoll, Served, Uses
    <3>3. AfterPoll(cctx')
      BY <3>2, <2>1, PollAnnounces DEF ClInv, c
    <3>4. gw' = gw
      BY <1>1 DEF ClAdd
    <3> QED BY <3>3, <3>4 DEF ClInv, AfterPoll, Served, Announced, ClientRecs
  <2>2. ASSUME NEW p \in Plugins, NEW made \in SUBSET (Plugins \ {p}),
               cctx' = [addPlugins(NewClient, made, {p}) EXCEPT !.life = "half"]
        PROVE  ClInv'
    <3>1. cctx' \in ClientRecs /\ cctx'.life = "half" /\ cctx'.timer = FALSE
      <4>1. cctx' = Made(made, {p}, "half") /\ made \in SUBSET Plugins /\ {p} \in SUBSET Plugins
        BY <2>2 DEF Made
      <4>2. Added(Made(made, {p}, "half"), made, {p}, "half")
        BY <4>1, <1>a, PluginsAdded
      <4> QED BY <4>1, <4>2 DEF Added
    <3>2. gw' = gw
      BY <1>1 DEF ClAdd
    <3> QED BY <3>1, <3>2 DEF ClInv, AfterPoll
  <2> QED BY <1>1, <2>1, <2>2 DEF ClAdd
<1>2. CASE ClPoll
  <2>1. cctx' = PollDg(cctx) /\ cctx.timer /\ gw' = gw
    BY <1>2 DEF ClPoll
  <2>2. AfterPoll(cctx)
    BY <2>1 DEF ClInv
  <2>3. BeforePoll(cctx)
    BY <2>1, <2>2 DEF AfterPoll, BeforePoll, Announced
  <2>4. AfterPoll(cctx')
    BY <2>1, <2>3, PollAnnounces DEF ClInv
  <2> QED BY <2>1, <2>4 DEF ClInv, AfterPoll, Served, Announced
<1>3. CASE ClRemove
  <2>1. /\ cctx' \in ClientRecs /\ cctx'.life = "removed" /\ cctx'.timer = FALSE /\ gw' = gw
    BY <1>3 DEF ClRemove, ClInv, ClientRecs
  <2> QED BY <2>1 DEF ClInv, AfterPoll
<1>4. CASE GwChanges
  <2>1. /\ cctx' = cctx /\ gw' \in [forced : SUBSET Families, learned : SUBSET Families]
    BY <1>4 DEF GwChanges, ClInv
  <2> QED BY <2>1 DEF ClInv, AfterPoll, Served, Announced
<1>5. CASE UNCHANGED clvars
  BY <1>5 DEF ClInv, clvars, AfterPoll, Served, Announced
<1> QED BY <1>1, <1>2, <1>3, <1>4, <1>5 DEF ClNext

(* Every plugin of a client starts exactly once per address family it      *)
(* uses, whatever the gateways and the announcements do, and the client    *)
(* polls until both families are resolved or its attempts are used up, for *)
(* any plugins and any number of attempts (client_ctx.go, OnEvent).        *)
THEOREM PluginsStartOnce == ClSpec => []ClientSound
<1>1. ClInit => ClInv
  <2> SUFFICES ASSUME ClInit PROVE ClInv
    OBVIOUS
  <2>1. /\ cctx \in ClientRecs /\ cctx.life = "none" /\ cctx.timer = FALSE
    BY DEF ClInit, NewClient, ClientRecs
  <2>2. gw \in [forced : SUBSET Families, learned : SUBSET Families]
    BY DEF ClInit
  <2> QED BY <2>1, <2>2 DEF ClInv
<1>2. ClInv => ClientSound
  <2> SUFFICES ASSUME ClInv PROVE ClientSound
    OBVIOUS
  <2>1. ClStartsOnce
    <3> SUFFICES ASSUME cctx.life = "up", NEW p \in cctx.plugs, NEW f \in Families
                 PROVE  cctx.starts[p][f] =
                          IF f \in cctx.mask /\ (p \in Both \/ FamilyOf[p] = f) THEN 1 ELSE 0
      BY DEF ClStartsOnce
    <3>1. p \in Plugins /\ cctx.known[p] = Uses(p) \cap cctx.mask
          /\ cctx.starts[p][f] = IF f \in cctx.known[p] THEN 1 ELSE 0
      BY DEF ClInv, AfterPoll, Served, Announced
    <3> QED BY <3>1 DEF Uses
  <2>2. ClPollsOn
    BY DEF ClInv, AfterPoll, ClPollsOn
  <2> QED BY <2>1, <2>2 DEF ClientSound
<1> QED BY <1>1, <1>2, ClInvInductive, PTL DEF ClSpec

-----------------------------------------------------------------------------
(* The IPFIX exporter over UDP *)

ChanTyped ==
    /\ ch \in Seq(Packet)
    /\ closed \in BOOLEAN /\ highWatermark \in BOOLEAN /\ chTimer \in BOOLEAN
    /\ pending \in BOOLEAN
    /\ paused \in [Gens -> BOOLEAN]
    /\ flowSeq \in 0..FlowSeqMod - 1

Below ==
    /\ Len(ch) <= HighThr + 1
    /\ ~highWatermark /\ ~pending => Len(ch) <= HighThr
    /\ pending => ~highWatermark

IInv == ChanTyped /\ Below /\ NoWriteRefused /\ PauseFollowsChannel

-----------------------------------------------------------------------------
\* The channel is empty and nothing is paused at first.
LEMMA InitHolds == UdpInit => IInv
  <1> SUFFICES ASSUME UdpInit PROVE IInv
    OBVIOUS
  <1>1. ChanTyped
    <2>1. flowSeq \in 0..FlowSeqMod - 1
      BY GenAssumption DEF UdpInit
    <2>2. ch \in Seq(Packet)
      BY DEF UdpInit, ChanInit
    <2>3. paused \in [Gens -> BOOLEAN]
      BY DEF UdpInit
    <2>4. /\ closed \in BOOLEAN /\ highWatermark \in BOOLEAN /\ chTimer \in BOOLEAN
          /\ pending \in BOOLEAN
      BY DEF UdpInit, ChanInit
    <2> QED BY <2>1, <2>2, <2>3, <2>4 DEF ChanTyped
  <1>2. Below
    BY ChanAssumption DEF UdpInit, ChanInit, Below
  <1>3. NoWriteRefused /\ PauseFollowsChannel
    BY DEF UdpInit, ChanInit, NoWriteRefused, PauseFollowsChannel
  <1> QED BY <1>1, <1>2, <1>3 DEF IInv

\* A step that touches neither the channel nor the pause keeps the invariant.
LEMMA Untouched ==
    ASSUME IInv, UNCHANGED <<chanVars, paused, flowSeq, writeErr, pending>>
    PROVE IInv'
  BY DEF IInv, chanVars, ChanTyped, Below, NoWriteRefused, PauseFollowsChannel

\* A step that ends the work on a packet without a send keeps it too.
LEMMA Skipped ==
    ASSUME IInv, ~pending, pending' = FALSE, UNCHANGED <<chanVars, paused, flowSeq, writeErr>>
    PROVE IInv'
  <1>1. pending' = pending
    BY DEF IInv, ChanTyped
  <1> QED BY <1>1, Untouched

\* A generator that is not paused finds room in the channel.
LEMMA RoomToPush ==
    ASSUME IInv, ~pending, NEW g \in Gens, ~paused[g]
    PROVE ~highWatermark /\ Len(ch) <= HighThr /\ ~Full
  <1>1. ~highWatermark /\ Len(ch) <= HighThr
    BY DEF IInv, Below, PauseFollowsChannel
  <1>2. Len(ch) \in Nat
    BY DEF IInv, ChanTyped
  <1> QED BY <1>1, <1>2, ChanAssumption DEF Full

\* The send to the channel: the only step that lengthens it.
LEMMA PushHolds ==
    ASSUME IInv, ~pending, NEW g \in Gens, ~paused[g],
           NEW k \in {"tmpl", "data"},
           Push([kind |-> k, gen |-> g, seq |-> flowSeq]),
           pending' = TRUE, UNCHANGED <<paused, flowSeq, writeErr>>
    PROVE IInv'
  <1> DEFINE p == [kind |-> k, gen |-> g, seq |-> flowSeq]
  <1>1. p \in Packet
    BY DEF IInv, ChanTyped, Packet
  <1>2. ch' = Append(ch, p) /\ UNCHANGED <<closed, highWatermark, chTimer>>
    BY DEF Push
  <1>3. ch \in Seq(Packet)
    BY DEF IInv, ChanTyped
  <1> HIDE DEF p
  <1>4. ch' \in Seq(Packet) /\ Len(ch') = Len(ch) + 1
    BY <1>1, <1>2, <1>3
  <1>5. ChanTyped'
    BY <1>2, <1>4 DEF IInv, ChanTyped
  <1>6. ~highWatermark /\ Len(ch) <= HighThr /\ Len(ch) \in Nat
    BY <1>3, RoomToPush
  <1>7. Below'
    BY <1>2, <1>4, <1>6, ChanAssumption, SMTT(30) DEF Below
  <1>8. NoWriteRefused' /\ PauseFollowsChannel'
    BY <1>2 DEF IInv, NoWriteRefused, PauseFollowsChannel
  <1> QED BY <1>5, <1>7, <1>8 DEF IInv

\* The check after the send announces the watermark and pauses everyone.
LEMMA CheckHolds ==
    ASSUME IInv, pending, CheckHigh, NotifyHigh, pending' = FALSE,
           writeErr' = writeErr, flowSeq' \in 0..FlowSeqMod - 1
    PROVE IInv'
  <1>1. Len(ch) \in Nat
    BY DEF IInv, ChanTyped
  <1>2. ~highWatermark /\ Len(ch) <= HighThr + 1
    BY DEF IInv, Below
  <1>3. (highWatermark' <=> Len(ch) > HighThr) /\ UNCHANGED <<ch, closed>>
    BY <1>2 DEF CheckHigh, Rises
  <1>4. ChanTyped'
    BY <1>3 DEF IInv, ChanTyped, CheckHigh, NotifyHigh, Rises
  <1>5. Below'
    BY <1>1, <1>2, <1>3, ChanAssumption DEF Below
  <1>6. \A g \in Gens : paused'[g] <=> highWatermark'
    BY <1>2 DEF IInv, PauseFollowsChannel, NotifyHigh, CheckHigh
  <1>7. ~closed => (chTimer' <=> highWatermark')
    BY <1>2 DEF IInv, PauseFollowsChannel, CheckHigh
  <1>8. PauseFollowsChannel'
    BY <1>3, <1>6, <1>7 DEF PauseFollowsChannel
  <1>9. NoWriteRefused'
    BY DEF IInv, NoWriteRefused
  <1> QED BY <1>4, <1>5, <1>8, <1>9 DEF IInv

\* The steps of sendTemplatePkt.
LEMMA TemplateHolds ==
    ASSUME IInv, NEW g \in Gens, TemplateSkipped(g) \/ TemplatePush(g) \/ TemplateWritten(g)
    PROVE IInv'
  <1>1. CASE TemplateSkipped(g)
    <2>1. ~pending /\ pending' = FALSE /\ UNCHANGED <<chanVars, paused, flowSeq, writeErr>>
      BY <1>1 DEF TemplateSkipped, Continue, countVars
    <2> QED BY <2>1, Skipped
  <1>2. CASE TemplatePush(g)
    <2>1. ~pending /\ ~paused[g] /\ paused' = paused
      BY <1>2 DEF TemplatePush
    <2>2. ~Full
      BY <2>1, RoomToPush
    <2>3. /\ Push([kind |-> "tmpl", gen |-> g, seq |-> flowSeq])
          /\ pending' = TRUE /\ UNCHANGED <<flowSeq, writeErr>>
      BY <1>2, <2>2 DEF TemplatePush
    <2> QED BY <2>1, <2>3, PushHolds
  <1>3. CASE TemplateWritten(g)
    <2>1. /\ pending /\ CheckHigh /\ NotifyHigh /\ pending' = FALSE /\ writeErr' = writeErr
          /\ flowSeq' = (flowSeq + 1) % FlowSeqMod \/ flowSeq' = flowSeq
      BY <1>3 DEF TemplateWritten, Continue, CountTemplate
    <2>2. flowSeq \in 0..FlowSeqMod - 1
      BY DEF IInv, ChanTyped
    <2>3. (flowSeq + 1) % FlowSeqMod \in 0..FlowSeqMod - 1
      BY <2>2, GenAssumption
    <2> QED BY <2>1, <2>2, <2>3, CheckHolds
  <1> QED BY <1>1, <1>2, <1>3

\* The steps of sendDataPkt.
LEMMA DataHolds ==
    ASSUME IInv, NEW g \in Gens, DataPush(g) \/ DataWritten(g) \/ DataEnds(g)
    PROVE IInv'
  <1>1. CASE DataEnds(g)
    <2>1. ~pending /\ pending' = FALSE /\ UNCHANGED <<chanVars, paused, flowSeq, writeErr>>
      BY <1>1 DEF DataEnds, Continue, countVars
    <2> QED BY <2>1, Skipped
  <1>2. CASE DataPush(g)
    <2>1. ~pending /\ ~paused[g] /\ paused' = paused
      BY <1>2 DEF DataPush, genVars
    <2>2. ~Full
      BY <2>1, RoomToPush
    <2>3. /\ Push([kind |-> "data", gen |-> g, seq |-> flowSeq])
          /\ pending' = TRUE /\ UNCHANGED <<flowSeq, writeErr>>
      BY <1>2, <2>2 DEF DataPush
    <2> QED BY <2>1, <2>3, PushHolds
  <1>3. CASE DataWritten(g)
    <2>1. /\ pending /\ CheckHigh /\ NotifyHigh /\ pending' = FALSE
          /\ writeErr' = writeErr /\ flowSeq' = (flowSeq + 1) % FlowSeqMod
      BY <1>3 DEF DataWritten, NextOfBurst, CountData
    <2>2. flowSeq \in Nat
      BY GenAssumption DEF IInv, ChanTyped
    <2>3. flowSeq' \in 0..FlowSeqMod - 1
      BY <2>1, <2>2, GenAssumption
    <2> QED BY <2>1, <2>3, CheckHolds
  <1> QED BY <1>1, <1>2, <1>3

\* The poll of the channel resumes the generators when it announces.
LEMMA PollHolds == ASSUME IInv, PollChan PROVE IInv'
  <1>1. /\ Poll /\ paused' = [g \in Gens |-> paused[g] /\ ~Falls]
        /\ chTimer /\ UNCHANGED <<flowSeq, writeErr, pending>>
    BY DEF PollChan, countVars
  <1>2. Len(ch) \in Nat
    BY DEF IInv, ChanTyped
  <1>3. ChanTyped'
    BY <1>1 DEF IInv, ChanTyped, Poll, Falls
  <1>4. Below'
    <2>1. ch' = ch /\ pending' = pending /\ (highWatermark' <=> highWatermark /\ ~(Len(ch) < LowThr))
      BY <1>1 DEF Poll, Falls
    <2> QED BY <1>2, <2>1, ChanAssumption DEF IInv, Below
  <1>5. \A g \in Gens : paused'[g] <=> highWatermark'
    BY <1>1 DEF IInv, PauseFollowsChannel, Poll
  <1>6. ~closed => (chTimer' <=> highWatermark')
    BY <1>1 DEF IInv, PauseFollowsChannel, Poll, Falls
  <1>7. PauseFollowsChannel'
    BY <1>1, <1>5, <1>6 DEF PauseFollowsChannel, Poll
  <1>8. NoWriteRefused'
    BY <1>1 DEF IInv, NoWriteRefused
  <1> QED BY <1>3, <1>4, <1>7, <1>8 DEF IInv

\* The goroutine only shortens the channel.
LEMMA WriterHolds == ASSUME IInv, Writer PROVE IInv'
  <1>1. CASE WriterReads
    <2>1. /\ ch # <<>> /\ ch' = Tail(ch) /\ UNCHANGED <<closed, highWatermark, chTimer>>
          /\ UNCHANGED <<paused, flowSeq, writeErr, pending>>
      BY <1>1 DEF WriterReads, Pop, mainVars, genVars, countVars
    <2>2. ch \in Seq(Packet)
      BY DEF IInv, ChanTyped
    <2>3. ch' \in Seq(Packet) /\ Len(ch') = Len(ch) - 1 /\ Len(ch) \in Nat
      BY <2>1, <2>2
    <2>4. ChanTyped'
      BY <2>1, <2>3 DEF IInv, ChanTyped
    <2>5. Below'
      BY <2>1, <2>3, ChanAssumption DEF IInv, Below
    <2>6. NoWriteRefused' /\ PauseFollowsChannel'
      BY <2>1 DEF IInv, NoWriteRefused, PauseFollowsChannel
    <2> QED BY <2>4, <2>5, <2>6 DEF IInv
  <1>2. CASE WriterSends
    BY <1>2, Untouched DEF WriterSends, mainVars, genVars, countVars
  <1>3. CASE WriterExits
    BY <1>3, Untouched DEF WriterExits, mainVars, genVars, countVars
  <1> QED BY <1>1, <1>2, <1>3 DEF Writer

\* Closing the channel stops its timer.
LEMMA RemoveHolds == ASSUME IInv, OnRemove PROVE IInv'
  <1>1. /\ closed' = TRUE /\ chTimer' = FALSE
        /\ UNCHANGED <<ch, highWatermark, paused, flowSeq, writeErr, pending>>
    BY DEF OnRemove, Close, countVars
  <1>2. ChanTyped' /\ Below'
    BY <1>1 DEF IInv, ChanTyped, Below
  <1>3. NoWriteRefused' /\ PauseFollowsChannel'
    BY <1>1 DEF IInv, NoWriteRefused, PauseFollowsChannel
  <1> QED BY <1>2, <1>3 DEF IInv

\* Every step of the plugin and of the goroutine keeps the invariant.
LEMMA NextHolds == IInv /\ [UdpNext]_udpVars => IInv'
  <1> SUFFICES ASSUME IInv, [UdpNext]_udpVars PROVE IInv'
    OBVIOUS
  <1>1. CASE CheckMax
    BY <1>1, Untouched DEF CheckMax, countVars
  <1>2. CASE \E g \in Gens : Works(g)
    BY <1>2, TemplateHolds, DataHolds DEF Works
  <1>3. CASE PollChan
    BY <1>3, PollHolds
  <1>4. CASE Writer
    BY <1>4, WriterHolds
  <1>5. CASE \E t \in Timers : ExportTimer(t)
    BY <1>5, Untouched DEF ExportTimer, countVars
  <1>6. CASE \E g \in Gens : SetGenState(g)
    BY <1>6, Untouched DEF SetGenState, countVars
  <1>7. CASE Enable \/ Disable
    BY <1>7, Untouched DEF Enable, Disable, countVars
  <1>8. CASE OnRemove
    BY <1>8, RemoveHolds
  <1>9. CASE Removed
    BY <1>9, Untouched DEF Removed, genVars, countVars
  <1>10. CASE UNCHANGED udpVars
    BY <1>10, Untouched DEF udpVars, mainVars, genVars, countVars
  <1> QED BY <1>1, <1>2, <1>3, <1>4, <1>5, <1>6, <1>7, <1>8, <1>9, <1>10 DEF UdpNext, Work

\* The invariant holds in every state of every behaviour.
THEOREM PauseInvariant == UdpSpec => []IInv
  BY InitHolds, NextHolds, PTL DEF UdpSpec

\* Whatever the thresholds, the bursts and the number of generators, the
\* channel of the exporter is never full when a generator writes.
THEOREM NeverRefused == UdpSpec => []NoWriteRefused
  <1>1. IInv => NoWriteRefused
    BY DEF IInv
  <1> QED BY <1>1, PauseInvariant, PTL

\* Generators are paused, and the timer of the channel runs, exactly while the
\* high watermark is announced.
THEOREM PauseExact == UdpSpec => []PauseFollowsChannel
  <1>1. IInv => PauseFollowsChannel
    BY DEF IInv
  <1> QED BY <1>1, PauseInvariant, PTL
=============================================================================
