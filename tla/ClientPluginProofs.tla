-------------------------- MODULE ClientPluginProofs --------------------------
(***************************************************************************)
(* The small state machines of a client's plugins: the 802.1X supplicant,  *)
(* the DHCPv6 client, the flow table with its source ports, the mDNS names *)
(* and the PPPoE client with the concentrator it talks to.                 *)
(*                                                                         *)
(* 802.1X: smCnt counts the timeouts until it wraps, so the Start packets  *)
(* are bounded by it; an MSCHAPv2 exchange finished after a challenge      *)
(* carries its proof until the next identity request.  DHCPv6: outside     *)
(* INIT the packets of one                                                 *)
(* server only pass verifyPkt, and T1 <= T2 decides where a timer runs.    *)
(* Flows: the table and the sockets' tuples are inverse to each other, and *)
(* a port of the pool keeps a new key apart from every key of the table.   *)
(* mDNS: what the table of names says agrees with the clients' own names.  *)
(* PPP: a packet under way speaks for the end that sent it, and the timer  *)
(* runs unless the next move is the concentrator's.                        *)
(***************************************************************************)
EXTENDS Dhcpv6, Dot1x, Flows, Mdns, Ppp, TLAPS

-----------------------------------------------------------------------------
(* 802.1X *)

X1Rec ==
    [state : {"WAIT_FOR_IDENTITY", "WAIT_FOR_METHOD", "WAIT_FOR_RESULTS"} \cup X1Done,
     cnt : Nat, method : {"none", "md5", "mschap"}, timer : BOOLEAN,
     auth : Challenges \cup {NoChallenge}]

\* smCnt is the number of timeouts until it wraps, and the Start packets follow
\* it
X1Counts ==
    x1touts < CntMod =>
        /\ x1.cnt = x1touts
        /\ x1starts <= 1 + x1touts
        /\ x1starts <= (IF MaxStart = 0 THEN 1 ELSE MaxStart)

\* a finished MSCHAPv2 exchange with a challenge was finished by a proof
X1Proof ==
    x1.state \in {"WAIT_FOR_RESULTS", "DONE_OK"} /\ x1.method = "mschap" /\ x1.auth # NoChallenge =>
        x1proved

X1Inv ==
    /\ x1 \in X1Rec /\ x1touts \in Nat /\ x1starts \in Nat /\ x1proved \in BOOLEAN
    /\ X1Counts /\ X1Proof

\* The remainder of a number below the modulus is the number.
LEMMA SmallMod ==
    ASSUME NEW k \in Nat, NEW n \in Nat, k < n
    PROVE  k % n = k
OBVIOUS

\* A remainder is a natural number.
LEMMA ModNat ==
    ASSUME NEW k \in Nat, NEW n \in Nat \ {0}
    PROVE  k % n \in Nat
OBVIOUS

\* A new supplicant waits for the identity request after one Start.
LEMMA X1Created == X1OnCreate \in X1Rec /\ X1OnCreate.cnt = 0 /\ X1OnCreate.state = "WAIT_FOR_IDENTITY"
BY DEF X1OnCreate, StartSm, ChangeToInit, X1Rec

\* Each timeout counts, and starts again only below MaxStart.
LEMMA X1TimerStep ==
    ASSUME X1Inv, X1OnTimerEvent
    PROVE  X1Inv'
<1> DEFINE c == [x1 EXCEPT !.timer = FALSE]
           n == (x1.cnt + 1) % CntMod
           d == [c EXCEPT !.cnt = n]
<1>0. x1 \in X1Rec /\ x1.cnt \in Nat /\ x1touts \in Nat /\ x1starts \in Nat /\ x1proved \in BOOLEAN
  BY DEF X1Inv, X1Rec
<1>1. /\ c \in X1Rec /\ c.cnt = x1.cnt /\ c.state = x1.state /\ c.method = x1.method
      /\ c.auth = x1.auth
  BY <1>0 DEF X1Rec
<1>2. n \in Nat
  BY <1>0, ModNat, X1Assumption
<1>3. x1proved' \in BOOLEAN /\ (x1'.state # "WAIT_FOR_IDENTITY" => x1proved' = x1proved)
  BY <1>0 DEF X1OnTimerEvent
<1>4. CASE x1.state \in X1Done
  <2>1. x1' = c /\ x1starts' = x1starts /\ x1touts' = x1touts
    BY <1>1, <1>4 DEF X1OnTimerEvent
  <2> QED BY <1>0, <1>1, <1>3, <1>4, <2>1 DEF X1Inv, X1Counts, X1Proof, X1Done
<1>5. CASE x1.state \notin X1Done
  <2>0. /\ d \in X1Rec /\ d.cnt = n /\ d.state = x1.state /\ d.method = x1.method
        /\ d.auth = x1.auth
    BY <1>0, <1>1, <1>2 DEF X1Rec
  <2>1. /\ x1' = IF Restarts(d) THEN StartSm(d) ELSE d
        /\ x1starts' = IF Restarts(d) /\ x1touts < CntMod THEN x1starts + 1 ELSE x1starts
        /\ x1touts' = IF x1touts < CntMod THEN x1touts + 1 ELSE x1touts
    BY <1>1, <1>5 DEF X1OnTimerEvent
  <2>2. StartSm(d) \in X1Rec /\ StartSm(d).cnt = n /\ StartSm(d).state = "WAIT_FOR_IDENTITY"
    BY <2>0 DEF StartSm, ChangeToInit, X1Rec
  <2>3. Restarts(d) <=> n < MaxStart
    BY <2>0 DEF Restarts
  <2> HIDE DEF c, d, n
  <2>4. x1' \in X1Rec /\ x1'.cnt = n
    BY <2>0, <2>1, <2>2
  <2>5. x1touts' \in Nat /\ x1starts' \in Nat
    BY <1>0, <2>1, X1Assumption
  <2>6. X1Proof'
    BY <1>3, <2>0, <2>1, <2>2 DEF X1Inv, X1Proof
  <2>7. X1Counts'
    <3> SUFFICES ASSUME x1touts' < CntMod
                 PROVE  /\ x1'.cnt = x1touts' /\ x1starts' <= 1 + x1touts'
                        /\ x1starts' <= (IF MaxStart = 0 THEN 1 ELSE MaxStart)
      BY DEF X1Counts
    <3>1. x1touts < CntMod /\ x1touts' = x1touts + 1 /\ x1.cnt = x1touts
      BY <1>0, <2>1, X1Assumption DEF X1Inv, X1Counts
    <3>2. n = x1touts + 1
      BY <1>0, <3>1, SmallMod, X1Assumption DEF n
    <3> QED BY <1>0, <2>1, <2>3, <2>4, <3>1, <3>2, X1Assumption DEF X1Inv, X1Counts
  <2> QED BY <1>3, <2>4, <2>5, <2>6, <2>7 DEF X1Inv
<1> QED BY <1>4, <1>5

\* The packets of the authenticator: a SUCCESS finishes MSCHAPv2 only with the
\* response to a challenge that was answered, if there was one.
LEMMA X1PacketSteps ==
    ASSUME X1Inv,
           \/ RequestIdentity \/ RequestMd5 \/ HandleSuccess \/ HandleFailure
           \/ \E ch \in Challenges : RequestChallenge(ch)
           \/ \E ch \in Challenges \cup {NoChallenge} : RequestSuccess(ch)
    PROVE  X1Inv'
<1>0. x1 \in X1Rec /\ x1touts \in Nat /\ x1starts \in Nat /\ x1proved \in BOOLEAN
  BY DEF X1Inv
<1>1. CASE RequestIdentity
  BY <1>0, <1>1 DEF RequestIdentity, HandleIdentity, X1Inv, X1Rec, X1Counts, X1Proof
<1>2. CASE RequestMd5
  BY <1>0, <1>2 DEF RequestMd5, X1Inv, X1Rec, X1Counts, X1Proof
<1>3. CASE HandleSuccess
  <2>1. /\ x1' \in X1Rec /\ x1'.cnt = 0 /\ x1'.method = x1.method
        /\ x1'.state = IF x1.state = "WAIT_FOR_RESULTS" THEN "DONE_OK" ELSE x1.state
    BY <1>0, <1>3 DEF HandleSuccess, X1Rec, X1Done
  <2> QED BY <1>0, <1>3, <2>1, X1Assumption DEF HandleSuccess, X1Inv, X1Counts, X1Proof
<1>4. CASE HandleFailure
  BY <1>0, <1>4 DEF HandleFailure, X1Inv, X1Rec, X1Counts, X1Proof, X1Done
<1>5. ASSUME NEW ch \in Challenges, RequestChallenge(ch)
      PROVE  X1Inv'
  BY <1>0, <1>5 DEF RequestChallenge, X1Inv, X1Rec, X1Counts, X1Proof
<1>6. ASSUME NEW ch \in Challenges \cup {NoChallenge}, RequestSuccess(ch)
      PROVE  X1Inv'
  <2>1. ch = x1.auth
    BY <1>6 DEF RequestSuccess, MatchesAuth
  <2>2. x1proved' \in BOOLEAN /\ (x1.auth # NoChallenge => x1proved')
    BY <1>6, <2>1 DEF RequestSuccess
  <2>3. x1' \in X1Rec /\ x1'.cnt = x1.cnt /\ x1'.auth = x1.auth
    BY <1>0, <1>6 DEF RequestSuccess, X1Rec
  <2> QED BY <1>0, <1>6, <2>2, <2>3 DEF RequestSuccess, X1Inv, X1Counts, X1Proof
<1> QED BY <1>1, <1>2, <1>3, <1>4, <1>5, <1>6

\* MSCHAPv2 authentication is mutual once a challenge was answered and a silent
\* authenticator gets at most MaxStart packets, for any number of challenges,
\* any MaxStart and any width of smCnt.
THEOREM X1IsSound == X1Spec => []X1Sound
<1>0. 1 <= (IF MaxStart = 0 THEN 1 ELSE MaxStart)
  BY X1Assumption
<1>1. X1Init => X1Inv
  <2> SUFFICES ASSUME X1Init PROVE X1Inv
    OBVIOUS
  <2>1. /\ x1 \in X1Rec /\ x1.cnt = 0 /\ x1.state = "WAIT_FOR_IDENTITY"
        /\ x1proved = FALSE /\ x1starts = 1 /\ x1touts = 0
    BY X1Created DEF X1Init
  <2>2. X1Counts
    BY <1>0, <2>1 DEF X1Counts
  <2> QED BY <2>1, <2>2 DEF X1Inv, X1Proof
<1>2. X1Inv /\ [X1Next]_x1vars => X1Inv'
  <2> SUFFICES ASSUME X1Inv, [X1Next]_x1vars PROVE X1Inv'
    OBVIOUS
  <2>1. CASE X1OnRemove
    <3>1. /\ x1' \in X1Rec /\ x1'.cnt = 0 /\ x1'.state = "WAIT_FOR_IDENTITY"
          /\ x1proved' = FALSE /\ x1starts' = 1 /\ x1touts' = 0
      BY <2>1, X1Created DEF X1OnRemove
    <3>2. X1Counts'
      BY <1>0, <3>1 DEF X1Counts
    <3> QED BY <3>1, <3>2 DEF X1Inv, X1Proof
  <2>2. CASE UNCHANGED x1vars
    BY <2>2 DEF x1vars, X1Inv, X1Counts, X1Proof
  <2> QED BY <2>1, <2>2, X1TimerStep, X1PacketSteps DEF X1Next
<1>3. X1Inv => X1Sound
  BY DEF X1Inv, X1Counts, X1Proof, X1Sound, X1Mutual, X1StartsBounded
<1> QED BY <1>1, <1>2, <1>3, PTL DEF X1Spec

-----------------------------------------------------------------------------
(* DHCPv6 *)

D6Srvs == {m.srv : m \in D6Msgs}
D6Addrs == {m.addr : m \in D6Msgs}

D6Tx == [type : {"none", "solicit", "request", "renew", "rebind", "release"}, sid : Seq(D6Srvs)]

D6Rec ==
    [up : BOOLEAN, state : {"INIT", "REQUESTING", "BOUND", "RENEWING", "REBINDING"}, cnt : Nat,
     timer : BOOLEAN, sid : Seq(D6Srvs), sidOption : Seq(D6Srvs), sip : D6Srvs \cup {None6d},
     t1 : Nat, t2 : Nat, dip : D6Addrs \cup {None6d}, iana : D6Addrs \cup {None6d}, tx : D6Tx]

\* the client d talks to the server adv, and was bound by it, with the address
\* it gave
D6FromServer(d, adv, from) ==
    d.up => /\ d.state # "INIT" => d.sip = adv
            /\ d.state \in {"BOUND", "RENEWING", "REBINDING"} =>
                 from[1] = adv /\ (from[2] # None6d => d.dip = from[2])

\* T2 is not below T1, and a timer runs where onTimerEvent has something to do
D6Timed(d) ==
    /\ d.t1 <= d.t2
    /\ d.up /\ d.state \in {"INIT", "REQUESTING", "BOUND"} => d.timer
    /\ d.up /\ d.state = "RENEWING" /\ d.t1 < d.t2 => d.timer

D6Holds(d, adv, from) == d \in D6Rec /\ D6FromServer(d, adv, from) /\ D6Timed(d)
D6Inv == D6Holds(d6, d6adv, d6from)

\* d is c but for the transmission and the timer
D6Like(d, c) ==
    /\ d \in D6Rec /\ d.up = c.up /\ d.state = c.state
    /\ d.sip = c.sip /\ d.t1 = c.t1 /\ d.t2 = c.t2 /\ d.dip = c.dip

D6WithTx(c, y) == [c EXCEPT !.tx = y]

\* A record with another transmission.
LEMMA D6TxOnly ==
    ASSUME NEW c \in D6Rec, NEW y \in D6Tx
    PROVE  D6Like(D6WithTx(c, y), c) /\ D6WithTx(c, y).timer = c.timer
BY DEF D6Rec, D6Like, D6WithTx

\* Sending leaves all but the transmission.
LEMMA D6Sent ==
    ASSUME NEW c \in D6Rec, NEW type \in {"solicit", "request", "renew", "rebind", "release"}, NEW o
    PROVE  D6Like(SendDhcpPacket(c, type, o), c) /\ SendDhcpPacket(c, type, o).timer = c.timer
<1> DEFINE s == IF o THEN c.sidOption ELSE <<>>
           y == [type |-> type, sid |-> s]
<1>1. s \in Seq(D6Srvs)
  BY DEF D6Rec
<1> HIDE DEF s
<1>2. y \in D6Tx
  BY <1>1 DEF D6Tx
<1>3. SendDhcpPacket(c, type, o) = D6WithTx(c, y)
  BY DEF SendDhcpPacket, D6WithTx, s
<1> HIDE DEF y
<1> QED BY <1>2, <1>3, D6TxOnly

\* The restart of a timer leaves all but the timer.
LEMMA D6Restarted ==
    ASSUME NEW c \in D6Rec, NEW sec \in Int
    PROVE  /\ D6Like(D6RestartTimer(c, sec), c)
           /\ D6RestartTimer(c, sec).timer <=> (sec > 0 \/ c.timer)
<1>1. CASE sec > 0
  BY <1>1 DEF D6RestartTimer, D6Rec, D6Like
<1>2. CASE ~(sec > 0)
  BY <1>2 DEF D6RestartTimer, D6Like
<1> QED BY <1>1, <1>2

\* A Solicit leaves a client in INIT with its timer on.
LEMMA D6Discovers ==
    ASSUME NEW c \in D6Rec
    PROVE  /\ D6SendDiscover(c) \in D6Rec /\ D6SendDiscover(c).up = c.up
           /\ D6SendDiscover(c).state = "INIT" /\ D6SendDiscover(c).timer
           /\ D6SendDiscover(c).t1 = c.t1 /\ D6SendDiscover(c).t2 = c.t2
<1> DEFINE a == [c EXCEPT !.state = "INIT", !.cnt = 0]
           b == D6RestartTimer(a, 1)
           d == SendDhcpPacket(b, "solicit", FALSE)
<1>1. a \in D6Rec /\ a.up = c.up /\ a.state = "INIT" /\ a.t1 = c.t1 /\ a.t2 = c.t2
  BY DEF D6Rec
<1> HIDE DEF a
<1>2. D6Like(b, a) /\ b.timer
  BY <1>1, D6Restarted
<1> HIDE DEF b
<1>3. D6Like(d, b) /\ d.timer = b.timer
  BY <1>2, D6Sent DEF D6Like
<1>4. D6SendDiscover(c) = d
  BY DEF D6SendDiscover, a, b
<1> HIDE DEF d
<1> QED BY <1>1, <1>2, <1>3, <1>4 DEF D6Like

\* Request, Renew, Rebind and Release: a restarted timer and a transmission.
LEMMA D6SentAgain ==
    ASSUME NEW c \in D6Rec, NEW sec \in Int,
           NEW type \in {"solicit", "request", "renew", "rebind", "release"}
    PROVE  /\ D6Like(D6SendRenewRebind(c, type, sec), c)
           /\ D6SendRenewRebind(c, type, sec).timer <=> (sec > 0 \/ c.timer)
<1> DEFINE b == D6RestartTimer(c, sec)
           d == SendDhcpPacket(b, type, TRUE)
<1>1. D6Like(b, c) /\ (b.timer <=> (sec > 0 \/ c.timer))
  BY D6Restarted
<1> HIDE DEF b
<1>2. D6Like(d, b) /\ d.timer = b.timer
  <2>1. b \in D6Rec
    BY <1>1 DEF D6Like
  <2>2. \A o : D6Like(SendDhcpPacket(b, type, o), b) /\ SendDhcpPacket(b, type, o).timer = b.timer
    BY <2>1, D6Sent
  <2> QED BY <2>2, Zenon
<1> HIDE DEF d
<1>3. D6Like(d, c) /\ (d.timer <=> (sec > 0 \/ c.timer))
  BY <1>1, <1>2 DEF D6Like
<1> QED BY <1>3 DEF d, b, D6SendRenewRebind

\* A client that starts over keeps the invariant, whatever was before.
LEMMA D6StartsOver ==
    ASSUME NEW c \in D6Rec, c.t1 <= c.t2, NEW adv, NEW from
    PROVE  LET d == D6SendDiscover(c)
           IN  d \in D6Rec /\ D6FromServer(d, adv, from) /\ D6Timed(d)
<1> DEFINE d == D6SendDiscover(c)
<1>1. d \in D6Rec /\ d.state = "INIT" /\ d.timer /\ d.t1 = c.t1 /\ d.t2 = c.t2
  BY D6Discovers
<1> HIDE DEF d
<1>2. D6FromServer(d, adv, from) /\ D6Timed(d)
  BY <1>1 DEF D6FromServer, D6Timed
<1> QED BY <1>1, <1>2 DEF d

\* The first packet of a new client.
LEMMA D6Created ==
    /\ D6OnCreate \in D6Rec /\ D6Timed(D6OnCreate)
    /\ \A adv, from : D6FromServer(D6OnCreate, adv, from)
<1> DEFINE c == [up |-> TRUE, state |-> "INIT", cnt |-> 0, timer |-> FALSE, sid |-> <<>>,
                 sidOption |-> <<>>, sip |-> None6d, t1 |-> 0, t2 |-> 0, dip |-> None6d,
                 iana |-> None6d, tx |-> NoTx]
<1>1. NoTx \in D6Tx
  BY DEF NoTx, D6Tx
<1>2. c \in D6Rec /\ c.t1 <= c.t2
  BY <1>1 DEF D6Rec
<1>3. D6OnCreate = D6SendDiscover(c)
  BY DEF D6OnCreate
<1> HIDE DEF c
<1> QED BY <1>2, <1>3, D6StartsOver

\* T1 and T2 of a Reply are positive and in order.
LEMMA D6LeaseTimes ==
    ASSUME NEW m \in D6Msgs
    PROVE  /\ LeaseTimes(m)[1] \in Nat /\ LeaseTimes(m)[2] \in Nat
           /\ LeaseTimes(m)[1] > 0 /\ LeaseTimes(m)[1] <= LeaseTimes(m)[2]
<1> DEFINE a == NormTime(m.t1, DefT1)
           b == NormTime(m.t2, DefT2)
<1>1. a \in Nat /\ b \in Nat /\ a > 0
  BY D6Assumption DEF NormTime
<1> HIDE DEF a, b
<1>2. LeaseTimes(m) = <<a, IF b < a THEN a + T2Slack ELSE b>>
  BY DEF LeaseTimes, a, b
<1> QED BY <1>1, <1>2, D6Assumption

\* An Advertise is taken: the client asks its server.
LEMMA D6Advertised ==
    ASSUME NEW e, D6Holds(e, d6adv, d6from), NEW m \in D6Msgs, d6' = TakeAdvertise(e, m),
           d6adv' = m.srv
    PROVE  D6Inv'
<1> DEFINE sid == Append(e.sid, m.srv)
           c == [e EXCEPT !.sid = sid, !.sidOption = sid, !.sip = m.srv, !.state = "REQUESTING"]
<1>1. e \in D6Rec /\ e.sid \in Seq(D6Srvs) /\ m.srv \in D6Srvs /\ e.t1 <= e.t2
  BY DEF D6Holds, D6Rec, D6Srvs, D6Timed
<1>2. sid \in Seq(D6Srvs)
  BY <1>1
<1> HIDE DEF sid
<1>3. /\ c \in D6Rec /\ c.sip = m.srv /\ c.state = "REQUESTING" /\ c.up = e.up
      /\ c.t1 = e.t1 /\ c.t2 = e.t2
  BY <1>1, <1>2 DEF D6Rec
<1>4. d6' = D6SendRenewRebind(c, "request", 1)
  BY DEF TakeAdvertise, D6SendReq, D6SendRenewRebind, sid
<1> HIDE DEF c
<1>5. D6Like(d6', c) /\ d6'.timer
  BY <1>3, <1>4, D6SentAgain
<1> QED BY <1>1, <1>3, <1>5 DEF D6Inv, D6Holds, D6Like, D6FromServer, D6Timed

\* A packet of the client's server binds it, or makes it start over.
LEMMA D6Answered ==
    ASSUME NEW e, D6Holds(e, d6adv, d6from), NEW m \in D6Msgs, Answers(e, m), e.up,
           m.iana = "addr" => e.iana = m.addr,
           d6' = D6HandleAckNak(e, m), d6adv' = d6adv,
           d6from' = IF d6'.state = "BOUND" THEN <<m.srv, IanaAddr(m)>> ELSE d6from
    PROVE  D6Inv'
<1>0. /\ e \in D6Rec /\ e.t1 <= e.t2 /\ e.sip = d6adv /\ m.srv = e.sip /\ e.state # "BOUND"
      /\ IanaAddr(m) # None6d => e.iana = IanaAddr(m)
  BY DEF D6Holds, D6Timed, D6FromServer, Answers, VerifyPkt, IanaAddr
<1>1. CASE ~m.ok
  <2>1. d6' = D6SendDiscover(e)
    BY <1>1 DEF D6HandleAckNak
  <2> QED BY <1>0, <2>1, D6StartsOver DEF D6Inv, D6Holds
<1>2. CASE m.ok /\ m.type # "reply"
  <2>1. d6' = e /\ d6from' = d6from
    BY <1>0, <1>2 DEF D6HandleAckNak
  <2> QED BY <2>1 DEF D6Inv, D6Holds
<1>3. CASE m.ok /\ m.type = "reply"
  <2> DEFINE t1 == LeaseTimes(m)[1]
             t2 == LeaseTimes(m)[2]
             c == [e EXCEPT !.state = "BOUND", !.dip = e.iana, !.t1 = t1, !.t2 = t2, !.cnt = 0]
  <2>1. t1 \in Nat /\ t2 \in Nat /\ t1 > 0 /\ t1 <= t2 /\ e.iana \in D6Addrs \cup {None6d}
    BY <1>0, D6LeaseTimes DEF D6Rec
  <2>2. d6' = D6RestartTimer(c, t1)
    BY <1>3 DEF D6HandleAckNak
  <2> HIDE DEF t1, t2
  <2>3. /\ c \in D6Rec /\ c.state = "BOUND" /\ c.dip = e.iana /\ c.t1 = t1 /\ c.t2 = t2
        /\ c.sip = e.sip /\ c.up = e.up
    BY <1>0, <2>1 DEF D6Rec
  <2> HIDE DEF c
  <2>4. D6Like(d6', c) /\ d6'.timer
    BY <2>1, <2>2, <2>3, D6Restarted
  <2>5. d6from' = <<m.srv, IanaAddr(m)>>
    BY <2>3, <2>4 DEF D6Like
  <2> QED BY <1>0, <2>1, <2>3, <2>4, <2>5 DEF D6Inv, D6Holds, D6Like, D6FromServer, D6Timed
<1> QED BY <1>1, <1>2, <1>3

\* What is decoded from a packet changes the address kept from the last one
\* only.
LEMMA D6DecodedOnly ==
    ASSUME NEW m \in D6Msgs, D6Inv
    PROVE  LET e == Decoded(d6, m)
           IN  /\ D6Holds(e, d6adv, d6from) /\ e.up = d6.up
               /\ m.iana = "addr" => e.iana = m.addr
<1> DEFINE e == Decoded(d6, m)
<1>1. m.addr \in D6Addrs /\ d6 \in D6Rec
  BY DEF D6Addrs, D6Inv, D6Holds
<1>2. /\ e \in D6Rec /\ e.up = d6.up /\ e.state = d6.state /\ e.sip = d6.sip /\ e.dip = d6.dip
      /\ e.t1 = d6.t1 /\ e.t2 = d6.t2 /\ e.timer = d6.timer /\ (m.iana = "addr" => e.iana = m.addr)
  BY <1>1 DEF Decoded, D6Rec
<1> HIDE DEF e
<1>3. D6Holds(e, d6adv, d6from)
  BY <1>2 DEF D6Inv, D6Holds, D6FromServer, D6Timed
<1> QED BY <1>2, <1>3 DEF e

\* A timeout: the state moves on, and where it does a timer is started unless
\* there is nothing left between T1 and T2.
LEMMA D6TimedOut ==
    ASSUME D6Inv, D6OnTimerEvent
    PROVE  D6Inv'
<1> DEFINE n == d6.cnt + 1
           c == [d6 EXCEPT !.cnt = n, !.timer = FALSE]
<1>0. d6 \in D6Rec /\ d6.t1 <= d6.t2 /\ d6.up /\ d6adv' = d6adv /\ d6from' = d6from
  BY DEF D6Inv, D6Holds, D6Timed, D6OnTimerEvent
<1>2. d6' = IF c.cnt > ReqMaxRc THEN D6SendDiscover(c) ELSE D6TimerStep(c)
  BY DEF D6OnTimerEvent
<1>5. n \in Nat
  BY <1>0 DEF D6Rec
<1> HIDE DEF n
<1>1. /\ c \in D6Rec /\ c.state = d6.state /\ c.up = d6.up /\ c.sip = d6.sip /\ c.dip = d6.dip
      /\ c.t1 = d6.t1 /\ c.t2 = d6.t2 /\ ~c.timer
  BY <1>0, <1>5 DEF D6Rec
<1> HIDE DEF c
<1>3. CASE d6' = D6SendDiscover(c)
  BY <1>0, <1>1, <1>3, D6StartsOver DEF D6Inv, D6Holds
<1>4. CASE d6' = D6TimerStep(c)
  <2>1. CASE c.state = "INIT"
    <3>1. D6TimerStep(c) = D6SendDiscover(c)
      BY <2>1 DEF D6TimerStep
    <3> QED BY <1>3, <1>4, <3>1
  <2>2. CASE c.state = "REQUESTING"
    <3>1. D6TimerStep(c) = D6SendRenewRebind(c, "request", 1)
      BY <2>2 DEF D6TimerStep, D6SendReq, D6SendRenewRebind
    <3>2. D6Like(d6', c) /\ d6'.timer
      BY <1>1, <1>4, <3>1, D6SentAgain
    <3> QED BY <1>0, <1>1, <2>2, <3>2 DEF D6Inv, D6Holds, D6Like, D6FromServer, D6Timed
  <2>3. CASE c.state = "BOUND"
    <3> DEFINE b == [c EXCEPT !.state = "RENEWING"]
               sec == c.t2 - c.t1
    <3>1. D6TimerStep(c) = D6SendRenewRebind(b, "renew", sec)
      BY <2>3 DEF D6TimerStep
    <3>2. /\ b \in D6Rec /\ b.state = "RENEWING" /\ b.up = c.up /\ b.sip = c.sip /\ b.dip = c.dip
          /\ b.t1 = c.t1 /\ b.t2 = c.t2
      BY <1>1 DEF D6Rec
    <3>3. sec \in Int /\ (c.t1 < c.t2 => sec > 0)
      BY <1>1 DEF D6Rec
    <3> HIDE DEF b, sec
    <3>4. D6Like(d6', b) /\ (d6'.timer <=> (sec > 0 \/ b.timer))
      BY <1>4, <3>1, <3>2, <3>3, D6SentAgain
    <3> QED BY <1>0, <1>1, <2>3, <3>2, <3>3, <3>4 DEF D6Inv, D6Holds, D6Like, D6FromServer, D6Timed
  <2>4. CASE c.state = "RENEWING"
    <3> DEFINE b == [c EXCEPT !.state = "REBINDING"]
    <3>1. D6TimerStep(c) = D6SendRenewRebind(b, "rebind", 1)
      BY <2>4 DEF D6TimerStep
    <3>2. /\ b \in D6Rec /\ b.state = "REBINDING" /\ b.up = c.up /\ b.sip = c.sip /\ b.dip = c.dip
          /\ b.t1 = c.t1 /\ b.t2 = c.t2
      BY <1>1 DEF D6Rec
    <3> HIDE DEF b
    <3>4. D6Like(d6', b)
      BY <1>4, <3>1, <3>2, D6SentAgain
    <3> QED BY <1>0, <1>1, <2>4, <3>2, <3>4 DEF D6Inv, D6Holds, D6Like, D6FromServer, D6Timed
  <2>5. CASE c.state = "REBINDING"
    <3>1. D6TimerStep(c) = c
      BY <2>5 DEF D6TimerStep
    <3> QED BY <1>0, <1>1, <1>4, <2>5, <3>1 DEF D6Inv, D6Holds, D6FromServer, D6Timed
  <2> QED BY <1>1, <2>1, <2>2, <2>3, <2>4, <2>5 DEF D6Rec
<1> QED BY <1>2, <1>3, <1>4

\* A client of any lease times has its lease from a Reply of the server it took
\* the last Advertise of, with the address in that Reply if there is one, and a
\* timer wherever onTimerEvent would act.
THEOREM D6IsSound == D6Spec => []D6Sound
<1>1. D6Init => D6Inv
  BY D6Created DEF D6Init, D6Inv, D6Holds
<1>2. D6Inv /\ [D6Next]_d6vars => D6Inv'
  <2> SUFFICES ASSUME D6Inv, [D6Next]_d6vars PROVE D6Inv'
    OBVIOUS
  <2>1. CASE D6OnRemove
    <3>1. d6' = [D6SendRenewRebind(d6, "release", 0) EXCEPT !.up = FALSE, !.timer = FALSE]
      BY <2>1 DEF D6OnRemove
    <3> DEFINE c == D6SendRenewRebind(d6, "release", 0)
    <3>2. D6Like(c, d6)
      BY D6SentAgain DEF D6Inv, D6Holds
    <3> HIDE DEF c
    <3>3. d6' \in D6Rec /\ ~d6'.up /\ d6'.t1 = d6.t1 /\ d6'.t2 = d6.t2
      BY <3>1, <3>2 DEF D6Like, D6Rec, c
    <3> QED BY <3>3 DEF D6Inv, D6Holds, D6FromServer, D6Timed
  <2>2. CASE D6NewClient
    BY <2>2, D6Created DEF D6NewClient, D6Inv, D6Holds
  <2>3. ASSUME NEW m \in D6Msgs, D6HandleRxDhcpPacket(m)
        PROVE  D6Inv'
    <3> DEFINE e == Decoded(d6, m)
    <3>0. /\ D6Holds(e, d6adv, d6from) /\ e.up /\ (m.iana = "addr" => e.iana = m.addr)
      BY <2>3, D6DecodedOnly DEF D6HandleRxDhcpPacket
    <3>1. \/ d6' = TakeAdvertise(e, m) /\ d6adv' = m.srv
          \/ /\ Answers(e, m) /\ d6' = D6HandleAckNak(e, m) /\ d6adv' = d6adv
             /\ d6from' = IF d6'.state = "BOUND" THEN <<m.srv, IanaAddr(m)>> ELSE d6from
          \/ d6' = e /\ d6adv' = d6adv /\ d6from' = d6from
      BY <2>3 DEF D6HandleRxDhcpPacket
    <3> HIDE DEF e
    <3>2. CASE d6' = TakeAdvertise(e, m) /\ d6adv' = m.srv
      BY <3>0, <3>2, D6Advertised
    <3>3. CASE /\ Answers(e, m) /\ d6' = D6HandleAckNak(e, m) /\ d6adv' = d6adv
               /\ d6from' = IF d6'.state = "BOUND" THEN <<m.srv, IanaAddr(m)>> ELSE d6from
      BY <3>0, <3>3, D6Answered
    <3>4. CASE d6' = e /\ d6adv' = d6adv /\ d6from' = d6from
      BY <3>0, <3>4 DEF D6Inv, D6Holds
    <3> QED BY <3>1, <3>2, <3>3, <3>4
  <2>4. CASE UNCHANGED d6vars
    BY <2>4 DEF d6vars, D6Inv, D6Holds
  <2> QED BY <2>1, <2>2, <2>3, <2>4, D6TimedOut DEF D6Next
<1>3. D6Inv => D6Sound
  BY DEF D6Inv, D6Holds, D6Rec, D6FromServer, D6Timed, D6Sound, D6OneServer, D6Armed
<1> QED BY <1>1, <1>2, <1>3, PTL DEF D6Spec

-----------------------------------------------------------------------------
(* The flow table and the source ports *)

FlowKeys ==
    [remote : Dialled \cup FixedEnds \cup Callers, local : Addrs \cup {"none"},
     lport : 0..(PortSpace - 1) \cup FixedPorts \cup ServerPorts, proto : Protos]

OpenSock == [state : {"open"}, tuple : FlowKeys, alloc : BOOLEAN]

FlowTypes ==
    /\ so \in [SockIds -> OpenSock \cup {NoSock}]
    /\ ft \in [DOMAIN ft -> SockIds] /\ DOMAIN ft \subseteq FlowKeys
    /\ pool = [m |-> pool.m, srcPort |-> pool.srcPort]
    /\ addr \in Addrs \cup {"none"}

\* the table and the tuples of the open sockets are inverse to each other
FlowTable ==
    /\ \A k \in DOMAIN ft : so[ft[k]].state = "open" /\ so[ft[k]].tuple = k
    /\ \A s \in SockIds : so[s].state = "open" => so[s].tuple \in DOMAIN ft /\ ft[so[s].tuple] = s

\* only a dialled conversation has a port of the pool, and no two have the same
FlowPorts ==
    /\ \A s \in SockIds : so[s].state = "open" =>
          IF so[s].alloc THEN so[s].tuple.remote \in Dialled /\ so[s].tuple.lport \in pool.m
          ELSE so[s].tuple.remote \in FixedEnds \cup Callers
    /\ \A s, t \in SockIds :
          so[s].state = "open" /\ so[t].state = "open" /\ so[s].alloc /\ so[t].alloc /\ s # t =>
              so[s].tuple.lport # so[t].tuple.lport

FlowInv == FlowTypes /\ FlowTable /\ FlowPorts /\ ftpanic = FALSE

\* An opened socket is one of FlowTypes.
LEMMA OpenedSock ==
    ASSUME NEW k \in FlowKeys, NEW a \in BOOLEAN
    PROVE  /\ Opened(k, a) \in OpenSock /\ Opened(k, a).state = "open"
           /\ Opened(k, a).tuple = k /\ (Opened(k, a).alloc <=> a)
BY DEF Opened, OpenSock

\* A free socket s is opened on a key the table does not have.
LEMMA FlowOpened ==
    ASSUME FlowInv, NEW s \in SockIds, so[s].state = "none", NEW k \in FlowKeys, k \notin DOMAIN ft,
           NEW a \in BOOLEAN, ft' = AddFlow(k, s), so' = [so EXCEPT ![s] = Opened(k, a)]
    PROVE  /\ so' \in [SockIds -> OpenSock \cup {NoSock}]
           /\ ft' \in [DOMAIN ft' -> SockIds] /\ DOMAIN ft' \subseteq FlowKeys
           /\ FlowTable'
           /\ so'[s] = Opened(k, a) /\ \A t \in SockIds \ {s} : so'[t] = so[t]
<1> DEFINE o == Opened(k, a)
<1>1. o \in OpenSock /\ o.state = "open" /\ o.tuple = k
  BY OpenedSock
<1>2. so \in [SockIds -> OpenSock \cup {NoSock}] /\ ft \in [DOMAIN ft -> SockIds] /\ DOMAIN ft \subseteq FlowKeys
  BY DEF FlowInv, FlowTypes
<1> HIDE DEF o
<1>3. so' = [so EXCEPT ![s] = o]
  BY DEF o
<1>4. /\ so' \in [SockIds -> OpenSock \cup {NoSock}] /\ so'[s] = o
      /\ \A t \in SockIds \ {s} : so'[t] = so[t]
  BY <1>1, <1>2, <1>3
<1>5. /\ DOMAIN ft' = DOMAIN ft \cup {k} /\ ft'[k] = s
      /\ \A x \in DOMAIN ft : ft'[x] = ft[x]
      /\ ft' \in [DOMAIN ft' -> SockIds]
  BY <1>2 DEF AddFlow
<1>6. \A x \in DOMAIN ft : ft[x] # s /\ ft[x] \in SockIds
  BY <1>2 DEF FlowInv, FlowTable
<1>7. FlowTable'
  <2>1. ASSUME NEW x \in DOMAIN ft' PROVE so'[ft'[x]].state = "open" /\ so'[ft'[x]].tuple = x
    <3>1. CASE x = k
      BY <1>1, <1>4, <1>5, <3>1
    <3>2. CASE x \in DOMAIN ft
      BY <1>4, <1>5, <1>6, <3>2 DEF FlowInv, FlowTable
    <3> QED BY <1>5, <3>1, <3>2
  <2>2. ASSUME NEW t \in SockIds, so'[t].state = "open"
        PROVE  so'[t].tuple \in DOMAIN ft' /\ ft'[so'[t].tuple] = t
    <3>1. CASE t = s
      BY <1>1, <1>4, <1>5, <3>1
    <3>2. CASE t # s
      BY <1>4, <1>5, <2>2, <3>2 DEF FlowInv, FlowTable
    <3> QED BY <3>1, <3>2
  <2> QED BY <2>1, <2>2 DEF FlowTable
<1> QED BY <1>2, <1>4, <1>5, <1>7 DEF o

\* A key with a port that is free in the pool, to an end the client dials, is
\* nobody's.
LEMMA DialledKeyFree ==
    ASSUME FlowInv, NEW k \in FlowKeys, k.remote \in Dialled, k.lport \notin pool.m
    PROVE  k \notin DOMAIN ft
<1> SUFFICES ASSUME k \in DOMAIN ft PROVE FALSE
  OBVIOUS
<1> DEFINE t == ft[k]
<1>1. t \in SockIds /\ so[t].state = "open" /\ so[t].tuple = k
  BY DEF FlowInv, FlowTypes, FlowTable
<1> QED BY <1>1, EndsAssumption DEF FlowInv, FlowPorts

\* Dial takes a port no open socket has.
LEMMA DialStep ==
    ASSUME FlowInv, NEW s \in SockIds, NEW p \in Protos, NEW r \in Dialled, NEW port \in 0..(PortSpace - 1),
           DialPort(s, r, p, port)
    PROVE  FlowInv'
<1> DEFINE k == Key(r, addr, port, p)
<1>1. /\ port \notin pool.m /\ pool'.m = pool.m \cup {port} /\ addr' = addr /\ ftpanic' = ftpanic
      /\ pool' = [m |-> pool'.m, srcPort |-> pool'.srcPort]
  BY DEF DialPort, FirstFree, Take
<1>2. CASE port = 0 \/ addr = "none"
  <2>1. ft' = ft /\ so' = so
    BY <1>2 DEF DialPort
  <2>2. FlowTypes' /\ FlowTable'
    BY <1>1, <2>1 DEF FlowInv, FlowTypes, FlowTable
  <2>3. FlowPorts'
    BY <1>1, <2>1 DEF FlowInv, FlowPorts
  <2> QED BY <1>1, <2>2, <2>3 DEF FlowInv
<1>3. CASE ~(port = 0 \/ addr = "none")
  <2>1. ft' = AddFlow(k, s) /\ so' = [so EXCEPT ![s] = Opened(k, TRUE)] /\ so[s].state = "none"
    BY <1>3 DEF DialPort
  <2>2. k \in FlowKeys /\ k.remote = r /\ k.lport = port
    BY DEF FlowInv, FlowTypes, Key, FlowKeys
  <2> HIDE DEF k
  <2>3. k \notin DOMAIN ft
    BY <1>1, <2>2, DialledKeyFree
  <2>4. /\ so' \in [SockIds -> OpenSock \cup {NoSock}]
        /\ ft' \in [DOMAIN ft' -> SockIds] /\ DOMAIN ft' \subseteq FlowKeys
        /\ FlowTable'
        /\ so'[s] = Opened(k, TRUE) /\ \A t \in SockIds \ {s} : so'[t] = so[t]
    BY <2>1, <2>2, <2>3, FlowOpened
  <2>5. FlowTypes'
    BY <1>1, <2>4 DEF FlowInv, FlowTypes
  <2>6. so'[s].state = "open" /\ so'[s].tuple = k /\ so'[s].alloc
    BY <2>4 DEF Opened
  <2>7. \A t \in SockIds \ {s} : so[t].state = "open" /\ so[t].alloc => so[t].tuple.lport # port
    BY <1>1 DEF FlowInv, FlowPorts
  <2>8. FlowPorts'
    <3>1. ASSUME NEW t \in SockIds, so'[t].state = "open"
          PROVE  IF so'[t].alloc THEN so'[t].tuple.remote \in Dialled /\ so'[t].tuple.lport \in pool'.m
                 ELSE so'[t].tuple.remote \in FixedEnds \cup Callers
      <4>1. CASE t = s
        BY <1>1, <2>2, <2>6, <4>1
      <4>2. CASE t # s
        BY <1>1, <2>4, <3>1, <4>2 DEF FlowInv, FlowPorts
      <4> QED BY <4>1, <4>2
    <3>2. ASSUME NEW t \in SockIds, NEW u \in SockIds, t # u,
                 so'[t].state = "open", so'[u].state = "open", so'[t].alloc, so'[u].alloc
          PROVE  so'[t].tuple.lport # so'[u].tuple.lport
      <4>1. CASE t = s
        <5>1. u # s /\ so'[u] = so[u] /\ so'[t].tuple.lport = port
          BY <2>2, <2>4, <2>6, <3>2, <4>1
        <5> QED BY <2>7, <3>2, <5>1
      <4>2. CASE u = s
        <5>1. t # s /\ so'[t] = so[t] /\ so'[u].tuple.lport = port
          BY <2>2, <2>4, <2>6, <3>2, <4>2
        <5> QED BY <2>7, <3>2, <5>1
      <4>3. CASE t # s /\ u # s
        BY <2>4, <3>2, <4>3 DEF FlowInv, FlowPorts
      <4> QED BY <4>1, <4>2, <4>3
    <3> QED BY <3>1, <3>2 DEF FlowPorts
  <2> QED BY <1>1, <2>4, <2>5, <2>8 DEF FlowInv
<1> QED BY <1>2, <1>3

\* A flow with a port of the caller's or of the server's choice.
LEMMA UnpooledStep ==
    ASSUME FlowInv, NEW s \in SockIds, so[s].state = "none", NEW k \in FlowKeys, k \notin DOMAIN ft,
           k.remote \in FixedEnds \cup Callers,
           ft' = AddFlow(k, s), so' = [so EXCEPT ![s] = Opened(k, FALSE)],
           pool' = pool, addr' = addr, ftpanic' = ftpanic
    PROVE  FlowInv'
<1>1. /\ so' \in [SockIds -> OpenSock \cup {NoSock}]
      /\ ft' \in [DOMAIN ft' -> SockIds] /\ DOMAIN ft' \subseteq FlowKeys
      /\ FlowTable'
      /\ so'[s] = Opened(k, FALSE) /\ \A t \in SockIds \ {s} : so'[t] = so[t]
  BY FlowOpened
<1>2. so'[s].state = "open" /\ so'[s].tuple = k /\ ~so'[s].alloc
  BY <1>1, OpenedSock
<1>3. FlowPorts'
  <2>0. pool' = pool /\ \A t \in SockIds \ {s} : so'[t] = so[t]
    BY <1>1
  <2>1. ASSUME NEW t \in SockIds, so'[t].state = "open"
        PROVE  IF so'[t].alloc THEN so'[t].tuple.remote \in Dialled /\ so'[t].tuple.lport \in pool'.m
               ELSE so'[t].tuple.remote \in FixedEnds \cup Callers
    <3>1. CASE t = s
      BY <1>2, <3>1
    <3>2. CASE t # s
      BY <2>0, <2>1, <3>2 DEF FlowInv, FlowPorts
    <3> QED BY <3>1, <3>2
  <2>2. ASSUME NEW t \in SockIds, NEW u \in SockIds, t # u,
               so'[t].state = "open", so'[u].state = "open", so'[t].alloc, so'[u].alloc
        PROVE  so'[t].tuple.lport # so'[u].tuple.lport
    <3>1. t # s /\ u # s
      BY <1>2, <2>2
    <3> QED BY <2>0, <2>2, <3>1 DEF FlowInv, FlowPorts
  <2> QED BY <2>1, <2>2 DEF FlowPorts
<1> QED BY <1>1, <1>3 DEF FlowInv, FlowTypes

\* A close takes the socket's own entry out of the table, and no panic comes.
LEMMA CloseStep ==
    ASSUME FlowInv, NEW s \in SockIds, CloseSocket(s)
    PROVE  FlowInv'
<1> DEFINE k == so[s].tuple
<1>1. so[s].state = "open" /\ so[s] \in OpenSock /\ k \in DOMAIN ft /\ ft[k] = s
  BY DEF FlowInv, FlowTypes, FlowTable, CloseSocket, NoSock
<1>2. ftpanic' = FALSE /\ addr' = addr
  BY <1>1 DEF CloseSocket, Corrupted, RemovalKey
<1>3. ft' = RemoveFlow(k)
  BY DEF CloseSocket, RemovalKey
<1> HIDE DEF k
<1>4. /\ DOMAIN ft' = DOMAIN ft \ {k} /\ (\A x \in DOMAIN ft \ {k} : ft'[x] = ft[x])
      /\ ft' \in [DOMAIN ft' -> SockIds]
  BY <1>3 DEF RemoveFlow, Restrict, FlowInv, FlowTypes
<1>5. \A x \in DOMAIN ft' : ft'[x] # s
  BY <1>1, <1>4 DEF FlowInv, FlowTable, k
<1>6. s \notin Range(ft')
  BY <1>5 DEF Range
<1>7. so' = [so EXCEPT ![s] = NoSock]
  BY <1>6 DEF CloseSocket
<1>8. /\ so' \in [SockIds -> OpenSock \cup {NoSock}] /\ so'[s].state = "none"
      /\ \A t \in SockIds \ {s} : so'[t] = so[t]
  BY <1>7 DEF FlowInv, FlowTypes, NoSock
<1>9. /\ pool' = [m |-> pool'.m, srcPort |-> pool'.srcPort]
      /\ pool'.m = IF so[s].alloc THEN pool.m \ {k.lport} ELSE pool.m
  <2>1. pool = [m |-> pool.m, srcPort |-> pool.srcPort]
    BY DEF FlowInv, FlowTypes
  <2>2. CASE so[s].alloc
    <3>1. pool' = [pool EXCEPT !.m = pool.m \ {k.lport}]
      BY <2>2 DEF CloseSocket, RemovalKey, FreePort, k
    <3>2. pool' = [m |-> pool.m \ {k.lport}, srcPort |-> pool.srcPort]
      BY <2>1, <3>1
    <3> QED BY <2>2, <3>2
  <2>3. CASE ~so[s].alloc
    BY <2>1, <2>3 DEF CloseSocket
  <2> QED BY <2>2, <2>3
<1>10. FlowTypes'
  BY <1>2, <1>4, <1>8, <1>9 DEF FlowInv, FlowTypes
<1>11. FlowTable'
  <2>1. ASSUME NEW x \in DOMAIN ft' PROVE so'[ft'[x]].state = "open" /\ so'[ft'[x]].tuple = x
    BY <1>4, <1>5, <1>8 DEF FlowInv, FlowTypes, FlowTable
  <2>2. ASSUME NEW t \in SockIds, so'[t].state = "open"
        PROVE  so'[t].tuple \in DOMAIN ft' /\ ft'[so'[t].tuple] = t
    <3>1. t # s /\ so'[t] = so[t]
      BY <1>8, <2>2
    <3>2. so[t].tuple \in DOMAIN ft /\ ft[so[t].tuple] = t
      BY <2>2, <3>1 DEF FlowInv, FlowTable
    <3> QED BY <1>1, <1>4, <3>1, <3>2
  <2> QED BY <2>1, <2>2 DEF FlowTable
<1>12. FlowPorts'
  <2>1. \A t \in SockIds : so'[t].state = "open" => t # s /\ so'[t] = so[t]
    BY <1>8
  <2>2. ASSUME NEW t \in SockIds, so'[t].state = "open"
        PROVE  IF so'[t].alloc THEN so'[t].tuple.remote \in Dialled /\ so'[t].tuple.lport \in pool'.m
               ELSE so'[t].tuple.remote \in FixedEnds \cup Callers
    BY <1>1, <1>9, <2>1, <2>2 DEF FlowInv, FlowPorts, k
  <2>3. ASSUME NEW t \in SockIds, NEW u \in SockIds, t # u,
               so'[t].state = "open", so'[u].state = "open", so'[t].alloc, so'[u].alloc
        PROVE  so'[t].tuple.lport # so'[u].tuple.lport
    BY <2>1, <2>3 DEF FlowInv, FlowPorts
  <2> QED BY <2>2, <2>3 DEF FlowPorts
<1> QED BY <1>2, <1>10, <1>11, <1>12 DEF FlowInv

\* Every step of the table keeps the invariant, when packets come only for the
\* client's own address.
LEMMA FlowSteps ==
    ASSUME ~Strays, FlowInv, FlowNext
    PROVE  FlowInv'
<1>1. CASE NewAddr
  BY <1>1 DEF NewAddr, FlowInv, FlowTypes, FlowTable, FlowPorts
<1>2. CASE DialRefused
  <2>1. pool = [m |-> pool.m, srcPort |-> pool.srcPort]
    BY DEF FlowInv, FlowTypes
  <2>2. pool'.m = pool.m /\ pool' = [m |-> pool'.m, srcPort |-> pool'.srcPort]
    BY <1>2, <2>1 DEF DialRefused, MovedOn
  <2> QED BY <1>2, <2>2 DEF DialRefused, FlowInv, FlowTypes, FlowTable, FlowPorts
<1>3. ASSUME NEW s \in SockIds, NEW p \in Protos, NEW r \in FixedEnds, NEW f \in FixedPorts,
             DialFixed(s, r, p, f)
      PROVE  FlowInv'
  <2> DEFINE k == Key(r, addr, f, p)
  <2>1. k \in FlowKeys /\ k.remote = r
    BY DEF FlowInv, FlowTypes, Key, FlowKeys
  <2>2. /\ so[s].state = "none" /\ ft' = AddFlow(k, s) /\ so' = [so EXCEPT ![s] = Opened(k, FALSE)]
        /\ pool' = pool /\ addr' = addr /\ ftpanic' = ftpanic
        /\ ~ \E t \in SockIds : so[t].state = "open" /\ so[t].tuple = k
    BY <1>3 DEF DialFixed
  <2> HIDE DEF k
  <2>3. k \notin DOMAIN ft
    BY <2>2 DEF FlowInv, FlowTypes, FlowTable
  <2> QED BY <2>1, <2>2, <2>3, UnpooledStep
<1>4. ASSUME NEW port \in ServerPorts, NEW p \in Protos, NEW s \in SockIds, NEW r \in Callers,
             NEW l \in Addrs, NewFlow(s, r, l, port, p)
      PROVE  FlowInv'
  <2> DEFINE k == Key(r, l, port, p)
  <2>1. k \in FlowKeys /\ k.remote = r /\ k.local = l
    BY DEF Key, FlowKeys
  <2>2. /\ so[s].state = "none" /\ ft' = AddFlow(k, s) /\ k \notin DOMAIN ft /\ l = addr
        /\ so' = [so EXCEPT ![s] = Opened(SocketTuple(k), FALSE)]
        /\ pool' = pool /\ addr' = addr /\ ftpanic' = ftpanic
    BY <1>4 DEF NewFlow
  <2>3. SocketTuple(k) = k
    BY <2>2 DEF SocketTuple, Key
  <2> HIDE DEF k
  <2> QED BY <2>1, <2>2, <2>3, UnpooledStep
<1>5. ASSUME NEW port, NEW p, AddServerCb(port, p) \/ RemoveServerCb(port, p)
      PROVE  FlowInv'
  <2>1. pool' = pool /\ ft' = ft /\ so' = so /\ addr' = addr /\ ftpanic' = ftpanic
    BY <1>5 DEF AddServerCb, RemoveServerCb
  <2>2. FlowTypes'
    BY <2>1 DEF FlowInv, FlowTypes
  <2>3. FlowTable'
    BY <2>1 DEF FlowInv, FlowTable
  <2>4. FlowPorts'
    BY <2>1 DEF FlowInv, FlowPorts
  <2> QED BY <2>1, <2>2, <2>3, <2>4 DEF FlowInv
<1> QED BY <1>1, <1>2, <1>3, <1>4, <1>5, DialStep, CloseStep DEF FlowNext

\* When packets come only for the client's own address, ports and flow table
\* agree with the open sockets for any pool of ports and any number of sockets:
\* a port that wraps or is leaked is never given to two of them.
THEOREM FlowIsSound ==
    ASSUME ~Strays
    PROVE  FlowSpec => []FlowSound
<1>1. FlowInit => FlowInv
  BY DEF FlowInit, NoSock, FlowInv, FlowTypes, FlowTable, FlowPorts
<1>2. FlowInv /\ [FlowNext]_flowvars => FlowInv'
  <2> SUFFICES ASSUME FlowInv, [FlowNext]_flowvars PROVE FlowInv'
    OBVIOUS
  <2>1. CASE UNCHANGED flowvars
    BY <2>1 DEF flowvars, FlowInv, FlowTypes, FlowTable, FlowPorts
  <2> QED BY <2>1, FlowSteps
<1>3. FlowInv => FlowSound
  <2> SUFFICES ASSUME FlowInv PROVE FlowSound
    OBVIOUS
  <2>1. FlowPortOwned
    BY DEF FlowInv, FlowPorts, FlowPortOwned, Open
  <2>2. Range(ft) = Open
    BY DEF FlowInv, FlowTypes, FlowTable, Range, Open
  <2>3. FlowFound
    BY <2>2 DEF FlowInv, FlowTable, FlowFound, Open
  <2> QED BY <2>1, <2>3 DEF FlowSound
<1> QED BY <1>1, <1>2, <1>3, PTL DEF FlowSpec

-----------------------------------------------------------------------------
(* mDNS *)

\* a client that the table names was created, and one that is up has the name
MdOwns(h, c) == mdState[c] # "new" /\ (Up(c) => h \in mdHosts[c])

MdInv ==
    /\ mdMap \in [MdHosts -> MdClients \cup {Nobody}]
    /\ mdHosts \in [MdClients -> SUBSET MdHosts]
    /\ mdState \in [MdClients -> {"new", "up", "failed", "removed"}]
    /\ \A h \in MdHosts : mdMap[h] # Nobody => MdOwns(h, mdMap[h])
    /\ MdAnswered

\* Whatever the calls that changed them, every name that the table has for a
\* client that is up is answered by it when it is asked for, for the types the
\* client has data for and over a family it has a socket for.
THEOREM MdIsAnswered == MdSpec => []MdAnswered
<1> USE MdAssumption
<1>1. MdnsInit => MdInv
  BY DEF MdnsInit, MdInv, MdAnswered, NoQuestion
<1>2. MdInv /\ [MdnsNext]_mdvars => MdInv'
  <2> SUFFICES ASSUME MdInv, [MdnsNext]_mdvars PROVE MdInv'
    OBVIOUS
  <2>0. mdReply' = NoQuestion => MdAnswered'
    <3> SUFFICES ASSUME mdReply' = NoQuestion PROVE MdAnswered'
      OBVIOUS
    <3>1. mdReply'.owned = {}
      BY DEF NoQuestion
    <3> QED BY <3>1 DEF MdAnswered
  <2> USE DEF MdInv, MdOwns, Up
  <2>1. ASSUME NEW c \in MdClients, MdRemove(c) PROVE MdInv'
    BY <2>0, <2>1 DEF MdRemove, UnregisterHosts
  <2>2. ASSUME NEW c \in MdClients, NEW hs \in SUBSET MdHosts, NEW data, MdCreate(c, hs, data)
        PROVE  MdInv'
    <3>1. \/ mdState' = [mdState EXCEPT ![c] = "up"] /\ mdHosts' = [mdHosts EXCEPT ![c] = hs]
          \/ mdState' = [mdState EXCEPT ![c] = "failed"] /\ mdHosts' = mdHosts
      BY <2>2 DEF MdCreate
    <3>2. \A h \in MdHosts : mdMap'[h] = IF h \in hs /\ mdMap[h] = Nobody THEN c ELSE mdMap[h]
      BY <2>2 DEF MdCreate, RegisterClientHosts
    <3>3. mdMap' \in [MdHosts -> MdClients \cup {Nobody}]
      BY <2>2 DEF MdCreate, RegisterClientHosts
    <3>4. mdState[c] = "new" /\ MdAnswered'
      BY <2>0, <2>2 DEF MdCreate
    <3>5. ASSUME NEW h \in MdHosts, mdMap'[h] # Nobody PROVE MdOwns(h, mdMap[h])'
      <4>1. CASE mdMap[h] = Nobody
        BY <3>1, <3>2, <3>5, <4>1
      <4>2. CASE mdMap[h] # Nobody
        BY <3>1, <3>2, <3>4, <4>2
      <4> QED BY <4>1, <4>2
    <3> QED BY <3>1, <3>3, <3>4, <3>5
  <2>3. ASSUME NEW c \in MdClients, NEW hs \in SUBSET MdHosts, MdAddHosts(c, hs) PROVE MdInv'
    BY <2>0, <2>3 DEF MdAddHosts, RegisterClientHosts
  <2>4. ASSUME NEW c \in MdClients, NEW hs \in SUBSET MdHosts, MdRemoveHosts(c, hs) PROVE MdInv'
    BY <2>0, <2>4 DEF MdRemoveHosts, UnregisterHosts
  <2>5. ASSUME NEW qs \in MdPackets, NEW v6 \in BOOLEAN, MdQuestion(qs, v6) PROVE MdInv'
    <3>1. UNCHANGED <<mdMap, mdInit, mdHosts, mdState>>
      BY <2>5 DEF MdQuestion
    <3>2. ASSUME NEW q \in mdReply'.owned PROVE <<mdMap[q.host], q>> \in mdReply'.answers
      <4> DEFINE c == mdMap[q.host]
      <4>1. q \in qs /\ c # Nobody /\ Up(c) /\ HasSocket(c, v6) /\ q \in MdBuildAnswers(c, qs)
        BY <2>5, <3>2 DEF MdQuestion
      <4>2. q.host \in MdHosts
        BY <4>1 DEF MdQuestions
      <4>3. c \in MdClients /\ q.host \in mdHosts[c]
        BY <4>1, <4>2
      <4>4. <<c, q>> \in MdAnswers(c, qs, v6)
        BY <4>1, <4>3 DEF MdAnswers, MdBuildAnswers
      <4>5. c \in {d \in MdClients : \E r \in qs : mdMap[r.host] = d}
        BY <4>1, <4>3
      <4> DEFINE relevant == {d \in MdClients : \E r \in qs : mdMap[r.host] = d}
      <4>6. mdReply'.answers = UNION {MdAnswers(d, qs, v6) : d \in relevant}
        BY <2>5 DEF MdQuestion
      <4>7. c \in relevant
        BY <4>5
      <4> HIDE DEF relevant
      <4>8. <<c, q>> \in UNION {MdAnswers(d, qs, v6) : d \in relevant}
        BY <4>4, <4>7
      <4> QED BY <4>6, <4>8
    <3>3. MdAnswered'
      BY <3>1, <3>2 DEF MdAnswered
    <3> QED BY <3>1, <3>3
  <2>6. ASSUME NEW c \in MdClients, MdAddress(c) PROVE MdInv'
    BY <2>0, <2>6 DEF MdAddress
  <2>7. CASE UNCHANGED mdvars
    BY <2>7 DEF mdvars, MdAnswered
  <2> QED BY <2>1, <2>2, <2>3, <2>4, <2>5, <2>6, <2>7 DEF MdnsNext
<1>3. MdInv => MdAnswered
  BY DEF MdInv
<1> QED BY <1>1, <1>2, <1>3, PTL DEF MdSpec

-----------------------------------------------------------------------------
(* PPP *)

PppIps == {PppAssigned, PppServerIp, PppNoIp}

PppType ==
    [state : {"padi", "pado", "padr", "pads", "lcp", "pap", "ipcp", "up", "padtSent", "padtRcvd"},
     timer : BOOLEAN, magic : BOOLEAN, auth : {"none", "pap"}, ackSent : BOOLEAN, ackRcvd : BOOLEAN,
     neg : PppIps, byNak : BOOLEAN, ip : PppIps, padt : 0..MaxPadt, alive : BOOLEAN, panic : BOOLEAN]

\* what a packet under way says of the two ends
PacketOK(m, p, s) ==
    /\ m.ip \in PppIps
    /\ m.to = "srv" /\ m.type = "lcpAck" => p.magic
    /\ m.to = "cli" /\ m.type = "echo" => p.magic
    /\ m.to = "cli" /\ m.type = "papAck" => s.authed
    /\ m.to = "cli" /\ m.type = "ipcpAck" => s.authed /\ s.gave /\ m.ip = PppAssigned

\* what the client knows of the concentrator
Agrees(p, s) ==
    /\ p \in PppType /\ ~p.panic
    /\ p.ackSent \/ p.state = "pap" => p.auth = "pap"
    /\ s.lcpUp => p.magic
    /\ p.state \in {"ipcp", "up"} => s.authed
    /\ p.state = "up" => s.gave /\ p.ip = PppAssigned
    /\ p.state = "padtRcvd" => ~p.alive

\* the timer runs, or the next move is the peer's
Asks(p) ==
    p.alive /\ ~p.timer => \/ p.state = "up"
                           \/ p.state = "padtSent" /\ p.padt = MaxPadt
                           \/ p.state = "lcp" /\ p.ackRcvd /\ ~p.ackSent

\* the handler that turned p into r.p and sends r.out is right
Right(r, p, s) ==
    /\ Agrees(r.p, s) /\ (p.magic => r.p.magic)
    /\ \A m \in r.out : m.to = "srv" /\ PacketOK(m, r.p, s)

PppInv ==
    /\ Agrees(ppp, pppSrv) /\ Asks(ppp)
    /\ pppSrv \in [session : BOOLEAN, lcpUp : BOOLEAN, authed : BOOLEAN, gave : BOOLEAN]
    /\ \A m \in pppNet : PacketOK(m, ppp, pppSrv)

\* A handler that changes the client and sends nothing.
LEMMA QuietlyRight ==
    ASSUME NEW p, NEW q, NEW s, Agrees(q, s), p.magic => q.magic
    PROVE  Right(Quietly(q), p, s) /\ Quietly(q).p = q
BY DEF Right, Quietly

\* one packet to the concentrator, and the timer
SendOne(q, type, ip) == Sent(q, {Msg("srv", type, ip)})

\* A handler that sends one packet and starts the timer.
LEMMA SentRight ==
    ASSUME NEW p, NEW q, NEW s, Agrees(q, s), p.magic => q.magic,
           NEW type, NEW ip \in PppIps, type = "lcpAck" => q.magic
    PROVE  /\ Right(SendOne(q, type, ip), p, s) /\ Asks(SendOne(q, type, ip).p)
           /\ SendOne(q, type, ip).p = [q EXCEPT !.timer = TRUE]
<1> DEFINE u == [q EXCEPT !.timer = TRUE]
           m == Msg("srv", type, ip)
           r == Sent(q, {m})
<1>1. r.p = u /\ r.out = {m}
  BY DEF Sent
<1>2. q \in PppType
  BY DEF Agrees
<1>3. /\ u \in PppType /\ u.timer /\ u.state = q.state /\ u.auth = q.auth /\ u.ip = q.ip
      /\ (u.magic <=> q.magic) /\ (u.panic <=> q.panic) /\ (u.ackSent <=> q.ackSent) /\ (u.alive <=> q.alive)
  BY <1>2 DEF PppType
<1>4. m.to = "srv" /\ m.type = type /\ m.ip = ip
  BY DEF Msg
<1> HIDE DEF u, m, r
<1>5. Agrees(u, s) /\ Asks(u)
  BY <1>3 DEF Agrees, Asks
<1>6. PacketOK(m, u, s)
  BY <1>3, <1>4 DEF PacketOK
<1>7. Right(r, p, s) /\ Asks(r.p) /\ r.p = u
  BY <1>1, <1>3, <1>4, <1>5, <1>6 DEF Right
<1> QED BY <1>7 DEF u, m, r, SendOne

\* What the client knows does not depend on the timer, and the state may move
\* on to one that promises nothing.
LEMMA MovesRight ==
    ASSUME NEW p, NEW s, Agrees(p, s), NEW b \in BOOLEAN
    PROVE  /\ Agrees([p EXCEPT !.timer = b], s)
           /\ \A st \in {"pado", "padr", "pads", "lcp", "padtSent"} : Agrees([p EXCEPT !.state = st], s)
<1>1. p \in PppType
  BY DEF Agrees
<1>2. Agrees([p EXCEPT !.timer = b], s)
  <2> DEFINE u == [p EXCEPT !.timer = b]
  <2>1. /\ u \in PppType /\ u.state = p.state /\ u.auth = p.auth /\ u.ip = p.ip
        /\ (u.magic <=> p.magic) /\ (u.panic <=> p.panic) /\ (u.ackSent <=> p.ackSent) /\ (u.alive <=> p.alive)
    BY <1>1 DEF PppType
  <2> HIDE DEF u
  <2>2. Agrees(u, s)
    BY <2>1 DEF Agrees
  <2> QED BY <2>2 DEF u
<1>3. ASSUME NEW st \in {"pado", "padr", "pads", "lcp", "padtSent"} PROVE Agrees([p EXCEPT !.state = st], s)
  <2> DEFINE u == [p EXCEPT !.state = st]
  <2>1. /\ u \in PppType /\ u.state = st /\ u.auth = p.auth /\ u.ip = p.ip
        /\ (u.magic <=> p.magic) /\ (u.panic <=> p.panic) /\ (u.ackSent <=> p.ackSent) /\ (u.alive <=> p.alive)
    BY <1>1 DEF PppType
  <2> HIDE DEF u
  <2>2. Agrees(u, s)
    BY <2>1 DEF Agrees
  <2> QED BY <2>2 DEF u
<1> QED BY <1>2, <1>3

\* sendPADT.
LEMMA PadtRight ==
    ASSUME NEW p, NEW s, Agrees(p, s)
    PROVE  /\ Right(sendPADT(p), p, s)
           /\ p.state = "padtSent" => Asks(sendPADT(p).p)
           /\ sendPADT(p).p \in PppType /\ (sendPADT(p).p.magic <=> p.magic)
           /\ sendPADT(p).p.timer \/ sendPADT(p).p.padt = MaxPadt
           /\ sendPADT(p).p.alive <=> p.alive
<1>1. p \in PppType /\ p.padt \in 0..MaxPadt /\ MaxPadt \in Nat
  BY PppAssumption DEF Agrees, PppType
<1>2. CASE p.padt >= MaxPadt
  <2>1. sendPADT(p) = Quietly(p) /\ p.padt = MaxPadt
    BY <1>1, <1>2 DEF sendPADT
  <2>2. Quietly(p).p = p /\ Right(Quietly(p), p, s)
    BY QuietlyRight
  <2> QED BY <1>1, <2>1, <2>2 DEF Asks
<1>3. CASE ~(p.padt >= MaxPadt)
  <2> DEFINE n == p.padt + 1
             q == [p EXCEPT !.state = "padtSent", !.padt = n]
             u == [q EXCEPT !.timer = TRUE]
  <2>1. n \in 0..MaxPadt
    BY <1>1, <1>3
  <2> HIDE DEF n
  <2>2. /\ q \in PppType /\ q.state = "padtSent" /\ q.auth = p.auth /\ q.ip = p.ip
        /\ (q.magic <=> p.magic) /\ (q.panic <=> p.panic) /\ (q.ackSent <=> p.ackSent) /\ (q.alive <=> p.alive)
    BY <1>1, <2>1 DEF PppType
  <2>3. sendPADT(p) = SendOne(q, "padt", PppNoIp)
    BY <1>3 DEF sendPADT, ToSrv, SendOne, n
  <2> HIDE DEF q
  <2>4. Agrees(q, s)
    BY <2>2 DEF Agrees
  <2>5. /\ u \in PppType /\ u.timer /\ (u.magic <=> q.magic) /\ (u.alive <=> q.alive)
    BY <2>2 DEF PppType
  <2>6. PppNoIp \in PppIps
    BY DEF PppIps
  <2>7. Right(sendPADT(p), p, s) /\ Asks(sendPADT(p).p) /\ sendPADT(p).p = u
    BY <2>2, <2>3, <2>4, <2>6, SentRight
  <2> HIDE DEF u
  <2> QED BY <2>2, <2>5, <2>7
<1> QED BY <1>2, <1>3

\* evaluateLCPNegotiationOver.
LEMMA EvaluateRight ==
    ASSUME NEW p, NEW s, Agrees(p, s), p.timer \/ p.state = "lcp"
    PROVE  LET r == evaluateLCPNegotiationOver(p) IN Right(r, p, s) /\ Asks(r.p)
<1> DEFINE r == evaluateLCPNegotiationOver(p)
<1>1. p \in PppType /\ PppNoIp \in PppIps
  BY DEF Agrees, PppIps
<1>2. CASE p.ackSent /\ p.ackRcvd
  <2> DEFINE u == [p EXCEPT !.state = "pap", !.timer = TRUE]
  <2>1. /\ u \in PppType /\ u.state = "pap" /\ u.timer /\ u.auth = p.auth /\ u.ip = p.ip
        /\ (u.magic <=> p.magic) /\ (u.panic <=> p.panic) /\ (u.ackSent <=> p.ackSent) /\ (u.alive <=> p.alive)
    BY <1>1 DEF PppType
  <2>2. r = Quietly(u)
    BY <1>2 DEF evaluateLCPNegotiationOver
  <2> HIDE DEF u, r
  <2>3. Agrees(u, s) /\ Asks(u)
    BY <1>2, <2>1 DEF Agrees, Asks
  <2>4. Right(Quietly(u), p, s) /\ Quietly(u).p = u
    BY <2>1, <2>3, QuietlyRight
  <2>5. Right(r, p, s) /\ Asks(r.p)
    BY <2>2, <2>3, <2>4
  <2> QED BY <2>5 DEF r
<1>3. CASE ~(p.ackSent /\ p.ackRcvd) /\ ~p.ackRcvd
  <2>1. r = SendOne(p, "lcpReq", PppNoIp)
    <3>1. [p EXCEPT !.state = p.state] = p
      BY <1>1 DEF PppType
    <3> QED BY <1>3, <3>1 DEF evaluateLCPNegotiationOver, sendLCPConfReq, ToSrv, SendOne
  <2> HIDE DEF r
  <2>2. Right(r, p, s) /\ Asks(r.p)
    BY <1>1, <2>1, SentRight
  <2> QED BY <2>2 DEF r
<1>4. CASE ~(p.ackSent /\ p.ackRcvd) /\ p.ackRcvd
  <2>1. r = Quietly(p) /\ Asks(p)
    BY <1>4 DEF evaluateLCPNegotiationOver, Asks
  <2> HIDE DEF r
  <2>2. Right(r, p, s) /\ r.p = p
    BY <2>1, QuietlyRight
  <2>3. Right(r, p, s) /\ Asks(r.p)
    BY <2>1, <2>2
  <2> QED BY <2>3 DEF r
<1> QED BY <1>2, <1>3, <1>4

\* onTimerEvent: the timer has fired and is off.
LEMMA TimerRight ==
    ASSUME NEW p, NEW s, Agrees(p, s), p.alive
    PROVE  Right(onTimerEvent(p), p, s) /\ Asks(onTimerEvent(p).p)
<1>1. p \in PppType /\ PppNoIp \in PppIps /\ p.neg \in PppIps /\ (p.state = "pap" => p.auth = "pap")
  BY DEF Agrees, PppIps, PppType
<1>2. CASE p.state = "padi"
  <2>1. onTimerEvent(p) = SendOne(p, "padi", PppNoIp)
    BY <1>2 DEF onTimerEvent, sendPADI, ToSrv, SendOne
  <2>2. "padi" # "lcpAck"
    OBVIOUS
  <2>3. Right(SendOne(p, "padi", PppNoIp), p, s) /\ Asks(SendOne(p, "padi", PppNoIp).p)
    BY <1>1, <2>2, SentRight
  <2> QED BY <2>1, <2>3
<1>3. CASE p.state \in {"pado", "padr"}
  <2> DEFINE q == [p EXCEPT !.state = "padr"]
  <2>1. onTimerEvent(p) = SendOne(q, "padr", PppNoIp)
    BY <1>3 DEF onTimerEvent, sendPADR, ToSrv, SendOne
  <2>2. Agrees(q, s) /\ (q.magic <=> p.magic)
    BY <1>1, MovesRight DEF PppType
  <2> HIDE DEF q
  <2>4. "padr" # "lcpAck"
    OBVIOUS
  <2>5. Right(SendOne(q, "padr", PppNoIp), p, s) /\ Asks(SendOne(q, "padr", PppNoIp).p)
    BY <1>1, <2>2, <2>4, SentRight
  <2> QED BY <2>1, <2>5
<1>4. CASE p.state = "pads"
  <2> DEFINE q == [p EXCEPT !.state = "lcp"]
  <2>1. onTimerEvent(p) = SendOne(q, "lcpReq", PppNoIp)
    BY <1>4 DEF onTimerEvent, sendLCPConfReq, ToSrv, SendOne
  <2>2. Agrees(q, s) /\ (q.magic <=> p.magic)
    BY <1>1, MovesRight DEF PppType
  <2> HIDE DEF q
  <2>4. "lcpReq" # "lcpAck"
    OBVIOUS
  <2>5. Right(SendOne(q, "lcpReq", PppNoIp), p, s) /\ Asks(SendOne(q, "lcpReq", PppNoIp).p)
    BY <1>1, <2>2, <2>4, SentRight
  <2> QED BY <2>1, <2>5
<1>5. CASE p.state = "lcp"
  <2>1. onTimerEvent(p) = evaluateLCPNegotiationOver(p)
    BY <1>5 DEF onTimerEvent
  <2> QED BY <1>5, <2>1, EvaluateRight
<1>6. CASE p.state = "pap"
  <2>1. onTimerEvent(p) = SendOne(p, "pap", PppNoIp)
    BY <1>1, <1>6 DEF onTimerEvent, sendPAPReq, ToSrv, SendOne
  <2>2. "pap" # "lcpAck"
    OBVIOUS
  <2>3. Right(SendOne(p, "pap", PppNoIp), p, s) /\ Asks(SendOne(p, "pap", PppNoIp).p)
    BY <1>1, <2>2, SentRight
  <2> QED BY <2>1, <2>3
<1>7. CASE p.state = "ipcp"
  <2>1. onTimerEvent(p) = SendOne(p, "ipcpReq", p.neg)
    BY <1>7 DEF onTimerEvent, sendIPCP, SendOne
  <2>2. "ipcpReq" # "lcpAck"
    OBVIOUS
  <2>3. Right(SendOne(p, "ipcpReq", p.neg), p, s) /\ Asks(SendOne(p, "ipcpReq", p.neg).p)
    BY <1>1, <2>2, SentRight
  <2> QED BY <2>1, <2>3
<1>8. CASE p.state = "padtSent"
  <2>1. onTimerEvent(p) = sendPADT(p)
    BY <1>8 DEF onTimerEvent
  <2> QED BY <1>8, <2>1, PadtRight
<1>9. CASE p.state = "up"
  <2>1. onTimerEvent(p) = Quietly(p)
    BY <1>9 DEF onTimerEvent
  <2>2. Right(Quietly(p), p, s) /\ Quietly(p).p = p
    BY QuietlyRight
  <2>3. Asks(p)
    BY <1>9 DEF Asks
  <2> QED BY <2>1, <2>2, <2>3
<1>10. p.state # "padtRcvd"
  BY DEF Agrees
<1> QED BY <1>1, <1>2, <1>3, <1>4, <1>5, <1>6, <1>7, <1>8, <1>9, <1>10 DEF PppType

\* handleLCPNegotiation: the packets of both of its parts.
LEMMA AlsoRight ==
    ASSUME NEW p, NEW q, NEW s, NEW a, NEW b, Right(a, p, s), q = a.p, Right(b, q, s), Asks(b.p),
           b = [p |-> b.p, out |-> b.out]
    PROVE  Right(Also(b, a.out), p, s) /\ Asks(Also(b, a.out).p)
<1> DEFINE r == Also(b, a.out)
<1>1. r.p = b.p /\ r.out = b.out \cup a.out
  BY DEF Also
<1> HIDE DEF r
<1>2. \A m \in a.out : m.to = "srv" /\ PacketOK(m, b.p, s)
  BY DEF Right, PacketOK
<1>3. Right(r, p, s) /\ Asks(r.p)
  BY <1>1, <1>2 DEF Right
<1> QED BY <1>3 DEF r

\* The result of evaluateLCPNegotiationOver is a client and packets.
LEMMA EvaluateShape ==
    ASSUME NEW p
    PROVE  evaluateLCPNegotiationOver(p) =
             [p |-> evaluateLCPNegotiationOver(p).p, out |-> evaluateLCPNegotiationOver(p).out]
BY DEF evaluateLCPNegotiationOver, Quietly, sendLCPConfReq, Sent

\* handleLCPNegotiation: a request brings the magic number and the method.
LEMMA LcpRight ==
    ASSUME NEW p, NEW s, Agrees(p, s), NEW type
    PROVE  Right(handleLCPNegotiation(p, type), p, s) /\ Asks(handleLCPNegotiation(p, type).p)
<1>1. p \in PppType /\ PppNoIp \in PppIps
  BY DEF Agrees, PppIps
<1> DEFINE a == [p EXCEPT !.magic = TRUE, !.auth = "pap", !.ackSent = TRUE]
           b == [p EXCEPT !.ackRcvd = TRUE]
           ra == SendOne(a, "lcpAck", PppNoIp)
           rb == SendOne(b, "lcpReq", PppNoIp)
<1>2. /\ a \in PppType /\ a.magic /\ a.auth = "pap" /\ a.state = p.state /\ a.ip = p.ip
      /\ (a.panic <=> p.panic) /\ (a.alive <=> p.alive)
  BY <1>1 DEF PppType
<1>3. /\ b \in PppType /\ b.auth = p.auth /\ b.state = p.state /\ b.ip = p.ip /\ (b.ackSent <=> p.ackSent)
      /\ (b.magic <=> p.magic) /\ (b.panic <=> p.panic) /\ (b.alive <=> p.alive)
  BY <1>1 DEF PppType
<1>4. handleLCPNegotiation(p, type) =
        IF type = "lcpReq" THEN Also(evaluateLCPNegotiationOver(ra.p), ra.out)
        ELSE Also(evaluateLCPNegotiationOver(rb.p), rb.out)
  <2>1. [b EXCEPT !.state = b.state] = b
    BY <1>3 DEF PppType
  <2>2. sendLCPConfReq(b, FALSE) = rb
    BY <2>1 DEF sendLCPConfReq, ToSrv, SendOne
  <2> HIDE DEF b, rb
  <2>3. handleLCPNegotiation(p, type) =
          LET r == IF type = "lcpReq" THEN ra ELSE sendLCPConfReq(b, FALSE)
          IN  Also(evaluateLCPNegotiationOver(r.p), r.out)
    BY DEF handleLCPNegotiation, ToSrv, SendOne, b
  <2> QED BY <2>2, <2>3
<1> HIDE DEF a, b
<1>5. Agrees(a, s) /\ Agrees(b, s)
  BY <1>2, <1>3 DEF Agrees
<1>6. Right(ra, p, s) /\ ra.p = [a EXCEPT !.timer = TRUE]
  BY <1>1, <1>2, <1>5, SentRight
<1>7. Right(rb, p, s) /\ rb.p = [b EXCEPT !.timer = TRUE]
  BY <1>1, <1>3, <1>5, SentRight
<1>8. ra.p.timer /\ rb.p.timer
  BY <1>2, <1>3, <1>6, <1>7 DEF PppType
<1> HIDE DEF ra, rb
<1>9. Agrees(ra.p, s) /\ Agrees(rb.p, s)
  BY <1>6, <1>7 DEF Right
<1>10. /\ Right(evaluateLCPNegotiationOver(ra.p), ra.p, s) /\ Asks(evaluateLCPNegotiationOver(ra.p).p)
       /\ Right(evaluateLCPNegotiationOver(rb.p), rb.p, s) /\ Asks(evaluateLCPNegotiationOver(rb.p).p)
  BY <1>8, <1>9, EvaluateRight
<1>11. /\ Right(Also(evaluateLCPNegotiationOver(ra.p), ra.out), p, s)
       /\ Asks(Also(evaluateLCPNegotiationOver(ra.p), ra.out).p)
  BY <1>6, <1>10, AlsoRight, EvaluateShape
<1>12. /\ Right(Also(evaluateLCPNegotiationOver(rb.p), rb.out), p, s)
       /\ Asks(Also(evaluateLCPNegotiationOver(rb.p), rb.out).p)
  BY <1>7, <1>10, AlsoRight, EvaluateShape
<1> QED BY <1>4, <1>11, <1>12

\* handleIPCPNegotiation: an Ack is the concentrator's for the address it gave.
LEMMA IpcpRight ==
    ASSUME NEW p, NEW s, Agrees(p, s), Asks(p), p.state \in {"ipcp", "up"},
           NEW m, m.to = "cli", PacketOK(m, p, s), m.type \in Ipcp
    PROVE  Right(handleIPCPNegotiation(p, m), p, s) /\ Asks(handleIPCPNegotiation(p, m).p)
<1> DEFINE H == handleIPCPNegotiation(p, m)
<1>1. p \in PppType /\ PppNoIp \in PppIps /\ m.ip \in PppIps
  BY DEF Agrees, PppIps, PacketOK
<1>2. ASSUME NEW n \in PppIps, NEW by \in BOOLEAN, NEW type, type # "lcpAck"
      PROVE  LET q == [p EXCEPT !.neg = n, !.byNak = by]
             IN  Right(sendIPCP(q, type), p, s) /\ Asks(sendIPCP(q, type).p)
  <2> DEFINE q == [p EXCEPT !.neg = n, !.byNak = by]
  <2>1. /\ q \in PppType /\ q.state = p.state /\ q.auth = p.auth /\ q.ip = p.ip /\ q.neg = n
        /\ (q.magic <=> p.magic) /\ (q.panic <=> p.panic) /\ (q.ackSent <=> p.ackSent) /\ (q.alive <=> p.alive)
    BY <1>1 DEF PppType
  <2>2. sendIPCP(q, type) = SendOne(q, type, q.neg)
    BY DEF sendIPCP, SendOne
  <2> HIDE DEF q
  <2>3. Agrees(q, s)
    BY <2>1 DEF Agrees
  <2>5. Right(SendOne(q, type, q.neg), p, s) /\ Asks(SendOne(q, type, q.neg).p)
    BY <1>2, <2>1, <2>3, SentRight
  <2>4. Right(sendIPCP(q, type), p, s) /\ Asks(sendIPCP(q, type).p)
    BY <2>2, <2>5
  <2> QED BY <2>4 DEF q
<1>3. CASE m.type = "ipcpReq"
  <2> DEFINE n == IF p.byNak THEN p.neg ELSE m.ip
  <2>1. n \in PppIps
    BY <1>1 DEF PppType
  <2>2. H = sendIPCP([p EXCEPT !.neg = n], "ipcpAck")
    BY <1>3 DEF handleIPCPNegotiation
  <2> HIDE DEF n
  <2>3. [p EXCEPT !.neg = n] = [p EXCEPT !.neg = n, !.byNak = p.byNak] /\ p.byNak \in BOOLEAN
    BY <1>1, <2>1 DEF PppType
  <2>4. "ipcpAck" # "lcpAck"
    OBVIOUS
  <2> HIDE DEF H
  <2>5. Right(H, p, s) /\ Asks(H.p)
    BY <1>2, <2>1, <2>2, <2>3, <2>4
  <2> QED BY <2>5 DEF H
<1>4. CASE m.type = "ipcpNak"
  <2>1. H = sendIPCP([p EXCEPT !.neg = m.ip, !.byNak = TRUE], "ipcpReq")
    BY <1>4 DEF handleIPCPNegotiation
  <2>2. "ipcpReq" # "lcpAck" /\ TRUE \in BOOLEAN
    OBVIOUS
  <2> HIDE DEF H
  <2>3. Right(H, p, s) /\ Asks(H.p)
    BY <1>1, <1>2, <2>1, <2>2
  <2> QED BY <2>3 DEF H
<1>5. CASE m.type = "ipcpAck" /\ m.ip = p.neg
  <2> DEFINE q == [p EXCEPT !.ip = m.ip, !.state = "up"]
  <2>1. /\ q \in PppType /\ q.state = "up" /\ q.auth = p.auth /\ q.ip = m.ip
        /\ (q.magic <=> p.magic) /\ (q.panic <=> p.panic) /\ (q.ackSent <=> p.ackSent) /\ (q.alive <=> p.alive)
    BY <1>1 DEF PppType
  <2>2. H = Quietly(q)
    BY <1>5 DEF handleIPCPNegotiation
  <2>3. m.ip = PppAssigned /\ s.gave /\ s.authed
    BY <1>5 DEF PacketOK
  <2> HIDE DEF q, H
  <2>4. Agrees(q, s)
    BY <2>1, <2>3 DEF Agrees
  <2>6. Asks(q)
    BY <2>1 DEF Asks
  <2>5. Right(H, p, s) /\ Asks(H.p)
    BY <2>1, <2>2, <2>4, <2>6, QuietlyRight
  <2> QED BY <2>5 DEF H
<1>6. CASE m.type = "ipcpAck" /\ m.ip # p.neg
  <2> DEFINE q == [p EXCEPT !.neg = m.ip, !.timer = TRUE]
  <2>1. /\ q \in PppType /\ q.state = p.state /\ q.auth = p.auth /\ q.ip = p.ip /\ q.timer
        /\ (q.magic <=> p.magic) /\ (q.panic <=> p.panic) /\ (q.ackSent <=> p.ackSent) /\ (q.alive <=> p.alive)
    BY <1>1 DEF PppType
  <2>2. H = Quietly(q)
    BY <1>6 DEF handleIPCPNegotiation
  <2> HIDE DEF q, H
  <2>3. Agrees(q, s) /\ Asks(q)
    BY <2>1 DEF Agrees, Asks
  <2>4. Right(H, p, s) /\ Asks(H.p)
    BY <2>1, <2>2, <2>3, QuietlyRight
  <2> QED BY <2>4 DEF H
<1> QED BY <1>3, <1>4, <1>5, <1>6 DEF Ipcp

\* The result of sendPADT is a client and packets.
LEMMA PadtShape ==
    ASSUME NEW p
    PROVE  sendPADT(p) = [p |-> sendPADT(p).p, out |-> sendPADT(p).out]
BY DEF sendPADT, Quietly, Sent

\* OnRemove: the client is not there any more, whatever its state says.
LEMMA RemoveRight ==
    ASSUME NEW p, NEW s, NEW q, Agrees(p, s), q = p \/ q = [p EXCEPT !.state = "padtRcvd"]
    PROVE  Right(OnRemovePpp(q), p, s) /\ Asks(OnRemovePpp(q).p)
<1> DEFINE r == IF q.state = "up" THEN sendPADT(q) ELSE Quietly(q)
           u == [r.p EXCEPT !.timer = FALSE, !.alive = FALSE]
<1>1. p \in PppType
  BY DEF Agrees
<1>2. /\ q \in PppType /\ q.auth = p.auth /\ q.ip = p.ip /\ (q.state = p.state \/ q.state = "padtRcvd")
      /\ (q.magic <=> p.magic) /\ (q.panic <=> p.panic) /\ (q.ackSent <=> p.ackSent)
  BY <1>1 DEF PppType
<1>3. CASE q.state = "up"
  <2>0. q = p
    BY <1>1, <1>3 DEF PppType
  <2>1. r = sendPADT(p) /\ Right(r, p, s) /\ r.p \in PppType /\ r = [p |-> r.p, out |-> r.out]
    BY <1>3, <2>0, PadtRight, PadtShape
  <2>2. OnRemovePpp(q) = [r EXCEPT !.p.timer = FALSE, !.p.alive = FALSE]
    BY DEF OnRemovePpp
  <2> HIDE DEF r
  <2>3. OnRemovePpp(q).p = u /\ OnRemovePpp(q).out = r.out
    BY <2>1, <2>2
  <2>4. /\ u \in PppType /\ u.auth = r.p.auth /\ u.ip = r.p.ip /\ u.state = r.p.state /\ ~u.alive
        /\ (u.magic <=> r.p.magic) /\ (u.panic <=> r.p.panic) /\ (u.ackSent <=> r.p.ackSent)
    BY <2>1 DEF PppType
  <2> HIDE DEF u
  <2>5. Agrees(u, s)
    BY <2>1, <2>4 DEF Agrees, Right
  <2>6. Asks(u)
    BY <2>4 DEF Asks
  <2>7. (p.magic => u.magic) /\ \A m \in r.out : m.to = "srv" /\ PacketOK(m, u, s)
    BY <2>1, <2>4 DEF Right, PacketOK
  <2> QED BY <2>3, <2>5, <2>6, <2>7 DEF Right
<1>4. CASE q.state # "up"
  <2>1. r.p = q /\ r.out = {} /\ r = [p |-> q, out |-> {}]
    BY <1>4 DEF Quietly
  <2>2. OnRemovePpp(q) = [r EXCEPT !.p.timer = FALSE, !.p.alive = FALSE]
    BY DEF OnRemovePpp
  <2> HIDE DEF r
  <2>3. OnRemovePpp(q).p = u /\ OnRemovePpp(q).out = {}
    BY <2>1, <2>2
  <2>4. /\ u \in PppType /\ u.auth = q.auth /\ u.ip = q.ip /\ u.state = q.state /\ ~u.alive
        /\ (u.magic <=> q.magic) /\ (u.panic <=> q.panic) /\ (u.ackSent <=> q.ackSent)
    BY <1>2, <2>1 DEF PppType
  <2> HIDE DEF u
  <2>5. Agrees(u, s)
    BY <1>2, <1>4, <2>4 DEF Agrees
  <2>6. Asks(u)
    BY <2>4 DEF Asks
  <2> QED BY <1>2, <2>3, <2>4, <2>5, <2>6 DEF Right
<1> QED BY <1>3, <1>4

\* answerLCPTerminate.
LEMMA TerminateRight ==
    ASSUME NEW p, NEW s, Agrees(p, s)
    PROVE  Right(answerLCPTerminate(p), p, s) /\ Asks(answerLCPTerminate(p).p)
<1> DEFINE r == sendPADT(p)
           u == [r.p EXCEPT !.state = "padtSent"]
           m == Msg("srv", "termAck", PppNoIp)
           a == answerLCPTerminate(p)
<1>1. /\ Right(r, p, s) /\ r.p \in PppType /\ (r.p.magic <=> p.magic) /\ r = [p |-> r.p, out |-> r.out]
      /\ r.p.timer \/ r.p.padt = MaxPadt
  BY PadtRight, PadtShape
<1>2. a = [[r EXCEPT !.p.state = "padtSent"] EXCEPT !.out = r.out \cup {m}]
  BY <1>1 DEF answerLCPTerminate, Also, ToSrv
<1> HIDE DEF r
<1>3. a.p = u /\ a.out = r.out \cup {m}
  BY <1>1, <1>2
<1>4. /\ u \in PppType /\ u.auth = r.p.auth /\ u.ip = r.p.ip /\ u.state = "padtSent" /\ u.padt = r.p.padt
      /\ (u.magic <=> r.p.magic) /\ (u.panic <=> r.p.panic) /\ (u.ackSent <=> r.p.ackSent)
      /\ (u.timer <=> r.p.timer)
  BY <1>1 DEF PppType
<1>5. m.to = "srv" /\ m.type = "termAck" /\ m.ip \in PppIps
  BY DEF Msg, PppIps
<1> HIDE DEF u, m, a
<1>6. Agrees(u, s)
  BY <1>1, <1>4 DEF Agrees, Right
<1>7. Asks(u)
  BY <1>1, <1>4 DEF Asks
<1>8. \A n \in r.out \cup {m} : n.to = "srv" /\ PacketOK(n, u, s)
  BY <1>1, <1>4, <1>5 DEF Right, PacketOK
<1>9. Right(a, p, s) /\ Asks(a.p)
  BY <1>1, <1>3, <1>4, <1>6, <1>7, <1>8 DEF Right
<1> QED BY <1>9 DEF a

\* HandleRxPPPPacket.
LEMMA RxRight ==
    ASSUME NEW p, NEW s, Agrees(p, s), Asks(p), NEW m, m.to = "cli", PacketOK(m, p, s)
    PROVE  Right(HandleRxPPPPacket(p, m), p, s) /\ Asks(HandleRxPPPPacket(p, m).p)
<1>1. p \in PppType /\ PppNoIp \in PppIps /\ ~p.panic
  BY DEF Agrees, PppIps
<1> DEFINE H == HandleRxPPPPacket(p, m)
           Moved(st) == [p EXCEPT !.state = st, !.timer = TRUE]
<1>2. ASSUME NEW st \in {"pado", "pads", "ipcp"}, st = "ipcp" => s.authed
      PROVE  Right(Quietly(Moved(st)), p, s) /\ Asks(Quietly(Moved(st)).p)
  <2> DEFINE u == Moved(st)
  <2>1. /\ u \in PppType /\ u.state = st /\ u.auth = p.auth /\ u.ip = p.ip /\ u.timer
        /\ (u.magic <=> p.magic) /\ (u.panic <=> p.panic) /\ (u.ackSent <=> p.ackSent)
    BY <1>1 DEF PppType
  <2> HIDE DEF u
  <2>2. Agrees(u, s)
    BY <1>2, <2>1 DEF Agrees
  <2>3. Asks(u)
    BY <2>1 DEF Asks
  <2>4. Right(Quietly(u), p, s) /\ Asks(Quietly(u).p)
    BY <2>1, <2>2, <2>3, QuietlyRight
  <2> QED BY <2>4 DEF u
<1>3. CASE p.state = "padi" /\ m.type = "pado"
  <2>1. H = Quietly(Moved("pado"))
    BY <1>3 DEF HandleRxPPPPacket, handlePADO
  <2> QED BY <1>2, <2>1
<1>4. CASE p.state = "padr" /\ m.type = "pads"
  <2>1. H = Quietly(Moved("pads"))
    BY <1>4 DEF HandleRxPPPPacket, handlePADS
  <2> QED BY <1>2, <2>1
<1>5. CASE \/ p.state \in {"pads", "lcp", "pap"} /\ m.type = "lcpReq"
           \/ p.state = "lcp" /\ m.type = "lcpAck"
  <2>1. H = handleLCPNegotiation(p, m.type)
    BY <1>5 DEF HandleRxPPPPacket
  <2> QED BY <2>1, LcpRight
<1>6. CASE p.state \in {"pads", "lcp", "pap", "ipcp", "up"} /\ m.type = "echo"
  <2>1. p.magic
    BY <1>6 DEF PacketOK
  <2>4. H = answerLCPEcho(p)
    BY <1>6 DEF HandleRxPPPPacket, Ipcp
  <2>2. H = SendOne(p, "echoReply", PppNoIp)
    BY <2>1, <2>4 DEF answerLCPEcho, ToSrv, SendOne
  <2>3. Right(SendOne(p, "echoReply", PppNoIp), p, s) /\ Asks(SendOne(p, "echoReply", PppNoIp).p)
    BY <1>1, <2>1, SentRight
  <2> QED BY <2>2, <2>3
<1>7. CASE p.state = "pap" /\ m.type = "papAck"
  <2>1. H = Quietly(Moved("ipcp"))
    BY <1>7 DEF HandleRxPPPPacket, handlePAPRes
  <2>2. s.authed
    BY <1>7 DEF PacketOK
  <2> QED BY <1>2, <2>1, <2>2
<1>8. CASE p.state \in {"ipcp", "up"} /\ m.type \in Ipcp
  <2>1. H = handleIPCPNegotiation(p, m)
    BY <1>8 DEF HandleRxPPPPacket, Ipcp
  <2> QED BY <1>8, <2>1, IpcpRight
<1>9. CASE p.state = "up" /\ m.type = "term"
  <2>1. H = answerLCPTerminate(p)
    BY <1>9 DEF HandleRxPPPPacket, Ipcp
  <2> QED BY <2>1, TerminateRight
<1>10. CASE p.state = "padtSent" /\ m.type = "padt"
  <2>1. H = OnRemovePpp([p EXCEPT !.state = "padtRcvd"])
    BY <1>10 DEF HandleRxPPPPacket
  <2> QED BY <2>1, RemoveRight
<1>11. CASE /\ ~(p.state = "padi" /\ m.type = "pado")
            /\ ~(p.state = "padr" /\ m.type = "pads")
            /\ ~(p.state \in {"pads", "lcp", "pap"} /\ m.type = "lcpReq")
            /\ ~(p.state = "lcp" /\ m.type = "lcpAck")
            /\ ~(p.state \in {"pads", "lcp", "pap", "ipcp", "up"} /\ m.type = "echo")
            /\ ~(p.state = "pap" /\ m.type = "papAck")
            /\ ~(p.state \in {"ipcp", "up"} /\ m.type \in Ipcp)
            /\ ~(p.state = "up" /\ m.type = "term")
            /\ ~(p.state = "padtSent" /\ m.type = "padt")
  <2>1. H = Quietly(p)
    BY <1>11 DEF HandleRxPPPPacket
  <2> QED BY <2>1, QuietlyRight
<1> QED BY <1>3, <1>4, <1>5, <1>6, <1>7, <1>8, <1>9, <1>10, <1>11

\* A step of the client that a right handler takes.
LEMMA ClientStep ==
    ASSUME PppInv, NEW r, Right(r, ppp, pppSrv), Asks(r.p),
           NEW net, net \subseteq pppNet, Client(r, net)
    PROVE  PppInv'
<1>1. ppp' = r.p /\ pppSrv' = pppSrv /\ pppNet' \subseteq net \cup r.out
  BY DEF Client, Link
<1>2. Agrees(ppp', pppSrv') /\ Asks(ppp') /\ (ppp.magic => ppp'.magic)
  BY <1>1 DEF Right
<1>3. ASSUME NEW m \in pppNet' PROVE PacketOK(m, ppp', pppSrv')
  <2>1. CASE m \in r.out
    BY <1>1, <2>1 DEF Right
  <2>2. CASE m \in pppNet
    <3>1. PacketOK(m, ppp, pppSrv)
      BY <2>2 DEF PppInv
    <3> QED BY <1>1, <1>2, <3>1 DEF PacketOK
  <2> QED BY <1>1, <1>3, <2>1, <2>2
<1> QED BY <1>1, <1>2, <1>3 DEF PppInv

\* the concentrator learns and does not forget
SrvGrows(s, t) ==
    /\ t \in [session : BOOLEAN, lcpUp : BOOLEAN, authed : BOOLEAN, gave : BOOLEAN]
    /\ (s.authed => t.authed) /\ (s.gave => t.gave)

\* What the concentrator answers is right, whatever it was sent.
LEMMA AnswerRight ==
    ASSUME PppInv, NEW m \in pppNet, m.to = "srv"
    PROVE  LET a == SrvAnswer(pppSrv, m)
           IN  /\ SrvGrows(pppSrv, a.s) /\ (a.s.lcpUp => ppp.magic)
               /\ \A n \in a.out : PacketOK(n, ppp, a.s)
<1> DEFINE s == pppSrv
           a == SrvAnswer(pppSrv, m)
           Goal(b) == /\ SrvGrows(pppSrv, b.s) /\ (b.s.lcpUp => ppp.magic)
                      /\ \A n \in b.out : PacketOK(n, ppp, b.s)
<1>1. /\ s \in [session : BOOLEAN, lcpUp : BOOLEAN, authed : BOOLEAN, gave : BOOLEAN]
      /\ (s.lcpUp => ppp.magic) /\ (m.type = "lcpAck" => ppp.magic)
  BY DEF PppInv, Agrees, PacketOK
<1>2. PppNoIp \in PppIps /\ PppAssigned \in PppIps
  BY DEF PppIps
<1>0. Goal([s |-> s, out |-> {}])
  BY <1>1 DEF SrvGrows
<1>3. ASSUME NEW n, PacketOK(n, ppp, s) PROVE Goal([s |-> s, out |-> {n}])
  BY <1>1, <1>3 DEF SrvGrows
<1>4. ASSUME NEW type, type \notin {"echo", "papAck", "ipcpAck"}, NEW t, NEW ip \in PppIps
      PROVE  PacketOK(Msg("cli", type, ip), ppp, t)
  BY <1>4 DEF PacketOK, Msg
<1>5. CASE m.type = "padi"
  <2>1. a = [s |-> s, out |-> {Msg("cli", "pado", PppNoIp)}]
    BY <1>5 DEF SrvAnswer, ToCli
  <2>2. PacketOK(Msg("cli", "pado", PppNoIp), ppp, s)
    BY <1>2, <1>4
  <2>3. Goal([s |-> s, out |-> {Msg("cli", "pado", PppNoIp)}])
    BY <1>3, <2>2
  <2> QED BY <2>1, <2>3
<1>6. CASE m.type = "padr"
  <2> DEFINE t == [s EXCEPT !.session = TRUE]
             o == {Msg("cli", "pads", PppNoIp)} \cup {Msg("cli", "lcpReq", PppNoIp)}
  <2>1. a = [s |-> t, out |-> o]
    BY <1>6 DEF SrvAnswer, ToCli
  <2>2. SrvGrows(s, t) /\ (t.lcpUp => ppp.magic)
    BY <1>1 DEF SrvGrows
  <2> HIDE DEF t
  <2>3. PacketOK(Msg("cli", "pads", PppNoIp), ppp, t) /\ PacketOK(Msg("cli", "lcpReq", PppNoIp), ppp, t)
    BY <1>2, <1>4
  <2>4. \A n \in o : PacketOK(n, ppp, t)
    BY <2>3
  <2> HIDE DEF o
  <2> QED BY <2>1, <2>2, <2>4
<1>7. CASE m.type = "lcpReq" /\ s.session
  <2>1. a = [s |-> s, out |-> {Msg("cli", "lcpAck", PppNoIp)}]
    BY <1>7 DEF SrvAnswer, ToCli
  <2>2. PacketOK(Msg("cli", "lcpAck", PppNoIp), ppp, s)
    BY <1>2, <1>4
  <2>3. Goal([s |-> s, out |-> {Msg("cli", "lcpAck", PppNoIp)}])
    BY <1>3, <2>2
  <2> QED BY <2>1, <2>3
<1>8. CASE m.type = "lcpAck" /\ s.session
  <2> DEFINE t == [s EXCEPT !.lcpUp = TRUE]
  <2>1. a = [s |-> t, out |-> {}]
    BY <1>8 DEF SrvAnswer
  <2>2. SrvGrows(s, t) /\ ppp.magic
    BY <1>1, <1>8 DEF SrvGrows
  <2> HIDE DEF t
  <2> QED BY <2>1, <2>2
<1>9. CASE m.type = "pap" /\ s.lcpUp
  <2> DEFINE t == [s EXCEPT !.authed = TRUE]
             n == Msg("cli", "papAck", PppNoIp)
  <2>1. a = [s |-> t, out |-> {n}]
    BY <1>9 DEF SrvAnswer, ToCli
  <2>2. SrvGrows(s, t) /\ ppp.magic /\ t.authed
    BY <1>1, <1>9 DEF SrvGrows
  <2> HIDE DEF t
  <2>3. PacketOK(n, ppp, t)
    BY <1>2, <2>2 DEF PacketOK, Msg
  <2> HIDE DEF n
  <2> QED BY <2>1, <2>2, <2>3
<1>10. CASE m.type = "ipcpReq" /\ s.authed /\ m.ip = PppAssigned
  <2> DEFINE t == [s EXCEPT !.gave = TRUE]
             n == Msg("cli", "ipcpAck", m.ip)
  <2>1. a = [s |-> t, out |-> {n}]
    BY <1>10 DEF SrvAnswer
  <2>2. SrvGrows(s, t) /\ (t.lcpUp => ppp.magic) /\ t.authed /\ t.gave
    BY <1>1, <1>10 DEF SrvGrows
  <2> HIDE DEF t
  <2>3. PacketOK(n, ppp, t)
    BY <1>2, <1>10, <2>2 DEF PacketOK, Msg
  <2> HIDE DEF n
  <2> QED BY <2>1, <2>2, <2>3
<1>11. CASE m.type = "ipcpReq" /\ s.authed /\ m.ip # PppAssigned
  <2>1. a = [s |-> s, out |-> {Msg("cli", "ipcpNak", PppAssigned)}]
    BY <1>11 DEF SrvAnswer
  <2>2. PacketOK(Msg("cli", "ipcpNak", PppAssigned), ppp, s)
    BY <1>2, <1>4
  <2>3. Goal([s |-> s, out |-> {Msg("cli", "ipcpNak", PppAssigned)}])
    BY <1>3, <2>2
  <2> QED BY <2>1, <2>3
<1>12. CASE m.type = "padt"
  <2>1. a = [s |-> s, out |-> {Msg("cli", "padt", PppNoIp)}]
    BY <1>12 DEF SrvAnswer, ToCli
  <2>2. PacketOK(Msg("cli", "padt", PppNoIp), ppp, s)
    BY <1>2, <1>4
  <2>3. Goal([s |-> s, out |-> {Msg("cli", "padt", PppNoIp)}])
    BY <1>3, <2>2
  <2> QED BY <2>1, <2>3
<1>13. CASE /\ m.type \notin {"padi", "padr", "padt"} /\ ~(m.type = "lcpReq" /\ s.session)
            /\ ~(m.type = "lcpAck" /\ s.session) /\ ~(m.type = "pap" /\ s.lcpUp)
            /\ ~(m.type = "ipcpReq" /\ s.authed)
  <2>1. a = [s |-> s, out |-> {}]
    BY <1>13 DEF SrvAnswer
  <2> QED BY <1>0, <2>1
<1> QED BY <1>5, <1>6, <1>7, <1>8, <1>9, <1>10, <1>11, <1>12, <1>13

\* A step of the concentrator that sends right packets.
LEMMA SrvStep ==
    ASSUME PppInv, SrvGrows(pppSrv, pppSrv'), pppSrv'.lcpUp => ppp.magic, ppp' = ppp,
           \A n \in pppNet' : n \in pppNet \/ PacketOK(n, ppp, pppSrv')
    PROVE  PppInv'
<1>1. Agrees(ppp', pppSrv') /\ Asks(ppp')
  BY DEF PppInv, Agrees, SrvGrows
<1>2. ASSUME NEW n \in pppNet' PROVE PacketOK(n, ppp', pppSrv')
  <2>1. CASE n \in pppNet
    BY <2>1 DEF PppInv, PacketOK, SrvGrows
  <2> QED BY <1>2, <2>1
<1> QED BY <1>1, <1>2 DEF PppInv, SrvGrows

\* With a concentrator that answers what it gets and any loss and reordering
\* on the way: a link that is up has the address that was assigned and
\* confirmed, the client asks until then, and meets none of its panics.
THEOREM PppIsSound == PppSpec => []PppSound
<1>1. PppInit => PppInv
  <2> SUFFICES ASSUME PppInit PROVE PppInv
    OBVIOUS
  <2>1. ppp \in PppType /\ ppp.timer /\ ppp.state = "padi" /\ ~ppp.panic /\ ~ppp.ackSent
    <3> DEFINE zero == 0
               yes == TRUE
               no == FALSE
    <3>1. /\ ppp = [state |-> "padi", timer |-> yes, magic |-> no, auth |-> "none",
                    ackSent |-> no, ackRcvd |-> no, neg |-> PppNoIp, byNak |-> no,
                    ip |-> PppNoIp, padt |-> zero, alive |-> yes, panic |-> no]
      BY DEF PppInit
    <3>2. zero \in 0 .. MaxPadt /\ yes \in BOOLEAN /\ no \in BOOLEAN /\ yes /\ ~no /\ PppNoIp \in PppIps
      BY PppAssumption DEF PppIps
    <3> HIDE DEF zero, yes, no
    <3>3. ppp \in PppType
      BY <3>1, <3>2, Zenon DEF PppType
    <3> QED BY <3>1, <3>2, <3>3, Zenon
  <2>2. /\ pppSrv \in [session : BOOLEAN, lcpUp : BOOLEAN, authed : BOOLEAN, gave : BOOLEAN]
        /\ ~pppSrv.lcpUp
    BY DEF PppInit
  <2>3. \A m \in pppNet : PacketOK(m, ppp, pppSrv)
    <3> SUFFICES ASSUME NEW m \in pppNet PROVE PacketOK(m, ppp, pppSrv)
      OBVIOUS
    <3>1. m = [to |-> "srv", type |-> "padi", ip |-> PppNoIp]
      BY DEF PppInit, ToSrv, Msg
    <3>2. m.to = "srv" /\ m.type = "padi" /\ m.ip \in PppIps
      BY <3>1 DEF PppIps
    <3> QED BY <3>2 DEF PacketOK
  <2>4. Agrees(ppp, pppSrv) /\ Asks(ppp)
    BY <2>1, <2>2 DEF Agrees, Asks
  <2> QED BY <2>2, <2>3, <2>4 DEF PppInv
<1>2. PppInv /\ [PppNext]_pppvars => PppInv'
  <2> SUFFICES ASSUME PppInv, [PppNext]_pppvars PROVE PppInv'
    OBVIOUS
  <2>0. Agrees(ppp, pppSrv) /\ Asks(ppp) /\ ppp \in PppType
    BY DEF PppInv, Agrees
  <2>1. CASE PppTimer
    <3> DEFINE p == [ppp EXCEPT !.timer = FALSE]
               r == onTimerEvent(p)
    <3>1. Client(r, pppNet) /\ ppp.alive
      BY <2>1 DEF PppTimer, Working
    <3>2. Agrees(p, pppSrv) /\ p.alive /\ (p.magic <=> ppp.magic)
      BY <2>0, <3>1, MovesRight DEF PppType
    <3> HIDE DEF p
    <3>3. Right(r, p, pppSrv) /\ Asks(r.p)
      BY <3>2, TimerRight
    <3>4. Right(r, ppp, pppSrv)
      BY <3>2, <3>3 DEF Right
    <3> HIDE DEF r
    <3> QED BY <3>1, <3>3, <3>4, ClientStep
  <2>2. CASE PppRemove
    <3> DEFINE r == OnRemovePpp(ppp)
    <3>1. Client(r, pppNet)
      BY <2>2 DEF PppRemove
    <3>2. Right(r, ppp, pppSrv) /\ Asks(r.p)
      BY <2>0, RemoveRight
    <3> HIDE DEF r
    <3> QED BY <3>1, <3>2, ClientStep
  <2>3. ASSUME NEW m \in pppNet, PppRx(m) PROVE PppInv'
    <3> DEFINE r == HandleRxPPPPacket(ppp, m)
               net == pppNet \ {m}
    <3>1. Client(r, net) /\ m.to = "cli" /\ PacketOK(m, ppp, pppSrv) /\ net \subseteq pppNet
      BY <2>3 DEF PppRx, PppInv
    <3>2. Right(r, ppp, pppSrv) /\ Asks(r.p)
      BY <2>0, <3>1, RxRight
    <3> HIDE DEF r, net
    <3> QED BY <3>1, <3>2, ClientStep
  <2>4. ASSUME NEW m \in pppNet, PppServe(m) PROVE PppInv'
    <3> DEFINE a == SrvAnswer(pppSrv, m)
    <3>1. ppp' = ppp /\ m.to = "srv"
      BY <2>4 DEF PppServe
    <3>2. /\ SrvGrows(pppSrv, a.s) /\ (a.s.lcpUp => ppp.magic)
          /\ \A n \in a.out : PacketOK(n, ppp, a.s)
      BY <3>1, AnswerRight
    <3>3. CASE pppSrv' = a.s /\ pppNet' \subseteq pppNet \cup a.out
      <4> HIDE DEF a
      <4> QED BY <3>1, <3>2, <3>3, SrvStep
    <3>4. CASE pppSrv' = pppSrv /\ pppNet' \subseteq pppNet \cup ToCli("papNak")
      <4>1. \A n \in ToCli("papNak") : PacketOK(n, ppp, pppSrv)
        BY DEF ToCli, Msg, PacketOK, PppIps
      <4>2. SrvGrows(pppSrv, pppSrv') /\ (pppSrv'.lcpUp => ppp.magic)
        BY <3>4 DEF SrvGrows, PppInv, Agrees
      <4> QED BY <3>1, <3>4, <4>1, <4>2, SrvStep
    <3> QED BY <2>4, <3>3, <3>4 DEF PppServe, Link
  <2>5. CASE PppSrvSends
    <3>1. PICK out \in {ToCli("lcpReq"), ToCli("echo"), ToCli("term"), {Msg("cli", "ipcpReq", PppServerIp)}} :
            /\ out = ToCli("echo") => pppSrv.lcpUp
            /\ Link(pppNet \cup out)
      BY <2>5 DEF PppSrvSends
    <3>2. ppp' = ppp /\ pppSrv' = pppSrv
      BY <2>5 DEF PppSrvSends
    <3>3. SrvGrows(pppSrv, pppSrv') /\ (pppSrv'.lcpUp => ppp.magic)
      BY <3>2 DEF SrvGrows, PppInv, Agrees
    <3>4. \A n \in out : PacketOK(n, ppp, pppSrv)
      <4>1. CASE out = ToCli("echo")
        BY <3>1, <3>2, <3>3, <4>1, SMTT(30) DEF ToCli, Msg, PacketOK, PppIps
      <4>2. CASE out = ToCli("lcpReq")
        BY <4>2 DEF ToCli, Msg, PacketOK, PppIps
      <4>3. CASE out = ToCli("term")
        BY <4>3 DEF ToCli, Msg, PacketOK, PppIps
      <4>4. CASE out = {Msg("cli", "ipcpReq", PppServerIp)}
        BY <4>4 DEF Msg, PacketOK, PppIps
      <4> QED BY <4>1, <4>2, <4>3, <4>4
    <3>5. pppNet' \subseteq pppNet \cup out
      BY <3>1 DEF Link
    <3> QED BY <3>2, <3>3, <3>4, <3>5, SrvStep
  <2>6. CASE UNCHANGED pppvars
    BY <2>6 DEF pppvars, PppInv
  <2> QED BY <2>1, <2>2, <2>3, <2>4, <2>5, <2>6 DEF PppNext
<1>3. PppInv => PppSound
  <2> SUFFICES ASSUME PppInv PROVE PppSound
    OBVIOUS
  <2>1. PppNoPanic /\ PppAddressAgreed
    BY DEF PppInv, Agrees, PppNoPanic, PppAddressAgreed
  <2>2. PppKeepsAsking
    BY DEF PppInv, Asks, PppKeepsAsking, Working
  <2> QED BY <2>1, <2>2 DEF PppSound
<1> QED BY <1>1, <1>2, <1>3, PTL DEF PppSpec
=============================================================================
