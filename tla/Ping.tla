--------------------------------- MODULE Ping ---------------------------------
(***************************************************************************)
(* Echo requests of a client and their replies (emu/plugins/ping/ping.go), *)
(* with the callers in emu/plugins/icmp/icmp.go and, the same for ICMPv6,  *)
(* emu/plugins/ipv6/ipv6.go.  A client has one ping at a time.  Messages   *)
(* are not consumed: each may arrive never, once or several times and in   *)
(* any order, those of an earlier ping included.                           *)
(***************************************************************************)
EXTENDS Integers, Sequences, FiniteSetsExt

CONSTANTS
    PingIds,     \* identifiers, drawn at random
    PingSeqs,    \* sequence numbers to start with, drawn at random
    PingSeqMod,  \* 2^16
    PingParams,  \* [amount, burst, interval, timeout], the last two in ticks
    MaxPings     \* bound

\* A ping is shorter than the cycle of the sequence numbers, so that two of its requests differ.
ASSUME PingAssumption ==
    /\ PingSeqMod \in Nat \ {0}
    /\ PingSeqs \subseteq 0 .. PingSeqMod - 1
    /\ PingParams \subseteq [amount : 0 .. PingSeqMod - 1, burst : Nat, interval : Nat, timeout : Nat]

VARIABLES
    ping,      \* <<>>, or the one ping of the client
    pingNet,   \* requests and replies under way: [kind, run, id, seq, k]; k counts the requests
    pingRuns,  \* bound: pings so far
    peerUp     \* the pinged address is a client of its namespace

pingvars == <<ping, pingNet, pingRuns, peerUp>>

PingInit == ping = <<>> /\ pingNet = {} /\ pingRuns = 0 /\ peerUp = TRUE

-----------------------------------------------------------------------------
(* Ping *)

\* mutation of sendPing: a burst is always whole
sendPingWhole(p) == [ping |-> [p EXCEPT !.sent = @ + p.par.burst, !.seq = (@ + p.par.burst) % PingSeqMod],
                     n |-> p.par.burst]

\* p after the burst, and how many requests it has
sendPing(p) ==
    LET n == Min({p.par.burst, p.par.amount - p.sent})
    IN  [ping |-> [p EXCEPT !.sent = @ + n, !.seq = (@ + n) % PingSeqMod], n |-> n]

Requests(p, n) ==
    {[kind |-> "request", run |-> p.run, id |-> p.id, seq |-> (p.seq + i - 1) % PingSeqMod, k |-> p.sent + i] :
       i \in 1..n}

\* NewPing; got is history: the requests whose replies were accepted
NewPing(par, id, seq) ==
    [run |-> pingRuns + 1, par |-> par, id |-> id, seq |-> seq, start |-> seq, first |-> FALSE, last |-> 0, sent |-> 0,
     inOrder |-> 0, outOfOrder |-> 0, timer |-> 0, got |-> <<>>]

\* StartPing, which refuses a second ping, and StartPinging
StartPing(par, id, seq) ==
    /\ ping = <<>> /\ pingRuns < MaxPings
    /\ pingRuns' = pingRuns + 1
    /\ LET p == NewPing(par, id, seq)
           s == sendPing(p)
       IN  /\ ping' = <<[s.ping EXCEPT !.timer = par.interval]>>
           /\ pingNet' = pingNet \cup Requests(p, s.n)
    /\ UNCHANGED peerUp

\* StopPing, from an RPC or when the client is removed
StopPing ==
    /\ ping # <<>> /\ ping' = <<>>
    /\ UNCHANGED <<pingNet, pingRuns, peerUp>>

\* OnEvent, inside a tick
PingOnEvent ==
    /\ ping # <<>> /\ ping[1].timer = 0
    /\ LET p == ping[1]
           s == sendPing(p)
       IN  IF p.sent < p.par.amount
           THEN /\ ping' = <<[s.ping EXCEPT !.timer = IF s.ping.sent = p.par.amount THEN p.par.timeout ELSE p.par.interval]>>
                /\ pingNet' = pingNet \cup Requests(p, s.n)
           ELSE ping' = <<>> /\ UNCHANGED pingNet
    /\ UNCHANGED <<pingRuns, peerUp>>

PingTick ==
    /\ ping # <<>> /\ ping[1].timer > 0
    /\ ping' = <<[ping[1] EXCEPT !.timer = @ - 1]>>
    /\ UNCHANGED <<pingNet, pingRuns, peerUp>>

-----------------------------------------------------------------------------
(* packets *)

\* HandleRxIcmpPacket and HandleEcho of the other client's namespace
HandleEcho(m) ==
    /\ m.kind = "request" /\ peerUp
    /\ pingNet' = pingNet \cup {[m EXCEPT !.kind = "reply"]}
    /\ UNCHANGED <<ping, pingRuns, peerUp>>

PeerChanges == peerUp' = ~peerUp /\ UNCHANGED <<ping, pingNet, pingRuns>>

InOrder(p, seq) == IF p.first THEN seq = (p.last + 1) % PingSeqMod ELSE seq = p.start

\* HandleEchoReply of the ping: a reply that is too old, or that has another identifier, leaves
\* it as it is
Counted(p, m) ==
    LET ord == IF InOrder(p, m.seq) THEN 1 ELSE 0
    IN  {p} \cup (IF m.id = p.id /\ Len(p.got) < p.par.amount + 1
                 THEN {[p EXCEPT !.inOrder = @ + ord, !.outOfOrder = @ + 1 - ord, !.first = TRUE,
                                 !.last = m.seq, !.got = Append(@, IF m.run = p.run THEN m.k ELSE 0)]}
                 ELSE {})

\* HandleEchoReply of the namespace finds the client and its ping
HandleEchoReply(m) ==
    /\ m.kind = "reply" /\ ping # <<>>
    /\ \E p \in Counted(ping[1], m) : ping' = <<p>>
    /\ UNCHANGED <<pingNet, pingRuns, peerUp>>

PingNext ==
    \/ \E par \in PingParams, id \in PingIds, seq \in PingSeqs : StartPing(par, id, seq)
    \/ StopPing \/ PingOnEvent \/ PingTick \/ PeerChanges
    \/ \E m \in pingNet : HandleEcho(m) \/ HandleEchoReply(m)

PingSpec == PingInit /\ [][PingNext]_pingvars

-----------------------------------------------------------------------------
\* The requests of a ping are as many as it was asked for and no more, for every burst, so that
\* Amount - sentRequests never wraps; the ones on the wire are numbered from 1 without a gap.
PingExact ==
    ping # <<>> =>
        LET p == ping[1] IN
        /\ p.sent <= p.par.amount
        /\ {m.k : m \in {n \in pingNet : n.kind = "request" /\ n.run = p.run}} = 1..p.sent

\* What the counters say of the order of the replies is true: none is counted as out of order when
\* each came once and in the order of the requests, across the wrap of the sequence number; and
\* if none is, the replies that the ping itself asked for came so.
PingOrder ==
    ping # <<>> =>
        LET p == ping[1] IN
        /\ p.inOrder + p.outOfOrder = Len(p.got)
        /\ (\A i \in DOMAIN p.got : p.got[i] = i) => p.outOfOrder = 0
        /\ p.outOfOrder = 0 => \A i \in DOMAIN p.got : p.got[i] \in {0, i}

\* The statistics of a ping are exact, and out-of-order replies are told apart.
PingSound == PingExact /\ PingOrder
=============================================================================
