----------------------------------- MODULE Dhcp -----------------------------------
EXTENDS Integers, Sequences, FiniteSets, Functions

-----------------------------------------------------------------------------
(***************************************************************************)
(* The DHCPv4 server plugin (emu/plugins/dhcpv4srv/dhcpsrv.go): pools of   *)
(* addresses that are filled chunk by chunk, one context for each client   *)
(* that was offered an address, and the handlers of the messages.          *)
(*                                                                         *)
(* A handler is an operator from the server and a message to the server    *)
(* and the replies it sends.  Addresses are numbers, 0 is 0.0.0.0; time is *)
(* in seconds, a timer is the seconds it has to run, or Off.  The map and  *)
(* the list of a pool change together and are one sequence.  The lease     *)
(* written into an offer is left out: clients take theirs from the ACK.    *)
(***************************************************************************)
CONSTANTS
    Macs,          \* the clients that talk to the server
    PoolParams,    \* sequence of [net, size, min, max, excl]
    ServerIp,      \* Client.Ipv4 of the server
    Chunk,         \* addresses added by enlargePool: 256
    Threshold,     \* contexts removed in a tick by the remover: 1000
    OfferTimeout,  \* OFFER_TIMEOUT
    MinLease, DefaultLease, MaxLease

\* The pools are ranges of their subnets, which have two addresses or more (OnCreate and the
\* validation of its JSON), and are not upside down.
ASSUME DhcpAssumption ==
    /\ PoolParams \in Seq([net : Nat, size : Nat, min : Nat, max : Nat, excl : SUBSET Nat])
    /\ \A i \in 1..Len(PoolParams) :
          LET q == PoolParams[i]
          IN  q.size >= 2 /\ q.net <= q.min /\ q.min <= q.max /\ q.max < q.net + q.size
    /\ Chunk \in Nat \ {0}

Off == -1
Zero == 0
NoCtx == [pool |-> 0, ip |-> Zero, state |-> "none", lease |-> 0, timer |-> Off]

-----------------------------------------------------------------------------
(* Ipv4Pool *)

PoolContains(p, ip) == ip \notin p.excl /\ p.min <= ip /\ ip <= p.max

InSubnet(p, ip) == p.net <= ip /\ ip <= p.bcast

CanAdd(p, ip) == ip \notin Range(p.avail) /\ PoolContains(p, ip)

AddFirst(p, ip) == IF CanAdd(p, ip) THEN [p EXCEPT !.avail = <<ip>> \o @] ELSE p

\* AddLast, on the list
AddLast(p, avail, ip) ==
    IF ip \notin Range(avail) /\ PoolContains(p, ip) THEN Append(avail, ip) ELSE avail

\* the loop of enlargePool: the list after each of the n addresses from a on
AddChunk(p, a, n) ==
    LET added[i \in 0..n] == IF i = 0 THEN p.avail ELSE AddLast(p, added[i - 1], a + i - 1)
    IN  added[n]

\* enlargePool: the next chunk of addresses, without the excluded ones
EnlargePool(p) ==
    LET left == p.size - p.cur
        n == IF left < Chunk THEN left ELSE Chunk
    IN  IF left = 0 THEN [p EXCEPT !.exhausted = TRUE]
        ELSE [p EXCEPT !.cur = @ + n, !.exhausted = @ \/ left < Chunk,
                       !.avail = AddChunk(p, p.first + p.cur, n)]

\* the network and the broadcast address are not given
CreateIpv4Pool(q) ==
    LET bcast == q.net + q.size - 1
        first == IF q.min > q.net THEN q.min ELSE q.min + 1
        last == IF q.max < bcast THEN q.max ELSE q.max - 1
    IN  EnlargePool([net |-> q.net, bcast |-> bcast, min |-> q.min, max |-> q.max,
                     first |-> first, size |-> last - first + 1, excl |-> q.excl,
                     avail |-> <<>>, cur |-> 0, exhausted |-> FALSE])

\* DList.RemoveNode of the k-th node
RemoveNode(list, k) == SubSeq(list, 1, k - 1) \o SubSeq(list, k + 1, Len(list))

\* removeEntry, of an address that has an entry
RemoveEntry(p, ip) ==
    [p EXCEPT !.avail = RemoveNode(@, CHOOSE i \in DOMAIN @ : @[i] = ip)]

\* GetFirst: the pool, the address (Zero: an error) and whether removeEntry
\* panics because the head of an empty list was taken for an entry
GetFirst(p) ==
    LET q == IF p.avail = <<>> /\ ~p.exhausted THEN EnlargePool(p) ELSE p
    IN  IF p.avail = <<>> /\ p.exhausted THEN [pool |-> p, ip |-> Zero, panic |-> FALSE]
        ELSE IF q.avail = <<>> THEN [pool |-> q, ip |-> Zero, panic |-> TRUE]
        ELSE [pool |-> RemoveEntry(q, Head(q.avail)), ip |-> Head(q.avail), panic |-> FALSE]

\* Negate, after a DHCPDECLINE
Negate(p, ip) ==
    [(IF ip \in Range(p.avail) THEN RemoveEntry(p, ip) ELSE p) EXCEPT !.excl = @ \cup {ip}]

-----------------------------------------------------------------------------
(* DhcpClientCtx *)

\* GetT1T2
T1(lease) == lease \div 2
T2(lease) == (7 * lease) \div 8

CreateDhcpClientCtx(i, ip, lease) ==
    [pool |-> i, ip |-> ip, state |-> "selecting", lease |-> lease, timer |-> OfferTimeout]

\* mutation of Bind: the timer of the offer is left running
BindKeepsTimer(c) == [c EXCEPT !.state = "bound"]

Bind(c) == [c EXCEPT !.state = "bound", !.timer = T1(c.lease)]

\* OnClientRemove, DhcpClientCtx.OnRemove: the address goes back to the pool
OnClientRemove(s, m) ==
    LET c == s.ctx[m]
    IN  [s EXCEPT !.ctx[m] = NoCtx, !.pools[c.pool] = AddFirst(@, c.ip)]

\* OnEvent of the timer of a context
CtxOnEvent(s, m) ==
    LET c == s.ctx[m]
    IN  CASE c.state = "bound" ->
                [s EXCEPT !.ctx[m].state = "renewing", !.ctx[m].timer = T2(c.lease) - T1(c.lease)]
          [] c.state = "renewing" ->
                [s EXCEPT !.ctx[m].state = "rebinding", !.ctx[m].timer = c.lease - T2(c.lease)]
          [] c.state \in {"selecting", "rebinding"} -> OnClientRemove(s, m)

-----------------------------------------------------------------------------
(* PluginDhcpSrvClient *)

\* OnCreate after the checks of the JSON
CreateServer ==
    LET pools == [i \in 1..Len(PoolParams) |-> CreateIpv4Pool(PoolParams[i])]
        mine == {i \in 1..Len(pools) : InSubnet(pools[i], ServerIp)}
    IN  [pools |-> pools, ctx |-> [m \in Macs |-> NoCtx], panic |-> FALSE, up |-> TRUE,
         serverPool |-> IF mine = {} THEN 0 ELSE CHOOSE i \in mine : \A j \in mine : i <= j]

Known(s, m) == s.ctx[m].state # "none"

\* a message of a client: [type, mac, gi, ci, req, sid, lease]
SendOffer(msg, ip) == {[type |-> "offer", mac |-> msg.mac, yi |-> ip, dst |-> ip, t1 |-> 0, t2 |-> 0, lease |-> 0]}

SendAck(msg, c) ==
    {[type |-> "ack", mac |-> msg.mac, yi |-> c.ip, 
      dst |-> IF msg.gi # Zero THEN msg.gi ELSE IF msg.ci # Zero THEN msg.ci ELSE c.ip,
      t1 |-> T1(c.lease), t2 |-> T2(c.lease), lease |-> c.lease]}

SendNak(msg) == {[type |-> "nak", mac |-> msg.mac, yi |-> Zero, dst |-> Zero, t1 |-> 0, t2 |-> 0, lease |-> 0]}

\* the pool an address is taken from for a new client, 0 if there is none
PoolFor(s, gi) ==
    LET in == {i \in 1..Len(s.pools) : InSubnet(s.pools[i], gi)}
    IN  IF gi = Zero THEN s.serverPool
        ELSE IF in = {} THEN 0 ELSE CHOOSE i \in in : \A j \in in : i <= j

\* mutation of SelectIpToOffer: the requested address is not taken off the pool
SelectIpKept(p, req) ==
    IF req # Zero /\ PoolContains(p, req) /\ req \in Range(p.avail)
    THEN [pool |-> p, ip |-> req, panic |-> FALSE]
    ELSE GetFirst(p)

\* selectIpToOffer, for a client that is not known
SelectIpToOffer(p, req) ==
    IF req # Zero /\ PoolContains(p, req) /\ req \in Range(p.avail)
    THEN [pool |-> RemoveEntry(p, req), ip |-> req, panic |-> FALSE]
    ELSE GetFirst(p)

\* selectLeaseToOffer, where a lease was asked for or the client is not known
SelectLeaseToOffer(req) == IF MinLease <= req /\ req <= MaxLease THEN req ELSE DefaultLease

Result(s, out) == [s |-> s, out |-> out]

HandleDiscover(s, msg) ==
    LET i == PoolFor(s, msg.gi)
        got == SelectIpToOffer(s.pools[i], msg.req)
        t == [s EXCEPT !.pools[i] = got.pool, !.panic = got.panic]
    IN  IF Known(s, msg.mac) THEN Result(s, SendOffer(msg, s.ctx[msg.mac].ip))
        ELSE IF i = 0 THEN Result(s, {})
        ELSE IF got.ip = Zero THEN Result(t, {})
        ELSE Result([t EXCEPT !.ctx[msg.mac] =
                         CreateDhcpClientCtx(i, got.ip, SelectLeaseToOffer(msg.lease))],
                    SendOffer(msg, got.ip))

\* a request that answers an offer
RequestSelecting(s, msg) ==
    LET c == s.ctx[msg.mac]
    IN  IF c.ip = msg.req /\ msg.ci = Zero /\ c.state = "selecting"
        THEN Result([s EXCEPT !.ctx[msg.mac] = Bind(c)], SendAck(msg, c))
        ELSE Result(s, {})

\* a request after a reboot of the client: verified, the context is left alone
RequestReboot(s, msg) ==
    LET c == s.ctx[msg.mac]
        right == IF msg.gi = Zero THEN InSubnet(s.pools[s.serverPool], msg.req)
                 ELSE InSubnet(s.pools[c.pool], msg.gi)
    IN  IF c.ip # msg.req \/ ~right THEN Result(s, SendNak(msg)) ELSE Result(s, SendAck(msg, c))

\* a request that renews or rebinds
RequestExtend(s, msg) ==
    LET c == s.ctx[msg.mac]
        lease == SelectLeaseToOffer(IF msg.lease = 0 THEN DefaultLease ELSE msg.lease)
        d == Bind([c EXCEPT !.lease = lease])
    IN  IF c.state \in {"renewing", "rebinding"}
        THEN Result([s EXCEPT !.ctx[msg.mac] = d], SendAck(msg, d))
        ELSE Result(s, {})

HandleRequest(s, msg) ==
    IF (msg.sid # Zero /\ msg.sid # ServerIp) \/ ~Known(s, msg.mac) THEN Result(s, {})
    ELSE IF msg.sid # Zero THEN RequestSelecting(s, msg)
    ELSE IF msg.req # Zero /\ msg.ci = Zero THEN RequestReboot(s, msg)
    ELSE IF msg.req = Zero /\ msg.ci = s.ctx[msg.mac].ip THEN RequestExtend(s, msg)
    ELSE Result(s, {})

HandleDecline(s, msg) ==
    LET c == s.ctx[msg.mac]
    IN  IF msg.sid = ServerIp /\ Known(s, msg.mac) /\ msg.req = c.ip
        THEN Result(OnClientRemove([s EXCEPT !.pools[c.pool] = Negate(@, c.ip)], msg.mac), {})
        ELSE Result(s, {})

HandleRelease(s, msg) ==
    IF msg.sid = ServerIp /\ Known(s, msg.mac) /\ msg.ci = s.ctx[msg.mac].ip
    THEN Result(OnClientRemove(s, msg.mac), {})
    ELSE Result(s, {})

\* HandleRxDhcpPacket; a DHCPINFORM is answered without looking at the state
ServerRx(s, msg) ==
    CASE msg.type = "discover" -> HandleDiscover(s, msg)
      [] msg.type = "request"  -> HandleRequest(s, msg)
      [] msg.type = "decline"  -> HandleDecline(s, msg)
      [] msg.type = "release"  -> HandleRelease(s, msg)

\* the addresses that the contexts of ms give back to the pool i
Returned(s, ms, i) ==
    {a \in {s.ctx[m].ip : m \in {x \in ms : s.ctx[x].pool = i}} : CanAdd(s.pools[i], a)}

\* the addresses of a set, one after the other
InSomeOrder(as) == CHOOSE list \in Bijection(1..Cardinality(as), as) : TRUE

\* DhcpClientCtxDbRemover.OnEvent: at most Threshold contexts in a tick, in the order of a map;
\* each puts its address first
RemoveSome(s, ms) ==
    [s EXCEPT !.ctx = [m \in Macs |-> IF m \in ms THEN NoCtx ELSE s.ctx[m]],
              !.pools = [i \in 1..Len(s.pools) |->
                  [s.pools[i] EXCEPT !.avail = InSomeOrder(Returned(s, ms, i)) \o @]]]

\* a second passes for the contexts
SecondPasses(s) ==
    [s EXCEPT !.ctx = [m \in Macs |->
        IF s.ctx[m].timer > 0 THEN [s.ctx[m] EXCEPT !.timer = @ - 1] ELSE s.ctx[m]]]

-----------------------------------------------------------------------------
(***************************************************************************)
(* The DHCPv4 client plugin (emu/plugins/dhcpv4/dhcp.go) as operators on   *)
(* the record of one client.  A handler gives the client and the messages  *)
(* it sends.  host is the address of the emulated client itself            *)
(* (Client.Ipv4), ip and server are what the exchange has learned.         *)
(***************************************************************************)
CONSTANTS
    DiscoverSec,   \* timerDiscoverRetransmitSec
    OfferSec,      \* timerOfferRetransmitSec
    MaxRequests    \* requests sent again before a new discover: 5

NoTimer == -1
NoIp == 0
NoClient == [state |-> "none", cnt |-> 0, ip |-> NoIp, server |-> NoIp, host |-> NoIp,
             timer |-> NoTimer, t1 |-> 0, t2 |-> 0]

\* restartTimer: for zero seconds the timer is left as it is
RestartTimer(c, sec) == IF sec = 0 THEN c ELSE [c EXCEPT !.timer = sec]

Msg(type, mac, ci, req, sid) ==
    [type |-> type, mac |-> mac, gi |-> NoIp, ci |-> ci, req |-> req, sid |-> sid, lease |-> 0]

Sent(c, out) == [c |-> c, out |-> out]

SendDiscover(c, mac) ==
    Sent(RestartTimer([c EXCEPT !.state = "init", !.cnt = 0], DiscoverSec),
         {Msg("discover", mac, NoIp, NoIp, NoIp)})

SendReq(c, mac) ==
    Sent(RestartTimer(c, OfferSec), {Msg("request", mac, NoIp, c.ip, c.server)})

\* the template of renew, rebind and release has no server identifier
SendRenewRebind(c, mac, release, sec) ==
    Sent(RestartTimer(c, sec), {Msg(IF release THEN "release" ELSE "request", mac, c.ip, NoIp, NoIp)})

\* OnCreate, OnRemove
ClientOnCreate(mac) == SendDiscover(NoClient, mac)

ClientOnRemove(c, mac) == Sent(NoClient, SendRenewRebind(c, mac, TRUE, 0).out)

\* onTimerEvent; in REBINDING nothing happens and no timer is left
OnTimerEvent(c0, mac) ==
    LET c == [c0 EXCEPT !.timer = NoTimer]
    IN  CASE c.state = "init" -> SendDiscover(c, mac)
          [] c.state = "requesting" ->
                IF c.cnt + 1 > MaxRequests THEN SendDiscover(c, mac)
                ELSE SendReq([c EXCEPT !.cnt = @ + 1], mac)
          [] c.state = "bound" ->
                SendRenewRebind([c EXCEPT !.state = "renewing"], mac, FALSE, c.t2 - c.t1)
          [] c.state = "renewing" ->
                SendRenewRebind([c EXCEPT !.state = "rebinding"], mac, FALSE, OfferSec)
          [] c.state = "rebinding" -> Sent(c, {})

\* verifyPkt of an ACK: sent to the address that it gives, by the server chosen
VerifyAck(c, msg) == msg.yi = msg.dst /\ c.server # NoIp

\* HandleAckNak
HandleAckNak(c, mac, msg) ==
    CASE msg.type = "ack" /\ VerifyAck(c, msg) ->
            Sent(RestartTimer([c EXCEPT !.state = "bound", !.host = msg.dst, !.t1 = msg.t1,
                                 !.t2 = IF msg.t2 < msg.t1 THEN msg.t1 + 1 ELSE msg.t2], msg.t1), {})
      [] msg.type = "nak" -> SendDiscover(c, mac)
      [] OTHER -> Sent(c, {})

\* HandleRxDhcpPacket
ClientRx(c0, mac, msg, sid) ==
    LET c == IF c0.state = "init" THEN [c0 EXCEPT !.server = sid] ELSE c0
    IN  CASE c.state = "init" /\ msg.type = "offer" ->
                SendReq([c EXCEPT !.state = "requesting", !.ip = msg.yi], mac)
          [] c.state \in {"requesting", "renewing", "rebinding"} -> HandleAckNak(c, mac, msg)
          [] OTHER -> Sent(c, {})

ClientSecond(c) == IF c.timer > 0 THEN [c EXCEPT !.timer = @ - 1] ELSE c

-----------------------------------------------------------------------------
(***************************************************************************)
(* DHCPv4 clients and a DHCPv4 server of the emulator on one segment, with *)
(* foreign clients that send what they like.  The network loses, reorders  *)
(* and repeats messages; what is not delivered within the second is lost.  *)
(* The clients and the server run in threads or processes of their own, so *)
(* their timers of one second fire in any order.                           *)
(*                                                                         *)
(* promise is a history variable: the client an address was last bound to  *)
(* by an ACK and the seconds of that lease that are left.  The ACK that    *)
(* answers a client after its reboot binds nothing: it verifies the lease  *)
(* there is, and is no promise, although SendAck writes the whole lease    *)
(* into it as into any other.                                              *)
(***************************************************************************)
CONSTANTS
    Clients,     \* clients of the emulator, in Macs
    AnyMsgs,     \* what the foreign clients send
    MaxDeclines, \* bound: addresses declined
    MaxCreates   \* bound: clients created again

ASSUME ClientsAssumption ==
    /\ Clients \subseteq Macs
    /\ \A m \in AnyMsgs : m.mac \in Macs /\ m.type \in {"discover", "request", "decline", "release"}

VARIABLES srv, cl, dnet, promise, used

dhcpVars == <<srv, cl, dnet, promise, used>>

NoPromise == [mac |-> "none", left |-> 0]

DhcpAddrs == UNION {q.net .. (q.net + q.size - 1) : q \in Range(PoolParams)}

DhcpInit ==
    /\ srv = CreateServer
    /\ cl = [m \in Clients |-> NoClient]
    /\ dnet = {}
    /\ promise = [a \in DhcpAddrs |-> NoPromise]
    /\ used = [declines |-> 0, creates |-> 0]

-----------------------------------------------------------------------------
(* history *)

\* a client that releases or declines an address gives up what it was promised
GivenUp(p, msg) ==
    [a \in DOMAIN p |-> IF p[a].mac = msg.mac /\
                           \/ msg.type = "release" /\ msg.ci = a
                           \/ msg.type = "decline" /\ msg.req = a
                        THEN NoPromise ELSE p[a]]

\* "a request to verify ... an existing lease" (HandleRequest)
Verifies(msg) == msg.type = "request" /\ msg.sid = Zero /\ msg.req # Zero

Acked(p, msg, out) ==
    [a \in DOMAIN p |->
        IF ~Verifies(msg) /\ \E r \in out : r.type = "ack" /\ r.yi = a
        THEN LET r == CHOOSE r \in out : r.type = "ack" /\ r.yi = a
             IN  [mac |-> r.mac, left |-> r.lease]
        ELSE p[a]]

-----------------------------------------------------------------------------
(* the server *)

\* a message of a client of the emulator arrives; kept: it will arrive again
ServerReceives(m, kept) ==
    LET r == ServerRx(srv, m)
    IN  /\ m \in dnet /\ m.mac \in Clients
        /\ m.type \in {"discover", "request", "release"}
        /\ ~srv.panic /\ srv.up
        /\ srv' = r.s
        /\ dnet' = (IF kept THEN dnet ELSE dnet \ {m}) \cup {x \in r.out : x.mac \in Clients}
        /\ promise' = Acked(GivenUp(promise, m), m, r.out)
        /\ UNCHANGED <<cl, used>>

\* a message of a foreign client
ForeignMessage(m) ==
    LET r == ServerRx(srv, m)
    IN  /\ ~srv.panic /\ srv.up
        /\ m.type = "decline" => used.declines < MaxDeclines
        /\ srv' = r.s
        /\ promise' = Acked(GivenUp(promise, m), m, r.out)
        /\ used' = IF m.type = "decline" /\ r.s # srv
                   THEN [used EXCEPT !.declines = @ + 1] ELSE used
        /\ UNCHANGED <<cl, dnet>>

ServerTimer(m) ==
    /\ ~srv.panic
    /\ srv.ctx[m].timer = 0
    /\ srv' = CtxOnEvent(srv, m)
    /\ UNCHANGED <<cl, dnet, promise, used>>

\* OnRemove of the server: the first contexts go at once, the others tick by tick
ServerRemoved(ms) ==
    LET known == {m \in Macs : Known(srv, m)}
    IN  /\ ~srv.panic
        /\ srv.up \/ known # {}
        /\ ms \subseteq known
        /\ Cardinality(ms) = (IF Cardinality(known) < Threshold THEN Cardinality(known) ELSE Threshold)
        /\ srv' = [RemoveSome(srv, ms) EXCEPT !.up = FALSE]
        /\ promise' = [a \in DOMAIN promise |-> NoPromise]
        /\ UNCHANGED <<cl, dnet, used>>

-----------------------------------------------------------------------------
(* the clients *)

ClientSteps(m, r) ==
    /\ cl' = [cl EXCEPT ![m] = r.c]
    /\ dnet' = dnet \cup r.out
    /\ UNCHANGED <<srv, promise>>

CreateClient(m) ==
    /\ cl[m].state = "none"
    /\ used.creates < MaxCreates
    /\ used' = [used EXCEPT !.creates = @ + 1]
    /\ ClientSteps(m, ClientOnCreate(m))

RemoveClient(m) ==
    /\ cl[m].state # "none"
    /\ used.creates < MaxCreates
    /\ ClientSteps(m, ClientOnRemove(cl[m], m))
    /\ UNCHANGED used

ClientTimer(m) ==
    /\ cl[m].timer = 0
    /\ ClientSteps(m, OnTimerEvent(cl[m], m))
    /\ UNCHANGED used

ClientReceives(m, msg, kept) ==
    LET r == ClientRx(cl[m], m, msg, ServerIp)
    IN  /\ msg \in dnet
        /\ msg.mac = m
        /\ msg.type \in {"offer", "ack", "nak"}
        /\ cl' = [cl EXCEPT ![m] = IF cl[m].state = "none" THEN @ ELSE r.c]
        /\ dnet' = (IF kept THEN dnet ELSE dnet \ {msg}) \cup (IF cl[m].state = "none" THEN {} ELSE r.out)
        /\ UNCHANGED <<srv, promise, used>>

\* a second passes once the timers that are due have fired
Second ==
    /\ \A m \in Macs : srv.ctx[m].timer # 0
    /\ \A m \in Clients : cl[m].timer # 0
    /\ srv' = SecondPasses(srv)
    /\ cl' = [m \in Clients |-> ClientSecond(cl[m])]
    /\ dnet' = {}
    /\ promise' = [a \in DOMAIN promise |->
                      IF promise[a].left > 1 THEN [promise[a] EXCEPT !.left = @ - 1] ELSE NoPromise]
    /\ UNCHANGED used

DhcpNext ==
    \/ \E m \in dnet, kept \in BOOLEAN : ServerReceives(m, kept)
    \/ \E m \in AnyMsgs : ForeignMessage(m)
    \/ \E m \in Macs : ServerTimer(m)
    \/ \E ms \in SUBSET Macs : ServerRemoved(ms)
    \/ \E m \in Clients : CreateClient(m) \/ RemoveClient(m) \/ ClientTimer(m)
    \/ \E m \in Clients : \E msg \in dnet, kept \in BOOLEAN : ClientReceives(m, msg, kept)
    \/ Second

DhcpSpec == DhcpInit /\ [][DhcpNext]_dhcpVars

-----------------------------------------------------------------------------
(* properties *)

\* Every address a pool has come to hold is at every time in exactly one place:
\* free in the pool, once, or with one context, or excluded.  enlargePool,
\* GetFirst, GetEntry, Negate, the contexts' OnRemove and the remover move
\* addresses by hand; none is lost and none is given twice.
PoolExact ==
    \A i \in 1..Len(srv.pools) :
        LET p == srv.pools[i]
            Holders(a) == {m \in Macs : srv.ctx[m].pool = i /\ srv.ctx[m].ip = a}
        IN  /\ \A a \in p.first .. (p.first + p.cur - 1) :
                  (IF a \in Range(p.avail) THEN 1 ELSE 0) + Cardinality(Holders(a))
                    + (IF a \in p.excl /\ Holders(a) = {} THEN 1 ELSE 0) = 1
            /\ Cardinality(Range(p.avail)) = Len(p.avail)
            /\ \A m \in Macs : srv.ctx[m].pool = i =>
                  srv.ctx[m].ip \in p.first .. (p.first + p.cur - 1)

\* While a lease that was bound and acknowledged runs, the address is with no
\* other client: the three timers of a context (T1, T2 - T1, lease - T2) last as
\* long as the lease that SendAck wrote.  This is not so of the ACK to a client
\* that was rebooted (RequestReboot): it names a whole lease, and the context's
\* timer, be it that of a mere offer, runs on.
PromiseKept ==
    \A a \in DhcpAddrs : promise[a].left > 0 =>
        \A m \in Macs : srv.ctx[m].ip = a => m = promise[a].mac

\* A client of the emulator that believes in its lease (BOUND or RENEWING) has a
\* context with this address at the server, whatever was lost or repeated.
\* In REBINDING the client has no timer for the end of its lease.
ClientKnown ==
    \A m \in Clients : srv.up /\ cl[m].state \in {"bound", "renewing"} =>
        srv.ctx[m].ip = cl[m].host /\ srv.ctx[m].state \in {"bound", "renewing", "rebinding"}

\* GetFirst never takes the head of an empty list for an entry: "In case the pool
\* is empty, it will return an error" (dhcpsrv.go, GetFirst).
NoPoolPanic == ~srv.panic

\* The server keeps the leases it has bound, and a client of the emulator that believes in its
\* lease is known to the server: the two state machines never disagree on who has an address.
\* Clients of the emulator never ask after a reboot, so no ACK that only verifies reaches them.
LeaseSound == PromiseKept /\ ClientKnown
=============================================================================
