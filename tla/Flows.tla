------------------------------- MODULE Flows -------------------------------
(***************************************************************************)
(* The flow table, the source ports and the server callbacks of one        *)
(* client's TransportCtx, and the part of its sockets' lives they depend   *)
(* on: Dial, Listen, a first packet of a new flow, close.  What the        *)
(* sockets do with packets is in Tcp.  The code has the table once for     *)
(* IPv4 and once for IPv6, in the same words.                              *)
(*                                                                         *)
(* A flow's key is [remote, local, lport, proto], the remote with its      *)
(* port.  A call that panics makes ftpanic true.                           *)
(***************************************************************************)
EXTENDS Integers, FiniteSets, Functions

CONSTANTS
    PortMin, PortMax,   \* SRC_PORT_MIN, SRC_PORT_MAX
    PortSpace,          \* 2^16: ports are 0 .. PortSpace - 1
    Retry,              \* SRC_PORT_RETRY
    FixedPorts,         \* the source ports callers choose themselves ...
    FixedEnds,          \* ... and the remote ends they dial with them (mDNS: the group)
    ServerPorts,        \* the ports callers listen on
    Dialled,            \* the remote ends the client dials
    Callers,            \* the remote ends that send to the client
    Addrs,              \* the client's addresses over time
    Strays,             \* packets arrive for other addresses than the client's, too
    SockIds             \* bound: sockets at a time

ASSUME PortsAssumption == 0 < PortMin /\ PortMin <= PortMax /\ PortMax < PortSpace

\* a remote end has its port: the client does not dial an end it hears from
ASSUME EndsAssumption == Dialled \cap (FixedEnds \cup Callers) = {}

VARIABLES
    pool,       \* srcPortManager: [m: the ports taken, srcPort]
    ft,         \* the flow table: key -> socket
    so,         \* the sockets
    serverCb,   \* the <<port, protocol>> that are listened on
    addr,       \* Client.Ipv4, or "none"
    ftpanic

flowvars == <<pool, ft, so, serverCb, addr, ftpanic>>

Protos == {"tcp", "udp"}

Key(remote, local, lport, proto) == [remote |-> remote, local |-> local, lport |-> lport, proto |-> proto]

NoSock == [state |-> "none"]

-----------------------------------------------------------------------------
(***************************************************************************)
(* srcPortManager                                                          *)
(***************************************************************************)
IncPort(p) == LET q == (p + 1) % PortSpace IN IF q > PortMax THEN PortMin ELSE q

\* the port tried in the i-th round
Tried(first) == LET t[i \in 0..(Retry - 1)] == IF i = 0 THEN first ELSE IncPort(t[i - 1]) IN t

\* port is the first one tried that is free
FirstFree(p, port) ==
    \E i \in 0..(Retry - 1) :
        /\ port = Tried(p.srcPort)[i] /\ port \notin p.m
        /\ \A j \in 0..(i - 1) : Tried(p.srcPort)[j] \in p.m

\* the pool after it: an allocation moves on by one, without regard to PortMax
Take(p, port) == [m |-> p.m \cup {port}, srcPort |-> (port + 1) % PortSpace]

\* every port tried is taken: allocPort has moved on and gives none
NoneFree(p) == \A i \in 0..(Retry - 1) : Tried(p.srcPort)[i] \in p.m
MovedOn(p) == [p EXCEPT !.srcPort = IncPort(Tried(@)[Retry - 1])]

FreePort(p, port) == [p EXCEPT !.m = @ \ {port}]

-----------------------------------------------------------------------------
(***************************************************************************)
(* The flow table                                                          *)
(***************************************************************************)
AddFlow(key, s) == [k \in DOMAIN ft \cup {key} |-> IF k \in DOMAIN ft THEN ft[k] ELSE s]

RemoveFlow(key) == Restrict(ft, DOMAIN ft \ {key})

\* the entry is another socket's
Corrupted(key, s) == key \in DOMAIN ft /\ ft[key] # s

FlowInit ==
    /\ pool = [m |-> {}, srcPort |-> PortMin]
    /\ ft = <<>>
    /\ so = [s \in SockIds |-> NoSock]
    /\ serverCb = {}
    /\ addr = "none"
    /\ ftpanic = FALSE

Opened(k, alloc) == [state |-> "open", tuple |-> k, alloc |-> alloc]

\* Dial without a source port.  Port 0 is an error to the caller, who does not
\* give it back; nor does a client without address give back the port it took.
DialPort(s, remote, proto, port) ==
    LET k == Key(remote, addr, port, proto)
    IN /\ so[s].state = "none" /\ FirstFree(pool, port)
       /\ pool' = Take(pool, port)
       /\ IF port = 0 \/ addr = "none"
          THEN UNCHANGED <<ft, so>>
          ELSE /\ ft' = AddFlow(k, s)
               /\ so' = [so EXCEPT ![s] = Opened(k, TRUE)]
       /\ UNCHANGED <<serverCb, addr, ftpanic>>

DialRefused ==
    /\ NoneFree(pool)
    /\ pool' = MovedOn(pool)
    /\ UNCHANGED <<ft, so, serverCb, addr, ftpanic>>

\* Dial with a source port, which a caller does once for an end and a port
DialFixed(s, remote, proto, port) ==
    LET k == Key(remote, addr, port, proto)
    IN /\ so[s].state = "none" /\ addr # "none"
       /\ ~ \E t \in SockIds : so[t].state = "open" /\ so[t].tuple = k
       /\ ft' = AddFlow(k, s)
       /\ so' = [so EXCEPT ![s] = Opened(k, FALSE)]
       /\ UNCHANGED <<pool, serverCb, addr, ftpanic>>

\* addServerCb and removeServerCb
AddServerCb(port, proto) ==
    /\ <<port, proto>> \notin serverCb
    /\ serverCb' = serverCb \cup {<<port, proto>>}
    /\ UNCHANGED <<pool, ft, so, addr, ftpanic>>

RemoveServerCb(port, proto) ==
    /\ <<port, proto>> \in serverCb
    /\ serverCb' = serverCb \ {<<port, proto>>}
    /\ UNCHANGED <<pool, ft, so, addr, ftpanic>>

SocketTuple(k) == [k EXCEPT !.local = addr]

\* The first packet of a flow (a SYN if it is TCP) to a port that is listened on:
\* the table has it under the packet's key, the socket has the client's address.
\* The callback may refuse it.
NewFlow(s, remote, local, port, proto) ==
    LET k == Key(remote, local, port, proto)
    IN /\ so[s].state = "none" /\ addr # "none"
       /\ Strays \/ local = addr
       /\ k \notin DOMAIN ft /\ <<port, proto>> \in serverCb
       /\ ft' = AddFlow(k, s)
       /\ so' = [so EXCEPT ![s] = Opened(SocketTuple(k), FALSE)]
       /\ UNCHANGED <<pool, serverCb, addr, ftpanic>>

RemovalKeyNow(s) == [so[s].tuple EXCEPT !.local = addr]

\* removeFlowAssociation: the key of the tuple the socket was made with
RemovalKey(s) == so[s].tuple

\* UdpSocket.Close, and what TcpSocket.changeStateToClose does: the flow leaves the
\* table, and an allocated port is free again.  A closed socket is gone unless the
\* table still has it.
CloseSocket(s) ==
    LET k == RemovalKey(s)
    IN /\ so[s].state = "open"
       /\ ftpanic' = Corrupted(k, s)
       /\ ft' = RemoveFlow(k)
       /\ pool' = IF so[s].alloc THEN FreePort(pool, k.lport) ELSE pool
       /\ so' = [so EXCEPT ![s] = IF s \in Range(ft') THEN [@ EXCEPT !.state = "closed"] ELSE NoSock]
       /\ UNCHANGED <<serverCb, addr>>

\* the client's address is set, by RPC or by DHCP
NewAddr ==
    /\ addr' \in Addrs \ {addr}
    /\ UNCHANGED <<pool, ft, so, serverCb, ftpanic>>

FlowNext ==
    /\ ~ftpanic
    /\ \/ NewAddr \/ DialRefused
       \/ \E s \in SockIds : CloseSocket(s)
       \/ \E s \in SockIds, p \in Protos :
             \/ \E r \in Dialled, port \in 0..(PortSpace - 1) : DialPort(s, r, p, port)
             \/ \E r \in FixedEnds, f \in FixedPorts : DialFixed(s, r, p, f)
       \/ \E port \in ServerPorts, p \in Protos :
             \/ AddServerCb(port, p) \/ RemoveServerCb(port, p)
             \/ \E s \in SockIds, r \in Callers, l \in Addrs : NewFlow(s, r, l, port, p)

FlowSpec == FlowInit /\ [][FlowNext]_flowvars

-----------------------------------------------------------------------------
Open == {s \in SockIds : so[s].state = "open"}

\* A source port the pool gave out is one open socket's, and taken in the pool
\* until that socket closes, however often the ports went round and whichever
\* protocol uses them (allocPort, freePort, Close, changeStateToClose).
FlowPortOwned ==
    \A s \in Open : so[s].alloc =>
        /\ so[s].tuple.lport \in pool.m
        /\ \A t \in Open \ {s} : so[t].alloc => so[t].tuple.lport # so[s].tuple.lport

\* Packets of an open socket's conversation find it and no other, a closed one is
\* found by none, and so no close ends in the panic of removeFlow, over changes of
\* the client's address (dialCmn, handleRxCmnNewFlow, removeFlowAssociation).
FlowFound ==
    /\ ~ftpanic
    /\ Range(ft) = Open
    /\ \A s \in Open : so[s].tuple \in DOMAIN ft /\ ft[so[s].tuple] = s

\* Ports and flow table agree with the open sockets: each source port of the pool has one owner,
\* and each conversation finds its socket, until that socket closes.
FlowSound == FlowPortOwned /\ FlowFound
=============================================================================
