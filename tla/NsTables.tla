------------------------------- MODULE NsTables -------------------------------
(***************************************************************************)
(* The clients of one namespace: the MAC, IPv4 and IPv6 tables of          *)
(* emu/core/ns_ctx.go, the list of clients and its iterator.  Packets are  *)
(* dispatched by these tables, and DHCP and DHCPv6 change the addresses of *)
(* a client while it lives.                                                *)
(*                                                                         *)
(* A client is identified by its MAC, which is immutable.  A request that  *)
(* adds or removes several clients stops at the first error and keeps what *)
(* it did so far: it is a sequence of the actions below.                   *)
(***************************************************************************)
EXTENDS EpocIter

CONSTANTS
    Macs,        \* MACs of clients (not zero)
    Ipv4s,       \* IPv4 addresses (not zero)
    Ipv6s,       \* IPv6 addresses (not zero)
    Zero,        \* the zero address: none
    NoClient,    \* an absent entry of a table
    MaxEpoc      \* additions and removals considered (a bound)

ASSUME TableAssumption == Zero \notin Ipv4s /\ Zero \notin Ipv6s /\ NoClient \notin Macs

VARIABLES
    clientList,  \* clientHead, its epoc and its iterator
    mapMAC,      \* the MACs with an entry in the MAC table
    mapIpv4,     \* [Ipv4s -> client]
    mapIpv6,     \* [Ipv6s -> client]: static and DHCPv6 addresses share it
    ipv4, ipv6, dhcpv6,   \* the address fields of the client objects
    addClient, removeClient  \* counters of the namespace

tableVars == <<mapMAC, mapIpv4, mapIpv6, ipv4, ipv6, dhcpv6, addClient, removeClient>>
vars == <<clientList, tableVars>>

Addr4 == Ipv4s \cup {Zero}
Addr6 == Ipv6s \cup {Zero}

-----------------------------------------------------------------------------
\* set the entry of an address, which may be the zero address (no entry)
Put(map, a, m) == [x \in DOMAIN map |-> IF x = a THEN m ELSE map[x]]
Del(map, a) == Put(map, a, NoClient)
Has(map, a) == a \in DOMAIN map /\ map[a] # NoClient

\* ctx_client_add of one client, accepted by AddClient
AddClient(m, a4, a6) ==
    /\ clientList.epoc < MaxEpoc
    /\ m \notin mapMAC
    /\ ~Has(mapIpv4, a4)
    /\ ~Has(mapIpv6, a6)
    /\ mapMAC' = mapMAC \cup {m}
    /\ mapIpv4' = Put(mapIpv4, a4, m)
    /\ mapIpv6' = Put(mapIpv6, a6, m)
    /\ ipv4' = [ipv4 EXCEPT ![m] = a4]
    /\ ipv6' = [ipv6 EXCEPT ![m] = a6]
    /\ dhcpv6' = [dhcpv6 EXCEPT ![m] = Zero]
    /\ addClient' = addClient + 1
    /\ UNCHANGED removeClient
    /\ clientList' = Appended(clientList, m)

\* mutation of RemoveClient: the list changes and its epoc does not
RemoveClientUncounted(m) ==
    /\ m \in mapMAC
    /\ mapMAC' = mapMAC \ {m}
    /\ mapIpv4' = Del(mapIpv4, ipv4[m])
    /\ mapIpv6' = Del(Del(mapIpv6, ipv6[m]), dhcpv6[m])
    /\ removeClient' = removeClient + 1
    /\ UNCHANGED <<ipv4, ipv6, dhcpv6, addClient>>
    /\ clientList' = [clientList EXCEPT !.items = RemoveAt(@, Position(@, m))]

\* ctx_client_remove of one client
RemoveClient(m) ==
    /\ clientList.epoc < MaxEpoc
    /\ m \in mapMAC
    /\ mapMAC' = mapMAC \ {m}
    /\ mapIpv4' = Del(mapIpv4, ipv4[m])
    /\ mapIpv6' = Del(Del(mapIpv6, ipv6[m]), dhcpv6[m])
    /\ removeClient' = removeClient + 1
    /\ UNCHANGED <<ipv4, ipv6, dhcpv6, addClient>>
    /\ clientList' = Unlinked(clientList, m)

\* mutation of UpdateClientIpv4: the old entry stays when the new one is taken
UpdateClientIpv4Lazy(m, new) ==
    /\ m \in mapMAC
    /\ ipv4[m] # new
    /\ IF Has(mapIpv4, new)
       THEN /\ ipv4' = [ipv4 EXCEPT ![m] = Zero]
            /\ UNCHANGED mapIpv4
       ELSE /\ ipv4' = [ipv4 EXCEPT ![m] = new]
            /\ mapIpv4' = Put(Del(mapIpv4, ipv4[m]), new, m)
    /\ UNCHANGED <<mapMAC, mapIpv6, ipv6, dhcpv6, addClient, removeClient, clientList>>

\* UpdateClientIpv4, called by the DHCP plugin: the client loses its address
\* when the table lost it, or when another client has the new one
UpdateClientIpv4(m, new) ==
    /\ m \in mapMAC
    /\ ipv4[m] # new
    /\ LET old == ipv4[m]
           lost == old # Zero /\ ~Has(mapIpv4, old)
           dropped == Del(mapIpv4, old)
           taken == Has(dropped, new)
       IN  /\ ipv4' = [ipv4 EXCEPT ![m] = IF lost \/ taken THEN Zero ELSE new]
           /\ mapIpv4' = IF lost THEN mapIpv4
                         ELSE IF taken THEN dropped ELSE Put(dropped, new, m)
    /\ UNCHANGED <<mapMAC, mapIpv6, ipv6, dhcpv6, addClient, removeClient, clientList>>

\* the two IPv6 updates, of the static address and of the DHCPv6 one
Update6(m, old, new) ==
    LET lost == old # Zero /\ ~Has(mapIpv6, old)
        dropped == Del(mapIpv6, old)
        taken == Has(dropped, new)
    IN  [addr |-> IF lost \/ taken THEN Zero ELSE new,
         map |-> IF lost THEN mapIpv6
                 ELSE IF taken THEN dropped ELSE Put(dropped, new, m)]

UpdateClientIpv6(m, new) ==
    /\ m \in mapMAC
    /\ ipv6[m] # new
    /\ LET u == Update6(m, ipv6[m], new)
       IN  ipv6' = [ipv6 EXCEPT ![m] = u.addr] /\ mapIpv6' = u.map
    /\ UNCHANGED <<mapMAC, mapIpv4, ipv4, dhcpv6, addClient, removeClient, clientList>>

UpdateClientDIpv6(m, new) ==
    /\ m \in mapMAC
    /\ dhcpv6[m] # new
    /\ LET u == Update6(m, dhcpv6[m], new)
       IN  dhcpv6' = [dhcpv6 EXCEPT ![m] = u.addr] /\ mapIpv6' = u.map
    /\ UNCHANGED <<mapMAC, mapIpv4, ipv4, ipv6, addClient, removeClient, clientList>>

Init ==
    /\ clientList = EmptyList
    /\ mapMAC = {}
    /\ mapIpv4 = [a \in Ipv4s |-> NoClient]
    /\ mapIpv6 = [a \in Ipv6s |-> NoClient]
    /\ ipv4 = [m \in Macs |-> Zero]
    /\ ipv6 = [m \in Macs |-> Zero]
    /\ dhcpv6 = [m \in Macs |-> Zero]
    /\ addClient = 0 /\ removeClient = 0

ClientIter == IterRpc(clientList, clientList') /\ UNCHANGED tableVars

Next ==
    \/ \E m \in Macs :
          \/ \E a4 \in Addr4, a6 \in Addr6 : AddClient(m, a4, a6)
          \/ RemoveClient(m)
          \/ \E a \in Addr4 : UpdateClientIpv4(m, a)
          \/ \E a \in Addr6 : UpdateClientIpv6(m, a) \/ UpdateClientDIpv6(m, a)
    \/ ClientIter

Spec == Init /\ [][Next]_vars

-----------------------------------------------------------------------------
\* The tables, the list and the address fields of the clients keep their types.
TypeOK ==
    /\ mapMAC \subseteq Macs
    /\ mapIpv4 \in [Ipv4s -> Macs \cup {NoClient}]
    /\ mapIpv6 \in [Ipv6s -> Macs \cup {NoClient}]
    /\ ipv4 \in [Macs -> Addr4]
    /\ ipv6 \in [Macs -> Addr6]
    /\ dhcpv6 \in [Macs -> Addr6]

\* The IPv4 table and the address fields of the live clients agree both ways,
\* so no two clients share an address, a packet for an address finds its
\* owner, and the "Somthing is wrong" branches of the updates are dead.
Ipv4TableExact ==
    \A a \in Ipv4s, m \in Macs : mapIpv4[a] = m <=> (m \in mapMAC /\ ipv4[m] = a)

\* The same for the IPv6 table, which static and DHCPv6 addresses share; the
\* two addresses of one client differ.
Ipv6TableExact ==
    /\ \A a \in Ipv6s, m \in Macs :
          mapIpv6[a] = m <=> (m \in mapMAC /\ (ipv6[m] = a \/ dhcpv6[m] = a))
    /\ \A m \in mapMAC : ipv6[m] = dhcpv6[m] => ipv6[m] = Zero

\* The list of clients is the MAC table, and activeClient, which RemoveNs
\* relies on, is its size.
ListIsTable ==
    /\ IsInjective(clientList.items)
    /\ Range(clientList.items) = mapMAC
    /\ addClient - removeClient = Len(clientList.items)

\* A client of the RPC interface that goes on with its iteration is given every client of the
\* namespace once, or is told that the list has changed (ctx_client_iter).
IterSound == AnswersSound(clientList)

\* The tables by MAC, IPv4 and IPv6 address, the list and the counters of a namespace agree with
\* the clients that live in it.
TablesExact == Ipv4TableExact /\ Ipv6TableExact /\ ListIsTable
=============================================================================
