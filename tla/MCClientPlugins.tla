--------------------------- MODULE MCClientPlugins ---------------------------
(***************************************************************************)
(* DHCP and the small parts of a client's plugins for TLC.  focus says     *)
(* which of them runs: they share no state, so each is explored on its     *)
(* own.  DHCP runs in two ways.  "dhcp_any": the server faces clients that *)
(* send every message of AnyMsgs at any time, and is removed.  "dhcp_net": *)
(* the server and the clients of the emulator talk over a network that     *)
(* loses, reorders and repeats.                                            *)
(***************************************************************************)
EXTENDS Dhcp, Dhcpv6, Dot1x, Flows

CONSTANT Focus
VARIABLE focus

D6(type, server, ok, iana, a, t1, t2) ==
    [type |-> type, srv |-> server, ok |-> ok, iana |-> iana, addr |-> a, t1 |-> t1, t2 |-> t2]

MCD6Msgs ==
    {D6("advertise", s, ok, "addr", "a", 0, 0) : s \in {"s1", "s2"}, ok \in BOOLEAN}
      \cup {D6("reply", s, TRUE, "addr", a, t[1], t[2]) :
              s \in {"s1", "s2"}, a \in {"a", "b"}, t \in {<<0, 0>>, <<2, 2>>, <<2, 1>>}}
      \cup {D6("reply", s, TRUE, i, "none", 0, 0) : s \in {"s1", "s2"}, i \in {"none", "bad", "bare"}}
      \cup {D6("reply", "s1", FALSE, i, "a", 0, 0) : i \in {"addr", "none"}}

MCClients == {"c1", "c2"}
MCMacs == {"c1", "c2", "f1"}
MCPools == <<[net |-> 0, size |-> 8, min |-> 0, max |-> 4, excl |-> {2}]>>

Foreign(t, m, gi, ci, req, sid, l) ==
    [type |-> t, mac |-> m, gi |-> gi, ci |-> ci, req |-> req, sid |-> sid, lease |-> l]

MCAnyMsgs ==
    UNION {{Foreign("discover", m, gi, 0, r, 0, l) : gi \in {0, 3}, r \in {0, 3, 7}, l \in {0, 5}}
      \cup {Foreign("request", m, 0, 0, r, 7, 0) : r \in {1, 3, 4}}
      \cup {Foreign("request", m, 0, 0, r, 0, 0) : r \in {1, 3, 4}}
      \cup {Foreign("request", m, 0, r, 0, 0, l) : r \in {1, 3, 4}, l \in {0, 5}}
      \cup {Foreign("release", m, 0, r, 0, 7, 0) : r \in {1, 3, 4}}
      \cup {Foreign("decline", m, 0, 0, r, 7, 0) : r \in {1, 3, 4}} : m \in MCMacs}

MCInit ==
    /\ focus \in Focus
    /\ DhcpInit /\ D6Init /\ X1Init /\ FlowInit

smallVars == <<d6vars, x1vars, flowvars>>

MCNext ==
    \/ focus = "dhcp_any" /\ UNCHANGED <<focus, smallVars>>
         /\ \/ \E m \in AnyMsgs : ForeignMessage(m)
            \/ \E ms \in SUBSET Macs : ServerRemoved(ms)
    \/ focus = "dhcp_net" /\ UNCHANGED <<focus, smallVars>>
         /\ \/ \E m \in dnet, kept \in BOOLEAN : ServerReceives(m, kept)
            \/ \E m \in Clients : CreateClient(m) \/ RemoveClient(m) \/ ClientTimer(m)
            \/ \E m \in Clients : \E msg \in dnet, kept \in BOOLEAN : ClientReceives(m, msg, kept)
    \/ focus \in {"dhcp_any", "dhcp_net"} /\ UNCHANGED <<focus, smallVars>>
         /\ (Second \/ \E m \in Macs : ServerTimer(m))
    \/ focus = "dhcpv6" /\ D6Next /\ UNCHANGED <<focus, dhcpVars, x1vars, flowvars>>
    \/ focus = "dot1x" /\ X1Next /\ UNCHANGED <<focus, dhcpVars, d6vars, flowvars>>
    \/ focus = "flows" /\ FlowNext /\ UNCHANGED <<focus, dhcpVars, d6vars, x1vars>>

MCSpec == MCInit /\ [][MCNext]_<<focus, dhcpVars, smallVars>>
=============================================================================
