------------------------------- MODULE ArpTable -------------------------------
(***************************************************************************)
(* The ARP plugin (emu/plugins/arp/arp.go): the table of a namespace that  *)
(* maps the IPv4 addresses seen outside to MAC addresses.  The clients     *)
(* that use an address as their gateway are linked to its flow, which      *)
(* counts them; the timer of a flow queries, refreshes and expires it.     *)
(*                                                                         *)
(* Everything runs on the main thread, so a handler is one action; what    *)
(* interleaves is timers, RPC commands, address updates (DHCP), packets,   *)
(* and the queries and replies on the wire, which may be lost.             *)
(*                                                                         *)
(* Abstractions: which MAC was learned is left out, a flow is resolved or  *)
(* not; the list of a flow is a set, so that the first of it is any; the   *)
(* replies for addresses of our own clients change no state; timers fire   *)
(* in any order, whatever their ticks.                                     *)
(***************************************************************************)
EXTENDS Naturals, Sequences, FiniteSets

CONSTANTS
    Clients, Gateways,
    NoDg,       \* the address 0.0.0.0, and a nil pointer
    Forced,     \* the clients with ForceDGW
    ForcedDgs,  \* the gateways a client with ForceDGW is created with
    TakenDgs,   \* the gateways of a client that is given an address in use
    MaxIndex,   \* len(defaultRetryTimerSec) - 1
    ArpCounts      \* the counts of the iteration command

ASSUME ArpAssumption ==
    /\ IsFiniteSet(Clients) /\ NoDg \notin Gateways
    /\ MaxIndex \in Nat /\ MaxIndex > 2
    /\ ArpCounts \subseteq Nat

VARIABLES
    alive,      \* the namespace has its ARP plugin
    plugged,    \* [Clients -> BOOLEAN]: the client has its ARP plugin
    src,        \* [Clients -> BOOLEAN]: Client.Ipv4 is not zero
    dg,         \* Client.DgIpv4
    dgw,        \* Client.DGW: the flow it points into
    flow,       \* tbl: [Gateways -> Flow]
    list,       \* head: the flows in the order they were added
    activeIter, arpIterReady,
    failed,     \* a panic, or a node was linked that was linked already
    pend,       \* the addresses with a query on the wire
    asked,      \* queries of the timer since the flow was heard of (a history)
    due         \* flows the iteration has still to return (a history)

clientVars == <<plugged, src, dg>>
arpIterVars == <<activeIter, arpIterReady, due>>
arpVars == <<alive, clientVars, dgw, flow, list, arpIterVars, failed, pend, asked>>

States == {"none", "learned", "incomplete", "complete", "refresh"}
Addr == Gateways \cup {NoDg}
NoFlow == [state |-> "none", refc |-> 0, head |-> {}, resolved |-> FALSE,
           touch |-> FALSE, index |-> 0, timer |-> FALSE]
Exists(ip) == flow[ip].state # "none"
Up == alive /\ ~failed

-----------------------------------------------------------------------------
(* ArpFlowTable *)

\* GetNextTicks: the index of the next entry of defaultRetryTimerSec
NextIndex(i) == IF i < MaxIndex THEN i + 1 ELSE MaxIndex

\* AddNew
NewLearned == [state |-> "learned", refc |-> 0, head |-> {}, resolved |-> TRUE,
               touch |-> FALSE, index |-> 0, timer |-> TRUE]
NewIncomplete(c) == [state |-> "incomplete", refc |-> 1, head |-> {c}, resolved |-> FALSE,
                     touch |-> FALSE, index |-> NextIndex(0), timer |-> TRUE]

MoveToLearn(f) == [f EXCEPT !.state = "learned", !.touch = FALSE]
MoveToComplete(f) == [f EXCEPT !.state = "complete", !.touch = FALSE]

\* AssociateClient and AssociateWithClient
Associated(f, c) ==
    LET g == [f EXCEPT !.head = @ \cup {c}, !.refc = @ + 1]
    IN  IF f.state = "none" THEN NewIncomplete(c)
        ELSE IF f.state = "learned" THEN MoveToComplete(g) ELSE g

\* DisassociateClient
Disassociated(f, c) ==
    LET g == [f EXCEPT !.head = @ \ {c}, !.refc = @ - 1]
    IN  IF f.state = "none" THEN f ELSE IF f.refc = 1 THEN MoveToLearn(g) ELSE g

-----------------------------------------------------------------------------
(* PluginArpClient *)

\* the panics of DisassociateClient
DisassociateFails(f, c) ==
    /\ f.state # "none"
    /\ \/ f.refc = 0
       \/ f.refc = 1 /\ (f.head \ {c} # {} \/ ~f.timer)
       \/ f.refc > 1 /\ f.head \ {c} = {}

\* the panics of AssociateWithClient; AddLast of a node that is still linked
AssociateFails(f, c, out) ==
    \/ f.state = "learned" /\ (f.refc # 0 \/ ~f.timer)
    \/ \E ip \in Gateways \ {out} : c \in flow[ip].head

\* mutation of OnChangeDGSrcIPv4: a client with a new gateway keeps the old one
ChangeKeepsOld(c, out, in) ==
    /\ flow' = [ip \in Gateways |->
                  CASE ip = in -> Associated(flow[ip], c)
                    [] ip = out /\ in = NoDg -> Disassociated(flow[ip], c)
                    [] OTHER -> flow[ip]]
    /\ failed' = FALSE
    /\ list' = IF in # NoDg /\ ~Exists(in) THEN Append(list, in) ELSE list
    /\ pend' = pend \cup ({in} \ {NoDg})
    /\ dgw' = [dgw EXCEPT ![c] = in]

\* the client leaves the flow of out, then joins the one of in (NoDg: none of
\* it, out and in are never the same flow); to join sends a GARP and a query
OnChangeDGSrcIPv4(c, out, in) ==
    /\ flow' = [ip \in Gateways |->
                  CASE ip = in -> Associated(flow[ip], c)
                    [] ip = out -> Disassociated(flow[ip], c)
                    [] OTHER -> flow[ip]]
    /\ failed' = (\/ out # NoDg /\ DisassociateFails(flow[out], c)
                  \/ in # NoDg /\ AssociateFails(flow[in], c, out))
    /\ list' = IF in # NoDg /\ ~Exists(in) THEN Append(list, in) ELSE list
    /\ pend' = pend \cup ({in} \ {NoDg})
    /\ dgw' = IF out = NoDg /\ in = NoDg THEN dgw ELSE [dgw EXCEPT ![c] = in]

If(b, ip) == IF b THEN ip ELSE NoDg

\* NewArpClient: creates the plugin of the namespace if it has none; OnCreate
\* leaves a client with ForceDGW alone
NewArpClient(c, s, d) ==
    /\ ~failed /\ ~plugged[c]
    /\ \A ip \in Gateways : c \notin flow[ip].head    \* a new object
    /\ c \in Forced => d \in ForcedDgs
    /\ alive' = TRUE
    /\ plugged' = [plugged EXCEPT ![c] = TRUE]
    /\ src' = [src EXCEPT ![c] = s]
    /\ dg' = [dg EXCEPT ![c] = d]
    /\ OnChangeDGSrcIPv4(c, NoDg, If(s /\ c \notin Forced, d))
    /\ UNCHANGED <<arpIterVars, asked>>

\* OnRemove; the addresses go with the client
RemoveArpClient(c) ==
    /\ Up /\ plugged[c]
    /\ plugged' = [plugged EXCEPT ![c] = FALSE]
    /\ src' = [src EXCEPT ![c] = FALSE]
    /\ dg' = [dg EXCEPT ![c] = NoDg]
    /\ OnChangeDGSrcIPv4(c, If(src[c], dg[c]), NoDg)
    /\ UNCHANGED <<alive, arpIterVars, asked>>

\* OnEvent(MSG_UPDATE_IPV4_ADDR): the address was or becomes zero
UpdateIPv4(c) ==
    /\ Up /\ plugged[c]
    /\ src' = [src EXCEPT ![c] = ~@]
    /\ OnChangeDGSrcIPv4(c, If(src[c], dg[c]), If(~src[c], dg[c]))
    /\ UNCHANGED <<alive, plugged, dg, arpIterVars, asked>>

\* UpdateClientIpv4 when another client has the new address: no event
UpdateIPv4Taken(c) ==
    /\ Up /\ plugged[c]
    /\ dg[c] \in TakenDgs
    /\ src' = [src EXCEPT ![c] = FALSE]
    /\ UNCHANGED <<alive, plugged, dg, dgw, flow, list, arpIterVars, failed, pend, asked>>

\* OnEvent(MSG_UPDATE_DGIPV4_ADDR)
UpdateDgIPv4(c, d) ==
    /\ Up /\ plugged[c] /\ d # dg[c]
    /\ dg' = [dg EXCEPT ![c] = d]
    /\ OnChangeDGSrcIPv4(c, If(src[c], dg[c]), If(src[c], d))
    /\ UNCHANGED <<alive, plugged, src, arpIterVars, asked>>

\* onTimerUpdate: a query every timerSec
PeriodicQuery(c) ==
    /\ Up /\ plugged[c] /\ dg[c] # NoDg
    /\ pend' = pend \cup {dg[c]}
    /\ UNCHANGED <<alive, clientVars, dgw, flow, list, arpIterVars, failed, asked>>

-----------------------------------------------------------------------------
(* packets *)

\* ArpLearn of a flow, or a new one
Learned(f) ==
    IF f.state = "none" THEN NewLearned
    ELSE IF f.state \in {"learned", "complete"} THEN [f EXCEPT !.resolved = TRUE, !.touch = TRUE]
    ELSE MoveToComplete([f EXCEPT !.resolved = TRUE])

\* ArpLearn of the namespace
Learn(ip) ==
    /\ Up
    /\ flow' = [flow EXCEPT ![ip] = Learned(@)]
    /\ failed' = (flow[ip].state \in {"incomplete", "refresh"} /\ ~flow[ip].timer)
    /\ list' = IF Exists(ip) THEN list ELSE Append(list, ip)
    /\ asked' = [asked EXCEPT ![ip] = 0]
    /\ UNCHANGED <<alive, clientVars, dgw, arpIterVars>>

\* HandleRxArpPacket: a request of ip, or a reply nobody asked for
Request(ip) == Learn(ip) /\ UNCHANGED pend

Reply(ip) == ip \in pend /\ Learn(ip) /\ pend' = pend \ {ip}

\* the network drops a query or its reply
Lose(ip) ==
    /\ ip \in pend
    /\ pend' = pend \ {ip}
    /\ UNCHANGED <<alive, clientVars, dgw, flow, list, arpIterVars, failed, asked>>

-----------------------------------------------------------------------------
(* OnEvent, the timer of a flow: the wheel has taken it off *)

Fires(ip, state) == Up /\ flow[ip].timer /\ flow[ip].state = state

\* mutation of SendQuery: no more at the end of the retry table
SendQueryBounded(ip) ==
    /\ \E c \in flow[ip].head :
          pend' = IF flow[ip].index = MaxIndex THEN pend ELSE pend \cup ({dg[c]} \ {NoDg})
    /\ asked' = [asked EXCEPT ![ip] = IF @ < 3 THEN @ + 1 ELSE @]
    /\ UNCHANGED failed

\* SendQuery: the first client of the flow asks for its gateway
SendQuery(ip) ==
    /\ IF flow[ip].head = {} THEN failed' = TRUE /\ UNCHANGED pend
       ELSE /\ \E c \in flow[ip].head : pend' = pend \cup ({dg[c]} \ {NoDg})
            /\ UNCHANGED failed
    /\ asked' = [asked EXCEPT ![ip] = IF @ < 3 THEN @ + 1 ELSE @]

\* where the flow is in the list
Place(ip) == CHOOSE j \in 1..Len(list) : list[j] = ip

\* the flow at a place; NoDg is the head of the list, which ends it
At(i) == IF i > Len(list) THEN NoDg ELSE list[i]

\* DList.RemoveNode of the k-th node
RemoveNode(nodes, k) == SubSeq(nodes, 1, k - 1) \o SubSeq(nodes, k + 1, Len(nodes))

\* mutation of OnDeleteFlow: the iterator is not looked at
OnDeleteFlowBlind(ip) ==
    /\ list' = RemoveNode(list, Place(ip))
    /\ flow' = [flow EXCEPT ![ip] = NoFlow]
    /\ failed' = (flow[ip].refc # 0)
    /\ asked' = [asked EXCEPT ![ip] = 0]
    /\ due' = due \ {ip}
    /\ UNCHANGED <<activeIter, arpIterReady, pend>>

OnDeleteFlow(ip) ==
    /\ activeIter' = IF activeIter = ip THEN At(Place(ip) + 1) ELSE activeIter
    /\ list' = RemoveNode(list, Place(ip))
    /\ flow' = [flow EXCEPT ![ip] = NoFlow]
    /\ failed' = (flow[ip].refc # 0)
    /\ asked' = [asked EXCEPT ![ip] = 0]
    /\ due' = due \ {ip}
    /\ UNCHANGED <<arpIterReady, pend>>

\* heard of since: for another period, else removed
LearnedEvent(ip) ==
    /\ Fires(ip, "learned")
    /\ IF flow[ip].touch
       THEN /\ flow' = [flow EXCEPT ![ip].touch = FALSE]
            /\ UNCHANGED <<list, arpIterVars, failed, pend, asked>>
       ELSE OnDeleteFlow(ip)
    /\ UNCHANGED <<alive, clientVars, dgw>>

Retried(f) == [f EXCEPT !.index = NextIndex(@), !.timer = TRUE]

IncompleteEvent(ip) ==
    /\ Fires(ip, "incomplete")
    /\ flow' = [flow EXCEPT ![ip] = Retried(@)]
    /\ SendQuery(ip)
    /\ UNCHANGED <<alive, clientVars, dgw, list, arpIterVars>>

\* mutation of Refreshed: the old MAC is dropped a query early
RefreshedOnce(f) ==
    LET g == Retried(f)
    IN  IF g.index > 1 THEN [g EXCEPT !.state = "incomplete", !.resolved = FALSE]
        ELSE [g EXCEPT !.state = "refresh"]

\* handleRefreshState: after some queries the old data is not used
Refreshed(f) ==
    LET g == Retried(f)
    IN  IF g.index > 2 THEN [g EXCEPT !.state = "incomplete", !.resolved = FALSE]
        ELSE [g EXCEPT !.state = "refresh"]

RefreshEvent(ip) ==
    /\ Fires(ip, "refresh")
    /\ flow' = [flow EXCEPT ![ip] = Refreshed(@)]
    /\ SendQuery(ip)
    /\ UNCHANGED <<alive, clientVars, dgw, list, arpIterVars>>

CompleteEvent(ip) ==
    /\ Fires(ip, "complete")
    /\ IF flow[ip].touch
       THEN /\ flow' = [flow EXCEPT ![ip].touch = FALSE]
            /\ UNCHANGED <<failed, pend, asked>>
       ELSE /\ flow' = [flow EXCEPT ![ip] = Refreshed([@ EXCEPT !.index = 0])]
            /\ SendQuery(ip)
    /\ UNCHANGED <<alive, clientVars, dgw, list, arpIterVars>>

TimerFires(ip) ==
    LearnedEvent(ip) \/ IncompleteEvent(ip) \/ CompleteEvent(ip) \/ RefreshEvent(ip)

-----------------------------------------------------------------------------
(* the namespace *)

\* where the iterator is in the list
Pos(it) == IF it = NoDg THEN Len(list) + 1 ELSE Place(it)

\* ApiArpNsIterHandler: IterReset if asked, then GetNext of at most n flows
Iterate(reset, n) ==
    /\ Up
    /\ LET first == IF reset THEN 1 ELSE Pos(activeIter)
           ready == IF reset THEN list # <<>> ELSE arpIterReady
           next == IF ~ready THEN first
                   ELSE IF first + n > Len(list) THEN Len(list) + 1 ELSE first + n
           todo == IF reset THEN {list[i] : i \in 1..Len(list)} ELSE due
       IN  /\ reset \/ ready
           /\ activeIter' = At(next)
           /\ arpIterReady' = (ready /\ next <= Len(list))
           /\ due' = todo \ {list[i] : i \in first..next - 1}
    /\ UNCHANGED <<alive, clientVars, dgw, flow, list, failed, pend, asked>>

\* OnRemoveFlow
Stopped(f) == NoFlow

\* the namespace, which has no clients, is removed with its plugin
RemoveArpNs ==
    /\ Up /\ \A c \in Clients : ~plugged[c]
    /\ alive' = FALSE
    /\ flow' = [ip \in Gateways |-> Stopped(flow[ip])]
    /\ list' = <<>> /\ activeIter' = NoDg /\ arpIterReady' = FALSE /\ due' = {}
    /\ asked' = [ip \in Gateways |-> 0]
    /\ UNCHANGED <<clientVars, dgw, failed, pend>>

-----------------------------------------------------------------------------
ArpInit ==
    /\ alive = FALSE
    /\ plugged = [c \in Clients |-> FALSE]
    /\ src = [c \in Clients |-> FALSE]
    /\ dg = [c \in Clients |-> NoDg]
    /\ dgw = [c \in Clients |-> NoDg]
    /\ flow = [ip \in Gateways |-> NoFlow]
    /\ list = <<>> /\ activeIter = NoDg /\ arpIterReady = FALSE
    /\ failed = FALSE /\ pend = {}
    /\ asked = [ip \in Gateways |-> 0] /\ due = {}

ArpNext ==
    \/ \E c \in Clients, s \in BOOLEAN, d \in Addr : NewArpClient(c, s, d)
    \/ \E c \in Clients : RemoveArpClient(c) \/ UpdateIPv4(c) \/ UpdateIPv4Taken(c) \/ PeriodicQuery(c)
    \/ \E c \in Clients, d \in Addr : UpdateDgIPv4(c, d)
    \/ \E ip \in Gateways : Request(ip) \/ Reply(ip) \/ Lose(ip) \/ TimerFires(ip)
    \/ \E reset \in BOOLEAN, n \in ArpCounts : Iterate(reset, n)
    \/ RemoveArpNs

\* The wheel fires the timers, and a gateway that is asked again and again
\* answers in the end.
ArpSpec ==
    /\ ArpInit /\ [][ArpNext]_arpVars
    /\ \A ip \in Gateways : WF_arpVars(TimerFires(ip)) /\ SF_arpVars(Reply(ip))

-----------------------------------------------------------------------------
Flow == [state : States, refc : Nat, head : SUBSET Clients, resolved : BOOLEAN,
         touch : BOOLEAN, index : 0..MaxIndex, timer : BOOLEAN]

\* The fields keep their ranges; the list has each flow of the table once.
ArpTypeOK ==
    /\ alive \in BOOLEAN /\ plugged \in [Clients -> BOOLEAN] /\ src \in [Clients -> BOOLEAN]
    /\ dg \in [Clients -> Addr] /\ dgw \in [Clients -> Addr]
    /\ flow \in [Gateways -> Flow]
    /\ list \in Seq(Gateways)
    /\ activeIter \in Addr /\ arpIterReady \in BOOLEAN /\ failed \in BOOLEAN
    /\ pend \subseteq Gateways /\ asked \in [Gateways -> 0..3] /\ due \subseteq Gateways

\* the gateway the client has to be linked to
Gateway(c) == If(plugged[c] /\ src[c], dg[c])

\* A flow is linked to exactly the clients that use its address as their
\* gateway, counts them, and is in the learned state exactly when there are
\* none; every client points into the flow of its gateway.
LinksExact ==
    /\ \A ip \in Gateways :
          LET f == flow[ip]
          IN  /\ f.head = {c \in Clients : Gateway(c) = ip}
              /\ f.refc = Cardinality(f.head)
              /\ f.head = {} <=> f.state \in {"none", "learned"}
    /\ \A c \in Clients : dgw[c] = Gateway(c)

\* The timer of every flow in the table runs, and no other: also when the
\* plugin of the namespace is removed.
TimersExact == \A ip \in Gateways : flow[ip].timer <=> Exists(ip)

\* None of the panics of the plugin is reached, and no node is linked twice.
NoPanic == ~failed

\* Whatever is learned or expires between the commands of an iteration, each
\* flow that was in the table when it began and still is has been returned or
\* is ahead of the iterator; when the iteration ends none is missing.
IterComplete ==
    /\ activeIter = NoDg \/ \E i \in 1..Len(list) : list[i] = activeIter
    /\ due \subseteq {list[i] : i \in Pos(activeIter)..Len(list)}
    /\ ~arpIterReady => due = {}

\* While a flow has clients its MAC is given up only after three queries of
\* its timer in a row were not answered.
MacKept ==
    [][\A ip \in Gateways :
          flow[ip].resolved /\ Exists(ip)' /\ ~flow'[ip].resolved => asked'[ip] >= 3]_arpVars

\* A client with an address and a gateway that answers some of the queries
\* gets the MAC of the gateway, whatever happened to the flow before.
EventuallyResolved ==
    \A c \in Clients, ip \in Gateways :
        dgw[c] = ip ~> (dgw[c] # ip \/ flow[ip].resolved)

\* Links, reference counts and timers of the ARP flows are those of the clients, and so none of
\* the panics of the plugin is reached.
FlowsExact == LinksExact /\ TimersExact /\ NoPanic
=============================================================================
