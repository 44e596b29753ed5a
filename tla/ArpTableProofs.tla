---------------------------- MODULE ArpTableProofs ----------------------------
(***************************************************************************)
(* For any clients, gateways, retry table and counts of the iteration:     *)
(*                                                                         *)
(* - as long as no client with ForceDGW is created with a gateway and no   *)
(*   client with a gateway is given an address in use, the links of the    *)
(*   ARP table are exact and none of the panics of the plugin is reached;  *)
(* - a MAC is given up only after three queries without an answer, and the *)
(*   iteration misses no flow; both hold whatever the links are.           *)
(*                                                                         *)
(* The argument for the links: what a client is linked to is determined by *)
(* its own fields (Gateway), so the users of a flow are a set computed     *)
(* from the clients; each operation on one flow keeps FlowOK with respect  *)
(* to the set of its users.  FlowOK includes the timer, whose absence      *)
(* panics.  For the MACs the index of a flow that is refreshed is bounded  *)
(* by the queries since it was heard of (KeepOK); for the iteration the    *)
(* flows still due are never before the iterator (IterOK).                 *)
(***************************************************************************)
EXTENDS ArpTable, FiniteSetTheorems, TLAPS

\* the flow is as it has to be when H are the clients that use it
FlowOK(f, H) ==
    /\ f \in Flow
    /\ f.head = H
    /\ f.refc = Cardinality(H)
    /\ H = {} <=> f.state \in {"none", "learned"}
    /\ f.timer <=> f.state # "none"

Users(ip) == {c \in Clients : Gateway(c) = ip}

IInv ==
    /\ plugged \in [Clients -> BOOLEAN] /\ src \in [Clients -> BOOLEAN]
    /\ dg \in [Clients -> Addr] /\ dgw \in [Clients -> Addr]
    /\ DOMAIN flow = Gateways /\ flow = [ip \in Gateways |-> flow[ip]]
    /\ \A ip \in Gateways : FlowOK(flow[ip], Users(ip))
    /\ \A c \in Clients : dgw[c] = Gateway(c)
    /\ ~failed

USE ArpAssumption

-----------------------------------------------------------------------------
\* Sets of clients are finite: what Cardinality says of one more, one less.
LEMMA ClientSets ==
    ASSUME NEW H \in SUBSET Clients
    PROVE  /\ Cardinality(H) \in Nat
           /\ H = {} <=> Cardinality(H) = 0
           /\ \A c \in Clients \ H : Cardinality(H \cup {c}) = Cardinality(H) + 1
           /\ \A c \in H : Cardinality(H \ {c}) = Cardinality(H) - 1
<1>1. IsFiniteSet(H)
  BY FS_Subset
<1> QED
  BY <1>1, FS_CardinalityType, FS_EmptySet, FS_AddElement, FS_RemoveElement

\* GetNextTicks stays inside the retry table.
LEMMA IndexInTable == \A i \in 0..MaxIndex : NextIndex(i) \in 0..MaxIndex
BY DEF NextIndex

\* The fields of a flow that moves to another state.
LEMMA Moved ==
    ASSUME NEW f \in Flow, NEW s \in States
    PROVE  LET g == [f EXCEPT !.state = s, !.touch = FALSE]
           IN  g \in Flow /\ g.state = s /\ g.head = f.head /\ g.refc = f.refc /\ (g.timer <=> f.timer)
BY DEF Flow

\* AssociateClient keeps a flow exact, with one more user.
LEMMA AssociateOK ==
    ASSUME NEW f, NEW H \in SUBSET Clients, FlowOK(f, H), NEW c \in Clients \ H
    PROVE  /\ FlowOK(Associated(f, c), H \cup {c})
           /\ ~(f.state = "learned" /\ (f.refc # 0 \/ ~f.timer))
<1>1. /\ Cardinality(H) \in Nat /\ Cardinality(H \cup {c}) = Cardinality(H) + 1
      /\ H = {} <=> Cardinality(H) = 0
  BY ClientSets
<1> DEFINE g == [f EXCEPT !.head = H \cup {c}, !.refc = Cardinality(H) + 1]
<1>5. /\ g \in Flow /\ g.head = H \cup {c} /\ g.refc = Cardinality(H) + 1
      /\ g.state = f.state /\ (g.timer <=> f.timer)
  <2>1. Cardinality(H) + 1 \in Nat /\ H \cup {c} \in SUBSET Clients
    BY <1>1
  <2>2. f \in Flow
    BY DEF FlowOK
  <2> QED
    BY <2>1, <2>2 DEF Flow
<1>2. CASE f.state = "none"
  <2>1. Associated(f, c) = NewIncomplete(c)
    BY <1>2 DEF Associated
  <2>2. H = {} /\ Cardinality(H \cup {c}) = 1 /\ H \cup {c} = {c}
    BY <1>1, <1>2 DEF FlowOK
  <2>3. NextIndex(0) \in 0..MaxIndex
    BY IndexInTable
  <2>4. NewIncomplete(c) = [state |-> "incomplete", refc |-> 1, head |-> {c},
            resolved |-> FALSE, touch |-> FALSE, index |-> NextIndex(0), timer |-> TRUE]
    BY DEF NewIncomplete, NoFlow
  <2>5. NewIncomplete(c) \in Flow
    BY <2>3, <2>4 DEF Flow, States
  <2> QED
    BY <1>2, <2>1, <2>2, <2>4, <2>5 DEF FlowOK
<1>3. CASE f.state = "learned"
  <2>1. Associated(f, c) = [g EXCEPT !.state = "complete", !.touch = FALSE]
    BY <1>3 DEF Associated, FlowOK, MoveToComplete
  <2> DEFINE k == [g EXCEPT !.state = "complete", !.touch = FALSE]
  <2>2. k \in Flow /\ k.state = "complete" /\ k.head = g.head /\ k.refc = g.refc /\ (k.timer <=> g.timer)
    BY <1>5, Moved DEF States
  <2> HIDE DEF g, k
  <2> QED
    BY <1>1, <1>3, <1>5, <2>1, <2>2 DEF FlowOK, k
<1>4. CASE f.state \notin {"none", "learned"}
  <2>1. Associated(f, c) = g
    BY <1>4 DEF Associated, FlowOK
  <2> HIDE DEF g
  <2> QED
    BY <1>1, <1>4, <1>5, <2>1 DEF FlowOK
<1> QED
  BY <1>2, <1>3, <1>4

\* DisassociateClient keeps a flow exact, with one user less, and none of its
\* panics is reached.
LEMMA DisassociateOK ==
    ASSUME NEW f, NEW H \in SUBSET Clients, FlowOK(f, H), NEW c \in H
    PROVE  FlowOK(Disassociated(f, c), H \ {c}) /\ ~DisassociateFails(f, c)
<1>1. /\ Cardinality(H) \in Nat /\ Cardinality(H \ {c}) = Cardinality(H) - 1
      /\ Cardinality(H) # 0
      /\ H \ {c} = {} <=> Cardinality(H \ {c}) = 0
  BY ClientSets
<1>2. f.state \notin {"none", "learned"} /\ f.timer /\ f.refc = Cardinality(H)
  BY DEF FlowOK
<1> DEFINE g == [f EXCEPT !.head = H \ {c}, !.refc = Cardinality(H) - 1]
<1>3. ~DisassociateFails(f, c)
  BY <1>1, <1>2 DEF FlowOK, DisassociateFails
<1>6. /\ g \in Flow /\ g.head = H \ {c} /\ g.refc = Cardinality(H) - 1
      /\ g.state = f.state /\ (g.timer <=> f.timer)
  <2>1. Cardinality(H) - 1 \in Nat /\ H \ {c} \in SUBSET Clients
    BY <1>1
  <2>2. f \in Flow
    BY DEF FlowOK
  <2> QED
    BY <2>1, <2>2 DEF Flow
<1>4. CASE f.refc = 1
  <2>1. Disassociated(f, c) = [g EXCEPT !.state = "learned", !.touch = FALSE]
    BY <1>2, <1>4 DEF Disassociated, FlowOK, MoveToLearn
  <2> DEFINE k == [g EXCEPT !.state = "learned", !.touch = FALSE]
  <2>2. k \in Flow /\ k.state = "learned" /\ k.head = g.head /\ k.refc = g.refc /\ (k.timer <=> g.timer)
    BY <1>6, Moved DEF States
  <2> HIDE DEF g, k
  <2> QED
    BY <1>1, <1>2, <1>3, <1>4, <1>6, <2>1, <2>2 DEF FlowOK, k
<1>5. CASE f.refc # 1
  <2>1. Disassociated(f, c) = g
    BY <1>2, <1>5 DEF Disassociated, FlowOK
  <2> HIDE DEF g
  <2> QED
    BY <1>1, <1>2, <1>3, <1>5, <1>6, <2>1 DEF FlowOK
<1> QED
  BY <1>4, <1>5

\* A packet of the address keeps a flow exact: ArpLearn changes no link, and a
\* flow that is waiting for it has its timer.
LEMMA LearnOK ==
    ASSUME NEW f, NEW H \in SUBSET Clients, FlowOK(f, H)
    PROVE  /\ FlowOK(Learned(f), H)
           /\ ~(f.state \in {"incomplete", "refresh"} /\ ~f.timer)
<1>1. f \in Flow
  BY DEF FlowOK
<1>2. CASE f.state = "none"
  <2>1. NewLearned \in Flow
    BY DEF NewLearned, Flow, States
  <2>2. Cardinality(H) = 0 /\ H = {}
    BY <1>2, ClientSets DEF FlowOK
  <2> QED
    BY <1>2, <2>1, <2>2 DEF FlowOK, Learned, NewLearned
<1>3. CASE f.state \in {"learned", "complete"}
  <2> DEFINE g == [f EXCEPT !.resolved = TRUE, !.touch = TRUE]
  <2>1. g \in Flow /\ g.state = f.state /\ g.head = f.head /\ g.refc = f.refc /\ (g.timer <=> f.timer)
    BY <1>1 DEF Flow
  <2>2. Learned(f) = g
    BY <1>3 DEF Learned
  <2> HIDE DEF g
  <2> QED
    BY <1>3, <2>1, <2>2 DEF FlowOK
<1>4. CASE f.state \in {"incomplete", "refresh"}
  <2> DEFINE g == [f EXCEPT !.resolved = TRUE]
             k == [g EXCEPT !.state = "complete", !.touch = FALSE]
  <2>1. g \in Flow /\ g.head = f.head /\ g.refc = f.refc /\ (g.timer <=> f.timer)
    BY <1>1 DEF Flow
  <2>2. Learned(f) = k
    BY <1>4 DEF Learned, MoveToComplete
  <2> HIDE DEF g
  <2>3. k \in Flow /\ k.state = "complete" /\ k.head = g.head /\ k.refc = g.refc /\ (k.timer <=> g.timer)
    BY <2>1, Moved DEF States
  <2> HIDE DEF k
  <2> QED
    BY <1>4, <2>1, <2>2, <2>3 DEF FlowOK
<1> QED
  BY <1>1, <1>2, <1>3, <1>4 DEF Flow, States

\* What a timer does to a flow that stays in the table keeps it exact: another
\* period, or a retry, or a refresh of a flow that has clients.
LEMMA TimerOK ==
    ASSUME NEW f, NEW H \in SUBSET Clients, FlowOK(f, H), f.state # "none"
    PROVE  /\ FlowOK([f EXCEPT !.touch = FALSE], H)
           /\ FlowOK([f EXCEPT !.index = 0], H)
           /\ FlowOK(Retried(f), H)
           /\ H # {} => FlowOK(Refreshed(f), H)
<1>1. f \in Flow /\ f.timer
  BY DEF FlowOK
<1>2. FlowOK([f EXCEPT !.touch = FALSE], H)
  <2> DEFINE g == [f EXCEPT !.touch = FALSE]
  <2>1. g \in Flow /\ g.state = f.state /\ g.head = f.head /\ g.refc = f.refc /\ (g.timer <=> f.timer)
    BY <1>1 DEF Flow
  <2> HIDE DEF g
  <2>2. FlowOK(g, H)
    BY <2>1 DEF FlowOK
  <2> QED
    BY <2>2 DEF g
<1>3. FlowOK([f EXCEPT !.index = 0], H)
  <2> DEFINE g == [f EXCEPT !.index = 0]
  <2>1. g \in Flow /\ g.state = f.state /\ g.head = f.head /\ g.refc = f.refc /\ (g.timer <=> f.timer)
    BY <1>1 DEF Flow
  <2> HIDE DEF g
  <2>2. FlowOK(g, H)
    BY <2>1 DEF FlowOK
  <2> QED
    BY <2>2 DEF g
<1> DEFINE r == Retried(f)
<1>4. r \in Flow /\ r.state = f.state /\ r.head = f.head /\ r.refc = f.refc /\ r.timer
  <2>1. NextIndex(f.index) \in 0..MaxIndex
    BY <1>1, IndexInTable DEF Flow
  <2> QED
    BY <1>1, <2>1 DEF Flow, Retried
<1> HIDE DEF r
<1>5. FlowOK(r, H)
  BY <1>4 DEF FlowOK
<1>6. ASSUME H # {} PROVE FlowOK(Refreshed(f), H)
  <2> DEFINE i == [r EXCEPT !.state = "incomplete", !.resolved = FALSE]
             j == [r EXCEPT !.state = "refresh"]
  <2>1. i \in Flow /\ i.state = "incomplete" /\ i.head = r.head /\ i.refc = r.refc /\ (i.timer <=> r.timer)
    BY <1>4 DEF Flow, States
  <2>2. j \in Flow /\ j.state = "refresh" /\ j.head = r.head /\ j.refc = r.refc /\ (j.timer <=> r.timer)
    BY <1>4 DEF Flow, States
  <2>3. Refreshed(f) = i \/ Refreshed(f) = j
    BY DEF Refreshed, r
  <2> HIDE DEF i, j
  <2> QED
    BY <1>4, <1>6, <2>1, <2>2, <2>3 DEF FlowOK
<1> QED
  BY <1>2, <1>3, <1>5, <1>6 DEF r

-----------------------------------------------------------------------------
\* OnChangeDGSrcIPv4 with the gateway the client has and the one it is to have
\* keeps the table exact, and none of its panics is reached.
LEMMA ChangeOK ==
    ASSUME IInv, NEW c \in Clients, NEW in \in Addr,
           in = Gateway(c) => in = NoDg,
           OnChangeDGSrcIPv4(c, Gateway(c), in),
           plugged' \in [Clients -> BOOLEAN], src' \in [Clients -> BOOLEAN],
           dg' \in [Clients -> Addr],
           \A d \in Clients : Gateway(d)' = IF d = c THEN in ELSE Gateway(d)
    PROVE  IInv'
<1> DEFINE out == Gateway(c)
<1>1. out \in Addr
  BY DEF IInv, Gateway, If, Addr
<1>2. \A ip \in Gateways : /\ Users(ip) \in SUBSET Clients
                           /\ c \in Users(ip) <=> ip = out
  BY DEF Users
<1>3. \A ip \in Gateways :
         Users(ip)' = IF ip = in THEN Users(ip) \cup {c}
                      ELSE IF ip = out THEN Users(ip) \ {c} ELSE Users(ip)
  BY DEF Users, Addr
<1>4. \A ip \in Gateways : FlowOK(flow'[ip], Users(ip)')
  <2> SUFFICES ASSUME NEW ip \in Gateways PROVE FlowOK(flow'[ip], Users(ip)')
    OBVIOUS
  <2>0. FlowOK(flow[ip], Users(ip)) /\ ip # NoDg
    BY DEF IInv
  <2>1. CASE ip = in
    <3>1. flow'[ip] = Associated(flow[ip], c) /\ c \notin Users(ip)
      BY <2>1, <1>2, <2>0 DEF OnChangeDGSrcIPv4
    <3> QED
      BY <2>0, <2>1, <3>1, <1>2, <1>3, AssociateOK
  <2>2. CASE ip # in /\ ip = out
    <3>1. flow'[ip] = Disassociated(flow[ip], c)
      BY <2>2 DEF OnChangeDGSrcIPv4
    <3> QED
      BY <2>0, <2>2, <3>1, <1>2, <1>3, DisassociateOK
  <2>3. CASE ip # in /\ ip # out
    BY <2>0, <2>3, <1>3 DEF OnChangeDGSrcIPv4
  <2> QED
    BY <2>1, <2>2, <2>3
<1>5. ~failed'
  <2>1. out # NoDg => ~DisassociateFails(flow[out], c)
    BY <1>1, <1>2, DisassociateOK DEF IInv, Addr
  <2>2. in # NoDg => ~AssociateFails(flow[in], c, out)
    <3> SUFFICES ASSUME in # NoDg PROVE ~AssociateFails(flow[in], c, out)
      OBVIOUS
    <3>1. \A ip \in Gateways : flow[ip].head = Users(ip)
      BY DEF IInv, FlowOK
    <3>2. in \in Gateways /\ c \notin Users(in)
      BY <1>2 DEF Addr
    <3>3. ~(flow[in].state = "learned" /\ (flow[in].refc # 0 \/ ~flow[in].timer))
      BY <1>2, <3>2, AssociateOK DEF IInv
    <3> QED
      BY <1>2, <3>1, <3>3 DEF AssociateFails
  <2> QED
    BY <2>1, <2>2 DEF OnChangeDGSrcIPv4
<1>6. DOMAIN flow' = Gateways /\ flow' = [ip \in Gateways |-> flow'[ip]]
  BY DEF OnChangeDGSrcIPv4
<1>7. dgw' \in [Clients -> Addr] /\ \A d \in Clients : dgw'[d] = Gateway(d)'
  BY <1>1 DEF OnChangeDGSrcIPv4, IInv
<1> QED
  BY <1>4, <1>5, <1>6, <1>7 DEF IInv

\* The gateways that keep the links exact; a client with ForceDGW that is
\* created with a gateway is not linked to it, and one with a gateway that is
\* given an address in use is not unlinked.
Benign == ForcedDgs \subseteq {NoDg} /\ TakenDgs \subseteq {NoDg}

\* Steps that change the flow of one address, with the same users.
LEMMA OneFlow ==
    ASSUME IInv, NEW ip \in Gateways, NEW g, FlowOK(g, Users(ip)),
           flow' = [flow EXCEPT ![ip] = g], ~failed', UNCHANGED <<clientVars, dgw>>
    PROVE  IInv'
<1>1. \A c \in Clients : Gateway(c)' = Gateway(c)
  BY DEF Gateway, clientVars
<1>2. \A i \in Gateways : Users(i)' = Users(i)
  BY <1>1 DEF Users
<1>3. \A i \in Gateways : FlowOK(flow'[i], Users(i)')
  BY <1>2 DEF IInv
<1>4. DOMAIN flow' = Gateways /\ flow' = [i \in Gateways |-> flow'[i]]
  BY DEF IInv
<1> QED
  BY <1>1, <1>3, <1>4 DEF IInv, clientVars

\* Steps that leave clients and flows alone.
LEMMA NoFlowChanges ==
    ASSUME IInv, UNCHANGED <<clientVars, dgw, flow, failed>>
    PROVE  IInv'
<1>1. \A c \in Clients : Gateway(c)' = Gateway(c)
  BY DEF Gateway, clientVars
<1>2. \A i \in Gateways : Users(i)' = Users(i)
  BY <1>1 DEF Users
<1> QED
  BY <1>1, <1>2 DEF IInv, clientVars

\* The steps that a client takes.
LEMMA ClientSteps ==
    ASSUME IInv, Benign, NEW c \in Clients,
           \/ \E s \in BOOLEAN, d \in Addr : NewArpClient(c, s, d)
           \/ RemoveArpClient(c) \/ UpdateIPv4(c) \/ UpdateIPv4Taken(c) \/ PeriodicQuery(c)
           \/ \E d \in Addr : UpdateDgIPv4(c, d)
    PROVE  IInv'
<1>0. NoDg \in Addr /\ dg[c] \in Addr /\ src[c] \in BOOLEAN
  BY DEF IInv, Addr
<1>1. ASSUME NEW s \in BOOLEAN, NEW d \in Addr, NewArpClient(c, s, d) PROVE IInv'
  <2> DEFINE in == If(s /\ c \notin Forced, d)
  <2>1. Gateway(c) = NoDg /\ in \in Addr
    BY <1>0, <1>1 DEF Gateway, If, NewArpClient
  <2>2. in = If(s, d)
    BY <1>1 DEF Benign, NewArpClient, If
  <2>3. \A e \in Clients : Gateway(e)' = IF e = c THEN in ELSE Gateway(e)
    BY <1>1, <2>2 DEF NewArpClient, Gateway, If, IInv
  <2>4. plugged' \in [Clients -> BOOLEAN] /\ src' \in [Clients -> BOOLEAN] /\ dg' \in [Clients -> Addr]
    BY <1>1 DEF NewArpClient, IInv
  <2>5. OnChangeDGSrcIPv4(c, Gateway(c), in)
    BY <1>1, <2>1 DEF NewArpClient
  <2> QED
    BY <2>1, <2>3, <2>4, <2>5, ChangeOK
<1>2. CASE RemoveArpClient(c)
  <2>1. Gateway(c) = If(src[c], dg[c])
    BY <1>2 DEF Gateway, RemoveArpClient, If
  <2>2. \A e \in Clients : Gateway(e)' = IF e = c THEN NoDg ELSE Gateway(e)
    BY <1>2 DEF RemoveArpClient, Gateway, If, IInv
  <2>3. plugged' \in [Clients -> BOOLEAN] /\ src' \in [Clients -> BOOLEAN] /\ dg' \in [Clients -> Addr]
    BY <1>0, <1>2 DEF RemoveArpClient, IInv
  <2>4. OnChangeDGSrcIPv4(c, Gateway(c), NoDg)
    BY <1>2, <2>1 DEF RemoveArpClient
  <2> QED
    BY <1>0, <2>2, <2>3, <2>4, ChangeOK
<1>3. CASE UpdateIPv4(c)
  <2> DEFINE in == If(~src[c], dg[c])
  <2>1. Gateway(c) = If(src[c], dg[c]) /\ in \in Addr
    BY <1>0, <1>3 DEF Gateway, UpdateIPv4, If
  <2>2. \A e \in Clients : Gateway(e)' = IF e = c THEN in ELSE Gateway(e)
    <3>1. /\ plugged' = plugged /\ dg' = dg /\ plugged[c]
          /\ \A e \in Clients : e # c => src'[e] = src[e]
          /\ src'[c] <=> ~src[c]
      BY <1>3 DEF UpdateIPv4, IInv
    <3> QED
      BY <3>1 DEF Gateway, If
  <2>3. plugged' \in [Clients -> BOOLEAN] /\ src' \in [Clients -> BOOLEAN] /\ dg' \in [Clients -> Addr]
    BY <1>0, <1>3 DEF UpdateIPv4, IInv
  <2>4. OnChangeDGSrcIPv4(c, Gateway(c), in)
    BY <1>3, <2>1 DEF UpdateIPv4
  <2>5. in = Gateway(c) => in = NoDg
    BY <1>0, <2>1 DEF If
  <2> QED
    BY <2>1, <2>2, <2>3, <2>4, <2>5, ChangeOK
<1>4. CASE UpdateIPv4Taken(c)
  <2>1. dg[c] = NoDg
    BY <1>4 DEF UpdateIPv4Taken, Benign
  <2>2. \A e \in Clients : Gateway(e)' = Gateway(e)
    BY <1>4, <2>1 DEF UpdateIPv4Taken, Gateway, If, IInv
  <2>3. \A i \in Gateways : Users(i)' = Users(i)
    BY <2>2 DEF Users
  <2>4. src' \in [Clients -> BOOLEAN]
    BY <1>4 DEF UpdateIPv4Taken, IInv
  <2> QED
    BY <1>4, <2>2, <2>3, <2>4 DEF IInv, UpdateIPv4Taken
<1>5. CASE PeriodicQuery(c)
  BY <1>5, NoFlowChanges DEF PeriodicQuery
<1>6. ASSUME NEW d \in Addr, UpdateDgIPv4(c, d) PROVE IInv'
  <2> DEFINE in == If(src[c], d)
  <2>1. Gateway(c) = If(src[c], dg[c]) /\ in \in Addr
    BY <1>0, <1>6 DEF Gateway, UpdateDgIPv4, If
  <2>2. \A e \in Clients : Gateway(e)' = IF e = c THEN in ELSE Gateway(e)
    BY <1>6 DEF UpdateDgIPv4, Gateway, If, IInv
  <2>3. plugged' \in [Clients -> BOOLEAN] /\ src' \in [Clients -> BOOLEAN] /\ dg' \in [Clients -> Addr]
    BY <1>0, <1>6 DEF UpdateDgIPv4, IInv
  <2>4. OnChangeDGSrcIPv4(c, Gateway(c), in)
    BY <1>6, <2>1 DEF UpdateDgIPv4
  <2>5. in = Gateway(c) => in = NoDg
    BY <1>6, <2>1 DEF If, UpdateDgIPv4
  <2> QED
    BY <2>1, <2>2, <2>3, <2>4, <2>5, ChangeOK
<1> QED
  BY <1>1, <1>2, <1>3, <1>4, <1>5, <1>6

\* The steps that a packet, a timer or the namespace takes.
LEMMA FlowSteps ==
    ASSUME IInv, NEW ip \in Gateways, Request(ip) \/ Reply(ip) \/ TimerFires(ip)
    PROVE  IInv'
<1> DEFINE f == flow[ip]
           H == Users(ip)
<1>0. FlowOK(f, H) /\ H \in SUBSET Clients /\ ~failed
  BY DEF IInv, Users
<1>1. CASE Request(ip) \/ Reply(ip)
  <2>1. /\ flow' = [flow EXCEPT ![ip] = Learned(f)] /\ UNCHANGED <<clientVars, dgw>>
        /\ failed' = (f.state \in {"incomplete", "refresh"} /\ ~f.timer)
    BY <1>1 DEF Request, Reply, Learn
  <2> QED
    BY <1>0, <2>1, LearnOK, OneFlow
<1>2. CASE LearnedEvent(ip)
  <2>1. f.state = "learned" /\ H = {} /\ f.refc = 0
    BY <1>0, <1>2, ClientSets DEF LearnedEvent, Fires, FlowOK
  <2>2. CASE f.touch
    <3>1. flow' = [flow EXCEPT ![ip] = [f EXCEPT !.touch = FALSE]] /\ UNCHANGED <<clientVars, dgw, failed>>
      BY <1>2, <2>2 DEF LearnedEvent
    <3> QED
      BY <1>0, <2>1, <3>1, TimerOK, OneFlow
  <2>3. CASE ~f.touch
    <3>1. flow' = [flow EXCEPT ![ip] = NoFlow] /\ UNCHANGED <<clientVars, dgw>> /\ ~failed'
      BY <1>2, <2>1, <2>3 DEF LearnedEvent, OnDeleteFlow
    <3>2. NoFlow \in Flow
      BY DEF NoFlow, Flow, States
    <3>3. FlowOK(NoFlow, H)
      BY <2>1, <3>2, ClientSets DEF FlowOK, NoFlow
    <3> QED
      BY <3>1, <3>3, OneFlow
  <2> QED
    BY <2>2, <2>3
<1>3. ASSUME f.state \notin {"none", "learned"} PROVE f.head # {} /\ H # {}
  BY <1>0, <1>3 DEF FlowOK
<1>4. CASE IncompleteEvent(ip)
  <2>1. f.state = "incomplete"
    BY <1>4 DEF IncompleteEvent, Fires
  <2>2. flow' = [flow EXCEPT ![ip] = Retried(f)] /\ UNCHANGED <<clientVars, dgw, failed>>
    BY <1>3, <1>4, <2>1 DEF IncompleteEvent, SendQuery
  <2> QED
    BY <1>0, <2>1, <2>2, TimerOK, OneFlow
<1>5. CASE RefreshEvent(ip)
  <2>1. f.state = "refresh"
    BY <1>5 DEF RefreshEvent, Fires
  <2>2. flow' = [flow EXCEPT ![ip] = Refreshed(f)] /\ UNCHANGED <<clientVars, dgw, failed>>
    BY <1>3, <1>5, <2>1 DEF RefreshEvent, SendQuery
  <2> QED
    BY <1>0, <1>3, <2>1, <2>2, TimerOK, OneFlow
<1>6. CASE CompleteEvent(ip)
  <2>1. f.state = "complete"
    BY <1>6 DEF CompleteEvent, Fires
  <2>2. CASE f.touch
    <3>1. flow' = [flow EXCEPT ![ip] = [f EXCEPT !.touch = FALSE]] /\ UNCHANGED <<clientVars, dgw, failed>>
      BY <1>6, <2>2 DEF CompleteEvent
    <3> QED
      BY <1>0, <2>1, <3>1, TimerOK, OneFlow
  <2>3. CASE ~f.touch
    <3> DEFINE g == [f EXCEPT !.index = 0]
    <3>1. flow' = [flow EXCEPT ![ip] = Refreshed(g)] /\ UNCHANGED <<clientVars, dgw, failed>>
      BY <1>3, <1>6, <2>1, <2>3 DEF CompleteEvent, SendQuery
    <3>2. FlowOK(g, H)
      BY <1>0, <2>1, TimerOK
    <3> HIDE DEF g
    <3>3. g.state # "none"
      BY <1>3, <2>1, <3>2 DEF FlowOK
    <3>4. FlowOK(Refreshed(g), H)
      BY <1>0, <1>3, <2>1, <3>2, <3>3, TimerOK
    <3> QED
      BY <1>0, <3>1, <3>4, OneFlow
  <2> QED
    BY <2>2, <2>3
<1> QED
  BY <1>1, <1>2, <1>4, <1>5, <1>6 DEF TimerFires

\* The namespace goes with its table when no client is left.
LEMMA RemoveNsStep ==
    ASSUME IInv, RemoveArpNs
    PROVE  IInv'
<1>1. \A c \in Clients : Gateway(c)' = Gateway(c) /\ Gateway(c) = NoDg
  BY DEF RemoveArpNs, Gateway, If, clientVars
<1>2. \A i \in Gateways : Users(i)' = {}
  BY <1>1 DEF Users
<1>3. NoFlow \in Flow
  BY DEF NoFlow, Flow, States
<1>4. FlowOK(NoFlow, {})
  BY <1>3, ClientSets DEF FlowOK, NoFlow
<1>5. flow' = [i \in Gateways |-> NoFlow]
  BY DEF RemoveArpNs, Stopped
<1> QED
  BY <1>1, <1>2, <1>4, <1>5 DEF IInv, RemoveArpNs, clientVars

-----------------------------------------------------------------------------
\* The table starts empty and every step keeps it exact.
THEOREM TableInvariant ==
    ASSUME Benign
    PROVE  ArpSpec => []IInv
<1>1. ArpInit => IInv
  <2> SUFFICES ASSUME ArpInit PROVE IInv
    OBVIOUS
  <2>1. \A c \in Clients : Gateway(c) = NoDg
    BY DEF ArpInit, Gateway, If
  <2>2. \A i \in Gateways : Users(i) = {}
    BY <2>1 DEF Users
  <2>3. NoFlow \in Flow
    BY DEF NoFlow, Flow, States
  <2>4. FlowOK(NoFlow, {})
    BY <2>3, ClientSets DEF FlowOK, NoFlow
  <2> QED
    BY <2>1, <2>2, <2>4 DEF ArpInit, IInv, Addr
<1>2. IInv /\ [ArpNext]_arpVars => IInv'
  <2> SUFFICES ASSUME IInv, [ArpNext]_arpVars PROVE IInv'
    OBVIOUS
  <2>1. CASE \E c \in Clients, s \in BOOLEAN, d \in Addr : NewArpClient(c, s, d)
    BY <2>1, ClientSteps
  <2>2. CASE \E c \in Clients : RemoveArpClient(c) \/ UpdateIPv4(c) \/ UpdateIPv4Taken(c) \/ PeriodicQuery(c)
    BY <2>2, ClientSteps
  <2>3. CASE \E c \in Clients, d \in Addr : UpdateDgIPv4(c, d)
    BY <2>3, ClientSteps
  <2>4. CASE \E ip \in Gateways : Request(ip) \/ Reply(ip) \/ TimerFires(ip)
    BY <2>4, FlowSteps
  <2>5. CASE \E ip \in Gateways : Lose(ip)
    BY <2>5, NoFlowChanges DEF Lose
  <2>6. CASE \E reset \in BOOLEAN, n \in ArpCounts : Iterate(reset, n)
    BY <2>6, NoFlowChanges DEF Iterate
  <2>7. CASE RemoveArpNs
    BY <2>7, RemoveNsStep
  <2>8. CASE UNCHANGED arpVars
    BY <2>8, NoFlowChanges DEF arpVars
  <2> QED
    BY <2>1, <2>2, <2>3, <2>4, <2>5, <2>6, <2>7, <2>8 DEF ArpNext
<1> QED
  BY <1>1, <1>2, PTL DEF ArpSpec

\* For any clients and gateways, a flow is linked to exactly the clients whose
\* gateway it is and counts them, whatever the order of address updates,
\* packets, timers and removals.
THEOREM LinksAlwaysExact ==
    ASSUME Benign
    PROVE  ArpSpec => []LinksExact
<1>1. IInv => LinksExact
  <2> SUFFICES ASSUME IInv PROVE LinksExact
    OBVIOUS
  <2>1. \A ip \in Gateways : FlowOK(flow[ip], Users(ip))
    BY DEF IInv
  <2>2. \A c \in Clients : dgw[c] = Gateway(c)
    BY DEF IInv
  <2>3. ASSUME NEW ip \in Gateways
        PROVE  /\ flow[ip].head = {c \in Clients : Gateway(c) = ip}
               /\ flow[ip].refc = Cardinality(flow[ip].head)
               /\ flow[ip].head = {} <=> flow[ip].state \in {"none", "learned"}
    <3> DEFINE f == flow[ip]
               H == Users(ip)
    <3>1. FlowOK(f, H)
      BY <2>1
    <3>2. H = {c \in Clients : Gateway(c) = ip}
      BY DEF Users
    <3> HIDE DEF f, H
    <3>3. f.head = H /\ f.refc = Cardinality(f.head) /\ (f.head = {} <=> f.state \in {"none", "learned"})
      BY <3>1 DEF FlowOK
    <3> QED BY <3>2, <3>3 DEF f
  <2> QED
    BY <2>2, <2>3 DEF LinksExact
<1> QED
  BY <1>1, TableInvariant, PTL

\* A flow in the table always has its timer on the wheel, and a flow that left
\* the table never has.
THEOREM TimersAlwaysExact ==
    ASSUME Benign
    PROVE  ArpSpec => []TimersExact
<1>1. IInv => TimersExact
  BY DEF IInv, FlowOK, TimersExact, Exists
<1> QED
  BY <1>1, TableInvariant, PTL

\* None of the panics of the plugin is ever reached.
THEOREM NeverPanics ==
    ASSUME Benign
    PROVE  ArpSpec => []NoPanic
<1>1. IInv => NoPanic
  BY DEF IInv, NoPanic
<1> QED
  BY <1>1, TableInvariant, PTL

\* Links, reference counts and timers of the flows are those of the clients,
\* and no panic of the plugin is reached.
THEOREM FlowsAlwaysExact ==
    ASSUME Benign
    PROVE  ArpSpec => []FlowsExact
BY LinksAlwaysExact, TimersAlwaysExact, NeverPanics, PTL DEF FlowsExact

-----------------------------------------------------------------------------
(* The MAC of a gateway is kept; this needs nothing of the links *)

AnyFlow == [state : States, refc : Int, head : SUBSET Clients, resolved : BOOLEAN,
            touch : BOOLEAN, index : 0..MaxIndex, timer : BOOLEAN]

\* a flow that is refreshed has asked as often as its index says, a being the
\* queries since it was heard of
KeepOK(f, a) ==
    /\ f \in AnyFlow
    /\ f.state = "none" => ~f.resolved
    /\ f.state = "refresh" => f.index \in 1..2 /\ f.index <= a

\* what may not happen to the MAC when f becomes g
Kept(f, g, a) == f.resolved /\ g.state # "none" /\ ~g.resolved => a >= 3

KeepInv ==
    /\ flow = [ip \in Gateways |-> flow[ip]] /\ asked \in [Gateways -> 0..3]
    /\ \A ip \in Gateways : KeepOK(flow[ip], asked[ip])

\* the step keeps the invariant and the MACs
KeepStep ==
    /\ flow' = [ip \in Gateways |-> flow'[ip]] /\ asked' \in [Gateways -> 0..3]
    /\ \A ip \in Gateways : KeepOK(flow'[ip], asked'[ip]) /\ Kept(flow[ip], flow'[ip], asked'[ip])

\* A new flow is one of AnyFlow.
LEMMA NewFlows ==
    /\ NoFlow \in AnyFlow /\ NewLearned \in AnyFlow
    /\ \A c \in Clients : NewIncomplete(c) \in AnyFlow
<1>1. NextIndex(0) \in 0..MaxIndex
  BY IndexInTable
<1> QED BY <1>1 DEF NoFlow, NewLearned, NewIncomplete, AnyFlow, States

\* Linking a client gives up no MAC: only a new flow has none.
LEMMA AssociateKeeps ==
    ASSUME NEW f, NEW a \in Nat, KeepOK(f, a), NEW c \in Clients
    PROVE  KeepOK(Associated(f, c), a) /\ Kept(f, Associated(f, c), a)
<1> DEFINE h == f.head \cup {c}
           n == f.refc + 1
           g == [f EXCEPT !.head = h, !.refc = n]
           k == [g EXCEPT !.state = "complete", !.touch = FALSE]
<1>1. f \in AnyFlow /\ h \in SUBSET Clients /\ n \in Int
  BY DEF KeepOK, AnyFlow
<1>2. Associated(f, c) = IF f.state = "none" THEN NewIncomplete(c) ELSE IF f.state = "learned" THEN k ELSE g
  BY DEF Associated, MoveToComplete
<1> HIDE DEF h, n
<1>3. g \in AnyFlow /\ g.state = f.state /\ g.index = f.index /\ (g.resolved <=> f.resolved)
  BY <1>1 DEF AnyFlow
<1> HIDE DEF g
<1>4. k \in AnyFlow /\ k.state = "complete" /\ (k.resolved <=> g.resolved)
  BY <1>3 DEF AnyFlow, States
<1> HIDE DEF k
<1>5. CASE f.state = "none"
  BY <1>2, <1>5, NewFlows DEF NewIncomplete, KeepOK, Kept
<1>6. CASE f.state # "none"
  BY <1>2, <1>3, <1>4, <1>6 DEF KeepOK, Kept
<1> QED BY <1>5, <1>6

\* Unlinking a client gives up no MAC.
LEMMA DisassociateKeeps ==
    ASSUME NEW f, NEW a \in Nat, KeepOK(f, a), NEW c \in Clients
    PROVE  KeepOK(Disassociated(f, c), a) /\ Kept(f, Disassociated(f, c), a)
<1> DEFINE h == f.head \ {c}
           n == f.refc - 1
           g == [f EXCEPT !.head = h, !.refc = n]
           k == [g EXCEPT !.state = "learned", !.touch = FALSE]
<1>1. f \in AnyFlow /\ h \in SUBSET Clients /\ n \in Int
  BY DEF KeepOK, AnyFlow
<1>2. Disassociated(f, c) = IF f.state = "none" THEN f ELSE IF f.refc = 1 THEN k ELSE g
  BY DEF Disassociated, MoveToLearn
<1> HIDE DEF h, n
<1>3. g \in AnyFlow /\ g.state = f.state /\ g.index = f.index /\ (g.resolved <=> f.resolved)
  BY <1>1 DEF AnyFlow
<1> HIDE DEF g
<1>4. k \in AnyFlow /\ k.state = "learned" /\ (k.resolved <=> g.resolved)
  BY <1>3 DEF AnyFlow, States
<1> HIDE DEF k
<1> QED BY <1>1, <1>2, <1>3, <1>4 DEF KeepOK, Kept

\* A flow that is heard of has a MAC and is not being refreshed.
LEMMA LearnKeeps ==
    ASSUME NEW f, NEW a \in Nat, KeepOK(f, a)
    PROVE  KeepOK(Learned(f), 0) /\ Kept(f, Learned(f), 0)
<1> DEFINE g == [f EXCEPT !.resolved = TRUE, !.touch = TRUE]
           h == [f EXCEPT !.resolved = TRUE]
           k == [h EXCEPT !.state = "complete", !.touch = FALSE]
<1>1. f \in AnyFlow
  BY DEF KeepOK
<1>2. Learned(f) = IF f.state = "none" THEN NewLearned ELSE IF f.state \in {"learned", "complete"} THEN g ELSE k
  BY DEF Learned, MoveToComplete
<1>3. g \in AnyFlow /\ g.state = f.state /\ g.resolved
  BY <1>1 DEF AnyFlow
<1>4. h \in AnyFlow /\ h.resolved
  BY <1>1 DEF AnyFlow
<1> HIDE DEF g, h
<1>5. k \in AnyFlow /\ k.state = "complete" /\ k.resolved
  BY <1>4 DEF AnyFlow, States
<1> HIDE DEF k
<1>6. NewLearned \in AnyFlow /\ NewLearned.state = "learned" /\ NewLearned.resolved
  BY NewFlows DEF NewLearned
<1> QED BY <1>2, <1>3, <1>5, <1>6 DEF KeepOK, Kept

\* another query is counted up to 3
Counted(a) == IF a < 3 THEN a + 1 ELSE a

\* A retry moves the index on by one, and only the third query without an
\* answer gives the MAC up.
LEMMA RefreshKeeps ==
    ASSUME NEW f, NEW a \in 0..3, f \in AnyFlow, f.index <= a, f.index <= 2
    PROVE  KeepOK(Refreshed(f), Counted(a)) /\ Kept(f, Refreshed(f), Counted(a))
<1> DEFINE n == NextIndex(f.index)
           g == [f EXCEPT !.index = n, !.timer = TRUE]
           i == [g EXCEPT !.state = "incomplete", !.resolved = FALSE]
           j == [g EXCEPT !.state = "refresh"]
<1>1. f.index \in 0..2 /\ n = f.index + 1 /\ n \in 0..MaxIndex
  BY DEF AnyFlow, NextIndex
<1>2. Refreshed(f) = IF g.index > 2 THEN i ELSE j
  BY DEF Refreshed, Retried
<1> HIDE DEF n
<1>3. g \in AnyFlow /\ g.index = n /\ (g.resolved <=> f.resolved)
  BY <1>1 DEF AnyFlow
<1> HIDE DEF g
<1>4. i \in AnyFlow /\ i.state = "incomplete" /\ ~i.resolved
  BY <1>3 DEF AnyFlow, States
<1>5. j \in AnyFlow /\ j.state = "refresh" /\ j.index = n /\ (j.resolved <=> f.resolved)
  BY <1>3 DEF AnyFlow, States
<1> HIDE DEF i, j
<1>6. Counted(a) \in Nat /\ (n > 2 => Counted(a) >= 3) /\ n <= Counted(a) /\ n >= 1 /\ n \in Nat
  BY <1>1 DEF Counted
<1> QED BY <1>2, <1>3, <1>4, <1>5, <1>6 DEF KeepOK, Kept

\* A retry of a flow without MAC, and another period of one that was heard of.
LEMMA RetryKeeps ==
    ASSUME NEW f, NEW a \in Nat, NEW b, KeepOK(f, a), f.state # "refresh"
    PROVE  /\ KeepOK(Retried(f), b) /\ Kept(f, Retried(f), b)
           /\ KeepOK([f EXCEPT !.touch = FALSE], b) /\ Kept(f, [f EXCEPT !.touch = FALSE], b)
           /\ [f EXCEPT !.index = 0] \in AnyFlow /\ [f EXCEPT !.index = 0].index = 0
           /\ [f EXCEPT !.index = 0].resolved <=> f.resolved
<1>1. f \in AnyFlow /\ NextIndex(f.index) \in 0..MaxIndex
  BY IndexInTable DEF KeepOK, AnyFlow
<1> DEFINE n == NextIndex(f.index)
           g == [f EXCEPT !.index = n, !.timer = TRUE]
           t == [f EXCEPT !.touch = FALSE]
<1>2. Retried(f) = g
  BY DEF Retried
<1> HIDE DEF n
<1>3. g \in AnyFlow /\ g.state = f.state /\ (g.resolved <=> f.resolved)
  BY <1>1 DEF AnyFlow, n
<1>4. t \in AnyFlow /\ t.state = f.state /\ (t.resolved <=> f.resolved)
  BY <1>1 DEF AnyFlow
<1>5. /\ [f EXCEPT !.index = 0] \in AnyFlow /\ [f EXCEPT !.index = 0].index = 0
      /\ [f EXCEPT !.index = 0].resolved <=> f.resolved
  BY <1>1 DEF AnyFlow
<1> HIDE DEF g, t
<1>6. KeepOK(g, b) /\ Kept(f, g, b) /\ KeepOK(t, b) /\ Kept(f, t, b)
  BY <1>3, <1>4 DEF KeepOK, Kept
<1> QED BY <1>2, <1>5, <1>6 DEF t

\* Steps that change the flow of one address.
LEMMA OneKept ==
    ASSUME KeepInv, NEW ip \in Gateways, NEW g, NEW a \in 0..3, KeepOK(g, a), Kept(flow[ip], g, a),
           flow' = [flow EXCEPT ![ip] = g], asked' = [asked EXCEPT ![ip] = a]
    PROVE  KeepStep
<1>1. flow' = [i \in Gateways |-> flow'[i]] /\ asked' \in [Gateways -> 0..3]
  BY DEF KeepInv
<1>2. flow'[ip] = g /\ asked'[ip] = a
  BY DEF KeepInv
<1>3. ASSUME NEW i \in Gateways, i # ip PROVE flow'[i] = flow[i] /\ asked'[i] = asked[i] /\ KeepOK(flow[i], asked[i])
  BY <1>3 DEF KeepInv
<1>4. ASSUME NEW i \in Gateways, i # ip PROVE KeepOK(flow'[i], asked'[i]) /\ Kept(flow[i], flow'[i], asked'[i])
  BY <1>3, <1>4 DEF Kept
<1> QED BY <1>1, <1>2, <1>4 DEF KeepStep

\* Steps that leave the flows alone.
LEMMA NoneKept ==
    ASSUME KeepInv, UNCHANGED <<flow, asked>>
    PROVE  KeepStep
BY DEF KeepInv, KeepStep, Kept

\* OnChangeDGSrcIPv4 gives up no MAC, whatever the links are.
LEMMA ChangeKeeps ==
    ASSUME KeepInv, NEW c \in Clients, NEW out, NEW in, in = out => in = NoDg,
           OnChangeDGSrcIPv4(c, out, in), asked' = asked
    PROVE  KeepStep
<1>1. flow' = [ip \in Gateways |-> flow'[ip]] /\ asked' \in [Gateways -> 0..3]
  BY DEF OnChangeDGSrcIPv4, KeepInv
<1>2. ASSUME NEW ip \in Gateways PROVE KeepOK(flow'[ip], asked'[ip]) /\ Kept(flow[ip], flow'[ip], asked'[ip])
  <2>1. KeepOK(flow[ip], asked[ip]) /\ asked[ip] \in Nat /\ asked'[ip] = asked[ip]
    BY DEF KeepInv
  <2>2. CASE ip = in
    <3>1. ip # out
      BY <2>2
    <3>2. flow'[ip] = Associated(flow[ip], c)
      BY <2>2, <3>1 DEF OnChangeDGSrcIPv4
    <3> QED BY <2>1, <3>2, AssociateKeeps
  <2>3. CASE ip # in /\ ip = out
    <3>1. flow'[ip] = Disassociated(flow[ip], c)
      BY <2>3 DEF OnChangeDGSrcIPv4
    <3> QED BY <2>1, <3>1, DisassociateKeeps
  <2>4. CASE ip # in /\ ip # out
    <3>1. flow'[ip] = flow[ip]
      BY <2>4 DEF OnChangeDGSrcIPv4
    <3> QED BY <2>1, <3>1 DEF Kept
  <2> QED BY <2>2, <2>3, <2>4
<1> QED BY <1>1, <1>2 DEF KeepStep

\* The timer of a flow gives up the MAC only after the third query.
LEMMA TimerKeeps ==
    ASSUME KeepInv, NEW ip \in Gateways, TimerFires(ip)
    PROVE  KeepStep
<1> DEFINE f == flow[ip]
           a == asked[ip]
<1>1. KeepOK(f, a) /\ a \in 0..3 /\ a \in Nat /\ Counted(a) \in 0..3 /\ f \in AnyFlow
  BY DEF KeepInv, Counted, KeepOK
<1>2. SendQuery(ip) => asked' = [asked EXCEPT ![ip] = Counted(a)]
  BY DEF SendQuery, Counted, KeepInv
<1>3. asked = [asked EXCEPT ![ip] = a]
  BY DEF KeepInv
<1>4. ASSUME f.state # "refresh", flow' = [flow EXCEPT ![ip].touch = FALSE], asked' = asked PROVE KeepStep
  <2>1. flow' = [flow EXCEPT ![ip] = [f EXCEPT !.touch = FALSE]]
    BY <1>4 DEF KeepInv
  <2> DEFINE t == [f EXCEPT !.touch = FALSE]
  <2>2. KeepOK(t, a) /\ Kept(f, t, a)
    BY <1>1, <1>4, RetryKeeps
  <2>3. asked' = [asked EXCEPT ![ip] = a]
    BY <1>3, <1>4
  <2> HIDE DEF t
  <2>4. flow' = [flow EXCEPT ![ip] = t]
    BY <2>1 DEF t
  <2> QED BY <1>1, <2>2, <2>3, <2>4, OneKept
<1>5. CASE LearnedEvent(ip) /\ flow[ip].touch
  BY <1>4, <1>5 DEF LearnedEvent, Fires
<1>6. CASE LearnedEvent(ip) /\ ~flow[ip].touch
  <2>1. flow' = [flow EXCEPT ![ip] = NoFlow] /\ asked' = [asked EXCEPT ![ip] = 0]
    BY <1>6 DEF LearnedEvent, OnDeleteFlow
  <2>2. KeepOK(NoFlow, 0) /\ Kept(f, NoFlow, 0)
    BY NewFlows DEF KeepOK, Kept, NoFlow
  <2>3. 0 \in 0..3
    OBVIOUS
  <2> HIDE DEF f
  <2> QED BY <2>1, <2>2, <2>3, OneKept DEF f
<1>7. CASE IncompleteEvent(ip)
  <2>1. flow' = [flow EXCEPT ![ip] = Retried(f)] /\ f.state # "refresh"
    BY <1>7 DEF IncompleteEvent, Fires, KeepInv
  <2>2. asked' = [asked EXCEPT ![ip] = Counted(a)]
    BY <1>2, <1>7 DEF IncompleteEvent
  <2>3. KeepOK(Retried(f), Counted(a)) /\ Kept(f, Retried(f), Counted(a))
    BY <1>1, <2>1, RetryKeeps
  <2> QED BY <1>1, <2>1, <2>2, <2>3, OneKept
<1>8. CASE RefreshEvent(ip)
  <2>1. flow' = [flow EXCEPT ![ip] = Refreshed(f)] /\ f.state = "refresh"
    BY <1>8 DEF RefreshEvent, Fires, KeepInv
  <2>2. asked' = [asked EXCEPT ![ip] = Counted(a)]
    BY <1>2, <1>8 DEF RefreshEvent
  <2>3. f.index <= a /\ f.index <= 2
    BY <1>1, <2>1 DEF KeepOK
  <2>4. KeepOK(Refreshed(f), Counted(a)) /\ Kept(f, Refreshed(f), Counted(a))
    BY <1>1, <2>3, RefreshKeeps
  <2> QED BY <1>1, <2>1, <2>2, <2>4, OneKept
<1>9. CASE CompleteEvent(ip) /\ flow[ip].touch
  BY <1>4, <1>9 DEF CompleteEvent, Fires
<1>10. CASE CompleteEvent(ip) /\ ~flow[ip].touch
  <2> DEFINE g == [f EXCEPT !.index = 0]
  <2>1. flow' = [flow EXCEPT ![ip] = Refreshed(g)] /\ f.state # "refresh"
    BY <1>10 DEF CompleteEvent, Fires, KeepInv
  <2>2. asked' = [asked EXCEPT ![ip] = Counted(a)]
    BY <1>2, <1>10 DEF CompleteEvent
  <2>3. g \in AnyFlow /\ g.index = 0 /\ (g.resolved <=> f.resolved)
    BY <1>1, <2>1, RetryKeeps
  <2> HIDE DEF g
  <2>4. KeepOK(Refreshed(g), Counted(a)) /\ Kept(g, Refreshed(g), Counted(a))
    BY <1>1, <2>3, RefreshKeeps
  <2>5. Kept(f, Refreshed(g), Counted(a))
    BY <2>3, <2>4 DEF Kept
  <2> QED BY <1>1, <2>1, <2>2, <2>4, <2>5, OneKept
<1> QED BY <1>5, <1>6, <1>7, <1>8, <1>9, <1>10 DEF TimerFires

\* Every step keeps the invariant and the MACs.
LEMMA NextKeeps ==
    ASSUME KeepInv, [ArpNext]_arpVars
    PROVE  KeepStep
<1>1. ASSUME NEW c \in Clients, NEW s \in BOOLEAN, NEW d \in Addr, NewArpClient(c, s, d) PROVE KeepStep
  BY <1>1, ChangeKeeps DEF NewArpClient, If
<1>2. ASSUME NEW c \in Clients, RemoveArpClient(c) PROVE KeepStep
  BY <1>2, ChangeKeeps DEF RemoveArpClient
<1>3. ASSUME NEW c \in Clients, UpdateIPv4(c) PROVE KeepStep
  <2>1. If(~src[c], dg[c]) = If(src[c], dg[c]) => If(~src[c], dg[c]) = NoDg
    BY DEF If
  <2> QED BY <1>3, <2>1, ChangeKeeps DEF UpdateIPv4
<1>4. ASSUME NEW c \in Clients, UpdateIPv4Taken(c) \/ PeriodicQuery(c) PROVE KeepStep
  BY <1>4, NoneKept DEF UpdateIPv4Taken, PeriodicQuery
<1>5. ASSUME NEW c \in Clients, NEW d \in Addr, UpdateDgIPv4(c, d) PROVE KeepStep
  <2>1. If(src[c], d) = If(src[c], dg[c]) => If(src[c], d) = NoDg
    BY <1>5 DEF If, UpdateDgIPv4
  <2> QED BY <1>5, <2>1, ChangeKeeps DEF UpdateDgIPv4
<1>6. ASSUME NEW ip \in Gateways, Learn(ip) PROVE KeepStep
  <2>1. flow' = [flow EXCEPT ![ip] = Learned(flow[ip])] /\ asked' = [asked EXCEPT ![ip] = 0]
    BY <1>6 DEF Learn, KeepInv
  <2>2. KeepOK(flow[ip], asked[ip]) /\ asked[ip] \in Nat /\ 0 \in 0..3
    BY DEF KeepInv
  <2>3. KeepOK(Learned(flow[ip]), 0) /\ Kept(flow[ip], Learned(flow[ip]), 0)
    BY <2>2, LearnKeeps
  <2> QED BY <2>1, <2>2, <2>3, OneKept
<1>7. ASSUME NEW ip \in Gateways, Lose(ip) PROVE KeepStep
  BY <1>7, NoneKept DEF Lose
<1>8. ASSUME NEW reset \in BOOLEAN, NEW n \in ArpCounts, Iterate(reset, n) PROVE KeepStep
  BY <1>8, NoneKept DEF Iterate
<1>9. CASE RemoveArpNs
  <2>1. flow' = [ip \in Gateways |-> NoFlow] /\ asked' = [ip \in Gateways |-> 0]
    BY <1>9 DEF RemoveArpNs, Stopped
  <2>2. \A f : KeepOK(NoFlow, 0) /\ Kept(f, NoFlow, 0)
    BY NewFlows DEF KeepOK, Kept, NoFlow
  <2> QED BY <2>1, <2>2 DEF KeepStep
<1>10. CASE UNCHANGED arpVars
  BY <1>10, NoneKept DEF arpVars
<1> QED
  BY <1>1, <1>2, <1>3, <1>4, <1>5, <1>6, <1>7, <1>8, <1>9, <1>10, TimerKeeps DEF ArpNext, Request, Reply

\* While a flow has clients its MAC is given up only after three queries of its
\* timer in a row were not answered; forced gateways and taken addresses change
\* nothing in this.
THEOREM MacIsKept == ArpSpec => MacKept
<1>1. ArpInit => KeepInv
  <2>1. KeepOK(NoFlow, 0)
    BY NewFlows DEF KeepOK, NoFlow
  <2> QED BY <2>1 DEF ArpInit, KeepInv
<1>2. KeepInv /\ [ArpNext]_arpVars => KeepStep
  BY NextKeeps
<1>3. KeepStep => KeepInv'
  BY DEF KeepStep, KeepInv
<1>4. KeepStep => [\A ip \in Gateways :
          flow[ip].resolved /\ Exists(ip)' /\ ~flow'[ip].resolved => asked'[ip] >= 3]_arpVars
  BY DEF KeepStep, Kept, Exists
<1> QED BY <1>1, <1>2, <1>3, <1>4, PTL DEF ArpSpec, MacKept

-----------------------------------------------------------------------------
(* The iteration returns every flow; nothing of the links is needed either *)

InList(s, x) == \E i \in 1..Len(s) : s[i] = x

\* a list of flows has none of them twice
FlowList(s) == s \in Seq(Gateways) /\ \A i, j \in 1..Len(s) : s[i] = s[j] => i = j

\* the flows of d are not before the iterator
IterOK(s, it, d) ==
    \/ it = NoDg /\ d = {}
    \/ \E p \in 1..Len(s) : it = s[p] /\ \A x \in d : \E i \in p..Len(s) : s[i] = x

IterInv ==
    /\ FlowList(list) /\ IterOK(list, activeIter, due)
    /\ \A ip \in Gateways : Exists(ip) <=> InList(list, ip)
    /\ ~arpIterReady => due = {}

\* Where an entry is after the one at k was removed.
LEMMA ShiftedEntry ==
    ASSUME NEW s \in Seq(Gateways), NEW k \in 1..Len(s)
    PROVE  /\ RemoveNode(s, k) \in Seq(Gateways)
           /\ Len(RemoveNode(s, k)) = Len(s) - 1
           /\ \A q \in 1..Len(s) : q < k => RemoveNode(s, k)[q] = s[q]
           /\ \A q \in 1..Len(s) : q > k => RemoveNode(s, k)[q - 1] = s[q]
<1> DEFINE a == SubSeq(s, 1, k - 1)
           b == SubSeq(s, k + 1, Len(s))
<1>1. a \in Seq(Gateways) /\ Len(a) = k - 1 /\ \A j \in 1..k - 1 : a[j] = s[j]
  OBVIOUS
<1>2. b \in Seq(Gateways) /\ Len(b) = Len(s) - k /\ \A j \in 1..Len(s) - k : b[j] = s[j + k]
  OBVIOUS
<1> HIDE DEF a, b
<1>3. a \o b \in Seq(Gateways) /\ Len(a \o b) = Len(a) + Len(b)
  <2>1. a \in Seq(Gateways) /\ b \in Seq(Gateways)
    BY <1>1, <1>2
  <2> QED BY <2>1
<1>4. \A j \in 1..Len(a) + Len(b) : (a \o b)[j] = IF j <= Len(a) THEN a[j] ELSE b[j - Len(a)]
  BY <1>1, <1>2
<1>5. ASSUME NEW q \in 1..Len(s), q < k PROVE (a \o b)[q] = s[q]
  BY <1>1, <1>2, <1>4, <1>5
<1>6. ASSUME NEW q \in 1..Len(s), q > k PROVE (a \o b)[q - 1] = s[q]
  <2>1. q - 1 \in 1..Len(a) + Len(b) /\ ~(q - 1 <= Len(a)) /\ (q - 1) - Len(a) = q - k /\ q - k \in 1..Len(s) - k
    BY <1>1, <1>2, <1>6
  <2>2. (a \o b)[q - 1] = b[q - k]
    BY <1>4, <2>1
  <2>3. b[q - k] = s[(q - k) + k] /\ (q - k) + k = q
    BY <1>2, <2>1
  <2> QED BY <2>2, <2>3
<1>7. Len(a) + Len(b) = Len(s) - 1
  BY <1>1, <1>2
<1> QED BY <1>3, <1>5, <1>6, <1>7 DEF RemoveNode, a, b

\* Deleting a flow leaves the others in the list, in their order.
LEMMA DeletedList ==
    ASSUME NEW s, FlowList(s), NEW k \in 1..Len(s)
    PROVE  /\ FlowList(RemoveNode(s, k))
           /\ \A x : InList(RemoveNode(s, k), x) <=> InList(s, x) /\ x # s[k]
<1> DEFINE t == RemoveNode(s, k)
<1>1. /\ t \in Seq(Gateways) /\ Len(t) = Len(s) - 1 /\ Len(s) \in Nat
      /\ \A q \in 1..Len(s) : q < k => t[q] = s[q]
      /\ \A q \in 1..Len(s) : q > k => t[q - 1] = s[q]
  <2>1. s \in Seq(Gateways) /\ Len(s) \in Nat
    BY DEF FlowList
  <2> QED BY <2>1, ShiftedEntry
<1> HIDE DEF t
<1>2. ASSUME NEW j \in 1..Len(t) PROVE t[j] = IF j < k THEN s[j] ELSE s[j + 1]
  <2>1. CASE j < k
    BY <1>1, <2>1
  <2>2. CASE ~(j < k)
    <3>1. j + 1 \in 1..Len(s) /\ j + 1 > k /\ (j + 1) - 1 = j
      BY <1>1, <2>2
    <3>2. t[(j + 1) - 1] = s[j + 1]
      BY <1>1, <3>1
    <3> QED BY <2>2, <3>1, <3>2
  <2> QED BY <2>1, <2>2
<1>3. ASSUME NEW i \in 1..Len(t), NEW j \in 1..Len(t), t[i] = t[j] PROVE i = j
  <2>1. \A m, n \in 1..Len(s) : s[m] = s[n] => m = n
    BY DEF FlowList
  <2> QED BY <1>1, <1>2, <1>3, <2>1
<1>4. ASSUME NEW x, InList(t, x) PROVE InList(s, x) /\ x # s[k]
  <2>1. PICK j \in 1..Len(t) : t[j] = x
    BY <1>4 DEF InList
  <2>2. \A m, n \in 1..Len(s) : s[m] = s[n] => m = n
    BY DEF FlowList
  <2>3. CASE j < k
    BY <1>1, <1>2, <2>1, <2>2, <2>3 DEF InList
  <2>4. CASE ~(j < k)
    BY <1>1, <1>2, <2>1, <2>2, <2>4 DEF InList
  <2> QED BY <2>3, <2>4
<1>5. ASSUME NEW x, InList(s, x), x # s[k] PROVE InList(t, x)
  <2>1. PICK q \in 1..Len(s) : s[q] = x
    BY <1>5 DEF InList
  <2>2. CASE q < k
    BY <1>1, <2>1, <2>2 DEF InList
  <2>3. CASE q > k
    <3>1. q - 1 \in 1..Len(t)
      BY <1>1, <2>3
    <3> QED BY <1>1, <2>1, <2>3, <3>1 DEF InList
  <2> QED BY <1>5, <2>1, <2>2, <2>3
<1> QED BY <1>1, <1>3, <1>4, <1>5 DEF FlowList, t

\* The iterator after the deletion of the flow at k: the next one when it was
\* there, else as before.
LEMMA DeletedIter ==
    ASSUME NEW s, FlowList(s), NEW k \in 1..Len(s), NEW it, NEW d, IterOK(s, it, d)
    PROVE  IterOK(RemoveNode(s, k),
                  IF it = s[k] THEN (IF k + 1 > Len(s) THEN NoDg ELSE s[k + 1]) ELSE it, d \ {s[k]})
<1> DEFINE t == RemoveNode(s, k)
           e == d \ {s[k]}
           to == IF it = s[k] THEN (IF k + 1 > Len(s) THEN NoDg ELSE s[k + 1]) ELSE it
<1>1. /\ t \in Seq(Gateways) /\ Len(t) = Len(s) - 1 /\ Len(s) \in Nat
      /\ \A q \in 1..Len(s) : q < k => t[q] = s[q]
      /\ \A q \in 1..Len(s) : q > k => t[q - 1] = s[q]
  <2>1. s \in Seq(Gateways) /\ Len(s) \in Nat
    BY DEF FlowList
  <2> QED BY <2>1, ShiftedEntry
<1>2. s[k] \in Gateways /\ s[k] # NoDg /\ \A m, n \in 1..Len(s) : s[m] = s[n] => m = n
  BY DEF FlowList
<1> HIDE DEF t
<1>3. CASE it = NoDg /\ d = {}
  <2>1. to = NoDg /\ e = {}
    BY <1>2, <1>3
  <2> HIDE DEF to, e
  <2>2. IterOK(t, to, e)
    BY <2>1 DEF IterOK
  <2> QED BY <2>2 DEF t, to, e
<1>4. ASSUME NEW p \in 1..Len(s), it = s[p], \A x \in d : \E i \in p..Len(s) : s[i] = x
      PROVE  IterOK(t, to, e)
  <2>1. ASSUME NEW x \in e PROVE \E i \in p..Len(s) : s[i] = x /\ i # k
    BY <1>2, <1>4, <2>1
  <2>2. CASE p < k
    <3>1. to = t[p] /\ p \in 1..Len(t)
      BY <1>1, <1>2, <1>4, <2>2
    <3>2. ASSUME NEW x \in e PROVE \E i \in p..Len(t) : t[i] = x
      <4>1. PICK i \in p..Len(s) : s[i] = x /\ i # k
        BY <2>1, <3>2
      <4>2. CASE i < k
        BY <1>1, <2>2, <4>1, <4>2
      <4>3. CASE i > k
        <5>1. i - 1 \in p..Len(t) /\ i \in 1..Len(s)
          BY <1>1, <2>2, <4>3
        <5> QED BY <1>1, <4>1, <4>3, <5>1
      <4> QED BY <4>1, <4>2, <4>3
    <3> HIDE DEF to, e
    <3> QED BY <3>1, <3>2 DEF IterOK
  <2>3. CASE p > k
    <3>1. to = t[p - 1] /\ p - 1 \in 1..Len(t)
      BY <1>1, <1>2, <1>4, <2>3
    <3>2. ASSUME NEW x \in e PROVE \E i \in p - 1..Len(t) : t[i] = x
      <4>1. PICK i \in p..Len(s) : s[i] = x /\ i # k
        BY <2>1, <3>2
      <4>2. i - 1 \in p - 1..Len(t) /\ i \in 1..Len(s) /\ i > k
        BY <1>1, <2>3, <4>1
      <4> QED BY <1>1, <4>1, <4>2
    <3> HIDE DEF to, e
    <3> QED BY <3>1, <3>2 DEF IterOK
  <2>4. CASE p = k /\ k + 1 > Len(s)
    <3>1. to = NoDg /\ e = {}
      BY <1>4, <2>1, <2>4
    <3> HIDE DEF to, e
    <3> QED BY <3>1 DEF IterOK
  <2>5. CASE p = k /\ ~(k + 1 > Len(s))
    <3>1. k + 1 \in 1..Len(s) /\ k + 1 > k /\ (k + 1) - 1 = k /\ k \in 1..Len(t)
      BY <1>1, <2>5
    <3>2. to = s[k + 1] /\ t[(k + 1) - 1] = s[k + 1]
      BY <1>1, <1>4, <2>5, <3>1
    <3>3. to = t[k]
      BY <3>1, <3>2
    <3>4. ASSUME NEW x \in e PROVE \E i \in k..Len(t) : t[i] = x
      <4>1. PICK i \in p..Len(s) : s[i] = x /\ i # k
        BY <2>1, <3>4
      <4>2. i - 1 \in k..Len(t) /\ i \in 1..Len(s) /\ i > k
        BY <1>1, <2>5, <4>1
      <4> QED BY <1>1, <4>1, <4>2
    <3> HIDE DEF to, e
    <3> QED BY <3>1, <3>3, <3>4 DEF IterOK
  <2> QED BY <2>2, <2>3, <2>4, <2>5
<1> QED BY <1>3, <1>4 DEF IterOK, t

\* A new flow goes to the end of the list, behind the iterator's.
LEMMA AppendedList ==
    ASSUME NEW s, FlowList(s), NEW x \in Gateways, ~InList(s, x), NEW it, NEW d, IterOK(s, it, d)
    PROVE  /\ FlowList(Append(s, x)) /\ IterOK(Append(s, x), it, d)
           /\ \A y : InList(Append(s, x), y) <=> InList(s, y) \/ y = x
<1> DEFINE t == Append(s, x)
<1>1. s \in Seq(Gateways) /\ Len(s) \in Nat
  BY DEF FlowList
<1>2. t \in Seq(Gateways) /\ Len(t) = Len(s) + 1 /\ t[Len(s) + 1] = x /\ \A i \in 1..Len(s) : t[i] = s[i]
  BY <1>1
<1> HIDE DEF t
<1>3. \A i \in 1..Len(s) : s[i] # x
  BY DEF InList
<1>4. FlowList(t)
  BY <1>1, <1>2, <1>3 DEF FlowList
<1>5. \A y : InList(t, y) <=> InList(s, y) \/ y = x
  BY <1>1, <1>2 DEF InList
<1>6. ASSUME NEW p \in 1..Len(s), it = s[p], \A y \in d : \E i \in p..Len(s) : s[i] = y
      PROVE  IterOK(t, it, d)
  <2>1. p \in 1..Len(t) /\ it = t[p]
    BY <1>1, <1>2, <1>6
  <2>2. ASSUME NEW y \in d PROVE \E i \in p..Len(t) : t[i] = y
    <3>1. PICK i \in p..Len(s) : s[i] = y
      BY <1>6, <2>2
    <3>2. i \in p..Len(t) /\ i \in 1..Len(s)
      BY <1>1, <1>2
    <3> QED BY <1>2, <3>1, <3>2
  <2> QED BY <2>1, <2>2 DEF IterOK
<1>7. IterOK(t, it, d)
  BY <1>6 DEF IterOK
<1> QED BY <1>4, <1>5, <1>7 DEF t

\* Steps that neither move the iterator nor change the list: the flows of the
\* table are the same.
LEMMA SameList ==
    ASSUME IterInv, UNCHANGED <<list, arpIterVars>>,
           \A ip \in Gateways : flow'[ip].state # "none" <=> flow[ip].state # "none"
    PROVE  IterInv'
BY DEF IterInv, arpIterVars, Exists

\* Steps that add one flow at most.
LEMMA AddedFlow ==
    ASSUME IterInv, NEW x, UNCHANGED arpIterVars,
           list' = IF x \in Gateways /\ ~Exists(x) THEN Append(list, x) ELSE list,
           \A ip \in Gateways : flow'[ip].state # "none" <=> flow[ip].state # "none" \/ ip = x
    PROVE  IterInv'
<1>1. CASE x \in Gateways /\ ~Exists(x)
  <2>1. list' = Append(list, x) /\ ~InList(list, x) /\ FlowList(list) /\ IterOK(list, activeIter, due)
    BY <1>1 DEF IterInv
  <2>2. /\ FlowList(list') /\ IterOK(list', activeIter, due)
        /\ \A y : InList(list', y) <=> InList(list, y) \/ y = x
    BY <1>1, <2>1, AppendedList
  <2> QED BY <2>2 DEF IterInv, arpIterVars, Exists
<1>2. CASE ~(x \in Gateways /\ ~Exists(x))
  BY <1>2 DEF IterInv, arpIterVars, Exists
<1> QED BY <1>1, <1>2

\* What linking and unlinking a client do to the state of a flow.
LEMMA LinkStates ==
    ASSUME NEW f \in AnyFlow, NEW c \in Clients
    PROVE  /\ Associated(f, c).state # "none"
           /\ Disassociated(f, c).state # "none" <=> f.state # "none"
<1> DEFINE g == [f EXCEPT !.head = f.head \cup {c}, !.refc = f.refc + 1]
           h == [f EXCEPT !.head = f.head \ {c}, !.refc = f.refc - 1]
<1>1. g.state = f.state /\ h.state = f.state
  BY DEF AnyFlow
<1>2. Associated(f, c).state # "none"
  <2>1. \A u : u = g => [u EXCEPT !.state = "complete", !.touch = FALSE].state = "complete"
    BY DEF AnyFlow
  <2>2. NewIncomplete(c).state = "incomplete"
    BY DEF NewIncomplete
  <2> QED BY <1>1, <2>1, <2>2 DEF Associated, MoveToComplete
<1>3. Disassociated(f, c).state # "none" <=> f.state # "none"
  <2>1. \A u : u = h => [u EXCEPT !.state = "learned", !.touch = FALSE].state = "learned"
    BY DEF AnyFlow
  <2> QED BY <1>1, <2>1 DEF Disassociated, MoveToLearn
<1> QED BY <1>2, <1>3

\* What packets and timers do to the state of a flow.
LEMMA FlowStates ==
    ASSUME NEW f \in AnyFlow
    PROVE  /\ Learned(f).state # "none"
           /\ Retried(f).state = f.state /\ Refreshed(f).state # "none"
           /\ [f EXCEPT !.touch = FALSE].state = f.state
           /\ [f EXCEPT !.index = 0] \in AnyFlow
<1> DEFINE r == Retried(f)
<1>4. Learned(f).state # "none"
  <2>1. [f EXCEPT !.resolved = TRUE, !.touch = TRUE].state = f.state
    BY DEF AnyFlow
  <2>2. [[f EXCEPT !.resolved = TRUE] EXCEPT !.state = "complete", !.touch = FALSE].state = "complete"
    BY DEF AnyFlow
  <2>3. NewLearned.state = "learned"
    BY DEF NewLearned
  <2> QED BY <2>1, <2>2, <2>3 DEF Learned, MoveToComplete
<1>5. r.state = f.state /\ r = [f EXCEPT !.index = NextIndex(f.index), !.timer = TRUE]
  BY DEF AnyFlow, Retried
<1>6. Refreshed(f).state # "none"
  <2>1. [r EXCEPT !.state = "incomplete", !.resolved = FALSE].state = "incomplete"
    BY <1>5 DEF AnyFlow
  <2>2. [r EXCEPT !.state = "refresh"].state = "refresh"
    BY <1>5 DEF AnyFlow
  <2> QED BY <2>1, <2>2 DEF Refreshed
<1>7. [f EXCEPT !.touch = FALSE].state = f.state /\ [f EXCEPT !.index = 0] \in AnyFlow
  BY DEF AnyFlow
<1> QED BY <1>4, <1>5, <1>6, <1>7

\* OnChangeDGSrcIPv4 adds the flow of the new gateway if there is none.
LEMMA ChangeIter ==
    ASSUME IterInv, KeepInv, NEW c \in Clients, NEW out, NEW in \in Addr, in = out => in = NoDg,
           OnChangeDGSrcIPv4(c, out, in), UNCHANGED arpIterVars
    PROVE  IterInv'
<1>1. list' = IF in \in Gateways /\ ~Exists(in) THEN Append(list, in) ELSE list
  BY DEF OnChangeDGSrcIPv4, Addr
<1>2. ASSUME NEW ip \in Gateways PROVE flow'[ip].state # "none" <=> flow[ip].state # "none" \/ ip = in
  <2>1. flow[ip] \in AnyFlow
    BY DEF KeepInv, KeepOK
  <2>2. CASE ip = in
    <3>1. ip # out
      BY <2>2
    <3>2. flow'[ip] = Associated(flow[ip], c)
      BY <2>2, <3>1 DEF OnChangeDGSrcIPv4
    <3>3. Associated(flow[ip], c).state # "none"
      BY <2>1, LinkStates
    <3> QED BY <2>2, <3>2, <3>3
  <2>3. CASE ip # in /\ ip = out
    <3>1. flow'[ip] = Disassociated(flow[ip], c)
      BY <2>3 DEF OnChangeDGSrcIPv4
    <3>2. Disassociated(flow[ip], c).state # "none" <=> flow[ip].state # "none"
      BY <2>1, LinkStates
    <3> QED BY <2>3, <3>1, <3>2
  <2>4. CASE ip # in /\ ip # out
    BY <2>4 DEF OnChangeDGSrcIPv4
  <2> QED BY <2>2, <2>3, <2>4
<1> QED BY <1>1, <1>2, AddedFlow

\* The timer of a flow: only an untouched learned flow is deleted, and the
\* iterator is moved off it.
LEMMA TimerIter ==
    ASSUME IterInv, KeepInv, NEW ip \in Gateways, TimerFires(ip)
    PROVE  IterInv'
<1> DEFINE f == flow[ip]
<1>1. f \in AnyFlow /\ flow = [i \in Gateways |-> flow[i]]
  BY DEF KeepInv, KeepOK
<1>2. ASSUME NEW g, flow' = [flow EXCEPT ![ip] = g], g.state # "none", f.state # "none",
             UNCHANGED <<list, arpIterVars>>
      PROVE  IterInv'
  <2>1. \A i \in Gateways : flow'[i].state # "none" <=> flow[i].state # "none"
    BY <1>1, <1>2
  <2> QED BY <1>2, <2>1, SameList
<1>3. ASSUME f.state # "none", flow' = [flow EXCEPT ![ip].touch = FALSE], UNCHANGED <<list, arpIterVars>>
      PROVE  IterInv'
  <2>1. flow' = [flow EXCEPT ![ip] = [f EXCEPT !.touch = FALSE]]
    BY <1>1, <1>3
  <2> DEFINE t == [f EXCEPT !.touch = FALSE]
  <2>2. t.state # "none"
    BY <1>1, <1>3, FlowStates
  <2> HIDE DEF t
  <2>3. flow' = [flow EXCEPT ![ip] = t]
    BY <2>1 DEF t
  <2> QED BY <1>2, <1>3, <2>2, <2>3
<1>4. CASE LearnedEvent(ip) /\ flow[ip].touch
  BY <1>3, <1>4 DEF LearnedEvent, Fires
<1>5. CASE LearnedEvent(ip) /\ ~flow[ip].touch
  <2>1. Exists(ip) /\ OnDeleteFlow(ip)
    BY <1>5 DEF LearnedEvent, Fires, Exists
  <2>2. FlowList(list) /\ IterOK(list, activeIter, due) /\ InList(list, ip)
    BY <2>1 DEF IterInv
  <2>3. Place(ip) \in 1..Len(list) /\ list[Place(ip)] = ip
    BY <2>2 DEF InList, Place
  <2> DEFINE k == Place(ip)
             to == IF activeIter = ip THEN (IF k + 1 > Len(list) THEN NoDg ELSE list[k + 1]) ELSE activeIter
  <2>4. list' = RemoveNode(list, k) /\ activeIter' = to /\ due' = due \ {ip} /\ arpIterReady' = arpIterReady
    BY <2>1 DEF OnDeleteFlow, At
  <2> HIDE DEF k
  <2>5. k \in 1..Len(list) /\ list[k] = ip
    BY <2>3 DEF k
  <2>6. FlowList(list') /\ \A x : InList(list', x) <=> InList(list, x) /\ x # ip
    BY <2>2, <2>4, <2>5, DeletedList
  <2>7. IterOK(list', activeIter', due')
    BY <2>2, <2>4, <2>5, DeletedIter
  <2>8. flow' = [flow EXCEPT ![ip] = NoFlow] /\ NoFlow.state = "none"
    BY <2>1 DEF OnDeleteFlow, NoFlow
  <2>9. \A i \in Gateways : flow'[i].state # "none" <=> flow[i].state # "none" /\ i # ip
    BY <1>1, <2>8
  <2>10. \A i \in Gateways : Exists(i)' <=> InList(list', i)
    BY <2>6, <2>9 DEF IterInv, Exists
  <2>11. ~arpIterReady' => due' = {}
    BY <2>4 DEF IterInv
  <2> QED BY <2>6, <2>7, <2>10, <2>11 DEF IterInv
<1>6. CASE IncompleteEvent(ip)
  <2>1. flow' = [flow EXCEPT ![ip] = Retried(f)] /\ f.state # "none" /\ UNCHANGED <<list, arpIterVars>>
    BY <1>1, <1>6 DEF IncompleteEvent, Fires
  <2>2. Retried(f).state # "none"
    BY <1>1, <2>1, FlowStates
  <2> QED BY <1>2, <2>1, <2>2
<1>7. CASE RefreshEvent(ip)
  <2>1. flow' = [flow EXCEPT ![ip] = Refreshed(f)] /\ f.state # "none" /\ UNCHANGED <<list, arpIterVars>>
    BY <1>1, <1>7 DEF RefreshEvent, Fires
  <2>2. Refreshed(f).state # "none"
    BY <1>1, FlowStates
  <2> QED BY <1>2, <2>1, <2>2
<1>8. CASE CompleteEvent(ip) /\ flow[ip].touch
  BY <1>3, <1>8 DEF CompleteEvent, Fires
<1>9. CASE CompleteEvent(ip) /\ ~flow[ip].touch
  <2> DEFINE g == [f EXCEPT !.index = 0]
  <2>1. flow' = [flow EXCEPT ![ip] = Refreshed(g)] /\ f.state # "none" /\ UNCHANGED <<list, arpIterVars>>
    BY <1>1, <1>9 DEF CompleteEvent, Fires
  <2>2. g \in AnyFlow
    BY <1>1, FlowStates
  <2> HIDE DEF g
  <2>3. Refreshed(g).state # "none"
    BY <2>2, FlowStates
  <2> QED BY <1>2, <2>1, <2>3
<1> QED BY <1>4, <1>5, <1>6, <1>7, <1>8, <1>9 DEF TimerFires

\* The iteration command returns the flows from the iterator on, and leaves the
\* iterator behind them.
LEMMA CommandIter ==
    ASSUME IterInv, NEW reset \in BOOLEAN, NEW n \in ArpCounts, Iterate(reset, n)
    PROVE  IterInv'
<1> DEFINE first == IF reset THEN 1 ELSE Pos(activeIter)
           ready == IF reset THEN list # <<>> ELSE arpIterReady
           next == IF ~ready THEN first
                   ELSE IF first + n > Len(list) THEN Len(list) + 1 ELSE first + n
           todo == IF reset THEN {list[i] : i \in 1..Len(list)} ELSE due
<1>1. /\ reset \/ ready
      /\ activeIter' = At(next)
      /\ arpIterReady' = (ready /\ next <= Len(list))
      /\ due' = todo \ {list[i] : i \in first..next - 1}
      /\ UNCHANGED <<flow, list>>
  BY DEF Iterate
<1>2. list \in Seq(Gateways) /\ Len(list) \in Nat /\ n \in Nat /\ IterOK(list, activeIter, due)
  BY DEF IterInv, FlowList
<1>3. first \in 1..Len(list) + 1 /\ \A x \in todo : \E i \in first..Len(list) : list[i] = x
  <2>1. CASE reset
    BY <1>2, <2>1
  <2>2. CASE ~reset /\ activeIter = NoDg /\ due = {}
    BY <1>2, <2>2 DEF Pos
  <2>3. ASSUME ~reset, NEW p \in 1..Len(list), activeIter = list[p],
               \A x \in due : \E i \in p..Len(list) : list[i] = x
        PROVE  first \in 1..Len(list) + 1 /\ \A x \in todo : \E i \in first..Len(list) : list[i] = x
    <3>1. activeIter # NoDg
      BY <1>2, <2>3
    <3>2. Place(activeIter) \in 1..Len(list) /\ list[Place(activeIter)] = activeIter
      BY <2>3 DEF Place
    <3>3. Place(activeIter) = p
      BY <2>3, <3>2 DEF IterInv, FlowList
    <3>4. first = p /\ todo = due
      BY <2>3, <3>1, <3>3 DEF Pos
    <3> HIDE DEF first, todo
    <3> QED BY <1>2, <2>3, <3>4
  <2> QED BY <1>2, <2>1, <2>2, <2>3 DEF IterOK
<1>4. ~ready => next = first /\ list = <<>> /\ first = 1
  BY <1>1
<1>5. /\ next \in 1..Len(list) + 1 /\ first <= next
      /\ ~ready => next = Len(list) + 1
  <2>1. CASE ready
    <3> HIDE DEF first, ready
    <3> QED BY <1>2, <1>3, <2>1
  <2>2. CASE ~ready
    BY <1>2, <1>4, <2>2
  <2> QED BY <2>1, <2>2
<1> HIDE DEF first, ready, next, todo
<1>6. ASSUME NEW x \in due' PROVE \E i \in next..Len(list) : list[i] = x
  <2>1. x \in todo /\ \A i \in first..next - 1 : list[i] # x
    BY <1>1, <1>6
  <2>2. PICK i \in first..Len(list) : list[i] = x
    BY <1>3, <2>1
  <2>3. i \in next..Len(list)
    BY <1>2, <1>3, <1>5, <2>1, <2>2
  <2> QED BY <2>2, <2>3
<1>7. CASE next <= Len(list)
  <2>0. next \in 1..Len(list) /\ ready
    BY <1>2, <1>5, <1>7
  <2>1. activeIter' = list[next]
    BY <1>1, <1>2, <1>5, <1>7 DEF At
  <2>2. IterOK(list, activeIter', due')
    BY <1>6, <2>0, <2>1 DEF IterOK
  <2>3. arpIterReady'
    BY <1>1, <1>7, <2>0
  <2> QED BY <1>1, <2>2, <2>3 DEF IterInv, Exists
<1>8. CASE ~(next <= Len(list))
  <2>1. due' = {}
    BY <1>2, <1>5, <1>6, <1>8
  <2>2. activeIter' = NoDg
    BY <1>1, <1>2, <1>5, <1>8 DEF At
  <2>3. IterOK(list, activeIter', due')
    BY <2>1, <2>2 DEF IterOK
  <2> QED BY <1>1, <2>1, <2>3 DEF IterInv, Exists
<1> QED BY <1>7, <1>8

\* Every step keeps the list and the iterator.
LEMMA NextIter ==
    ASSUME IterInv, KeepInv, dg \in [Clients -> Addr], [ArpNext]_arpVars
    PROVE  IterInv' /\ dg' \in [Clients -> Addr]
<1>0. NoDg \in Addr /\ \A c \in Clients : dg[c] \in Addr
  BY DEF Addr
<1>1. ASSUME NEW c \in Clients, NEW s \in BOOLEAN, NEW d \in Addr, NewArpClient(c, s, d)
      PROVE  IterInv' /\ dg' \in [Clients -> Addr]
  <2>1. If(s /\ c \notin Forced, d) \in Addr
    BY <1>0 DEF If
  <2> QED BY <1>1, <2>1, ChangeIter DEF NewArpClient
<1>2. ASSUME NEW c \in Clients, RemoveArpClient(c) PROVE IterInv' /\ dg' \in [Clients -> Addr]
  BY <1>0, <1>2, ChangeIter DEF RemoveArpClient
<1>3. ASSUME NEW c \in Clients, UpdateIPv4(c) PROVE IterInv' /\ dg' \in [Clients -> Addr]
  <2>1. If(~src[c], dg[c]) = If(src[c], dg[c]) => If(~src[c], dg[c]) = NoDg
    BY DEF If
  <2>2. If(~src[c], dg[c]) \in Addr
    BY <1>0 DEF If
  <2> QED BY <1>3, <2>1, <2>2, ChangeIter DEF UpdateIPv4
<1>4. ASSUME NEW c \in Clients, UpdateIPv4Taken(c) \/ PeriodicQuery(c)
      PROVE  IterInv' /\ dg' \in [Clients -> Addr]
  BY <1>4, SameList DEF UpdateIPv4Taken, PeriodicQuery, clientVars
<1>5. ASSUME NEW c \in Clients, NEW d \in Addr, UpdateDgIPv4(c, d)
      PROVE  IterInv' /\ dg' \in [Clients -> Addr]
  <2>1. If(src[c], d) = If(src[c], dg[c]) => If(src[c], d) = NoDg
    BY <1>5 DEF If, UpdateDgIPv4
  <2>2. If(src[c], d) \in Addr
    BY <1>0 DEF If
  <2> QED BY <1>5, <2>1, <2>2, ChangeIter DEF UpdateDgIPv4
<1>6. ASSUME NEW ip \in Gateways, Learn(ip) PROVE IterInv' /\ dg' \in [Clients -> Addr]
  <2>1. flow[ip] \in AnyFlow /\ flow = [i \in Gateways |-> flow[i]]
    BY DEF KeepInv, KeepOK
  <2>2. Learned(flow[ip]).state # "none"
    BY <2>1, FlowStates
  <2>3. flow' = [flow EXCEPT ![ip] = Learned(flow[ip])]
    BY <1>6, <2>1 DEF Learn
  <2>4. \A i \in Gateways : flow'[i].state # "none" <=> flow[i].state # "none" \/ i = ip
    BY <2>1, <2>2, <2>3
  <2>5. list' = IF ip \in Gateways /\ ~Exists(ip) THEN Append(list, ip) ELSE list
    BY <1>6 DEF Learn
  <2> QED BY <1>6, <2>4, <2>5, AddedFlow DEF Learn, clientVars
<1>7. ASSUME NEW ip \in Gateways, Lose(ip) PROVE IterInv' /\ dg' \in [Clients -> Addr]
  BY <1>7, SameList DEF Lose, clientVars
<1>8. ASSUME NEW ip \in Gateways, TimerFires(ip) PROVE IterInv' /\ dg' \in [Clients -> Addr]
  <2>1. dg' = dg
    BY <1>8 DEF TimerFires, LearnedEvent, IncompleteEvent, RefreshEvent, CompleteEvent, clientVars
  <2> QED BY <1>8, <2>1, TimerIter
<1>9. ASSUME NEW reset \in BOOLEAN, NEW n \in ArpCounts, Iterate(reset, n)
      PROVE  IterInv' /\ dg' \in [Clients -> Addr]
  BY <1>9, CommandIter DEF Iterate, clientVars
<1>10. CASE RemoveArpNs
  <2>1. /\ flow' = [ip \in Gateways |-> NoFlow] /\ list' = <<>> /\ activeIter' = NoDg /\ due' = {} /\ dg' = dg
    BY <1>10 DEF RemoveArpNs, Stopped, clientVars
  <2>2. FlowList(<<>>) /\ \A ip : ~InList(<<>>, ip)
    BY DEF FlowList, InList
  <2>3. \A ip \in Gateways : flow'[ip].state = "none"
    BY <2>1 DEF NoFlow
  <2> QED BY <2>1, <2>2, <2>3 DEF IterInv, IterOK, Exists
<1>11. CASE UNCHANGED arpVars
  BY <1>11, SameList DEF arpVars, clientVars
<1> QED
  BY <1>1, <1>2, <1>3, <1>4, <1>5, <1>6, <1>7, <1>8, <1>9, <1>10, <1>11 DEF ArpNext, Request, Reply

\* Whatever is learned or expires between the commands of an iteration, each
\* flow that was in the table when it began and still is has been returned or
\* is ahead of the iterator; when the iteration ends none is missing.
THEOREM IterationIsComplete == ArpSpec => []IterComplete
<1> DEFINE Inv == IterInv /\ KeepInv /\ dg \in [Clients -> Addr]
<1>1. ArpInit => Inv
  <2> SUFFICES ASSUME ArpInit PROVE Inv
    OBVIOUS
  <2>1. KeepOK(NoFlow, 0) /\ NoFlow.state = "none"
    BY NewFlows DEF KeepOK, NoFlow
  <2>2. KeepInv /\ dg \in [Clients -> Addr]
    BY <2>1 DEF ArpInit, KeepInv, Addr
  <2>3. FlowList(<<>>) /\ \A ip : ~InList(<<>>, ip)
    BY DEF FlowList, InList
  <2>4. IterInv
    BY <2>1, <2>3 DEF ArpInit, IterInv, IterOK, Exists
  <2> QED BY <2>2, <2>4
<1>2. Inv /\ [ArpNext]_arpVars => Inv'
  <2> SUFFICES ASSUME Inv, [ArpNext]_arpVars PROVE Inv'
    OBVIOUS
  <2>1. KeepInv'
    BY NextKeeps DEF KeepStep, KeepInv
  <2> QED BY <2>1, NextIter
<1>3. Inv => IterComplete
  <2> SUFFICES ASSUME IterInv PROVE IterComplete
    OBVIOUS
  <2>1. list \in Seq(Gateways) /\ Len(list) \in Nat
    BY DEF IterInv, FlowList
  <2>2. CASE activeIter = NoDg /\ due = {}
    BY <2>2 DEF IterComplete
  <2>3. ASSUME NEW p \in 1..Len(list), activeIter = list[p],
               \A x \in due : \E i \in p..Len(list) : list[i] = x
        PROVE  IterComplete
    <3>1. activeIter # NoDg
      BY <2>1, <2>3
    <3>2. Place(activeIter) \in 1..Len(list) /\ list[Place(activeIter)] = activeIter
      BY <2>3 DEF Place
    <3>3. Place(activeIter) = p
      BY <2>3, <3>2 DEF IterInv, FlowList
    <3>4. Pos(activeIter) = p
      BY <3>1, <3>3 DEF Pos
    <3> QED BY <2>3, <3>4 DEF IterComplete, IterInv
  <2> QED BY <2>2, <2>3 DEF IterInv, IterOK
<1> QED BY <1>1, <1>2, <1>3, PTL DEF ArpSpec
=============================================================================
