----------------------------------- MODULE Ipv6 -----------------------------------
EXTENDS McReport, Integers, Sequences, FiniteSets, SequencesExt

-----------------------------------------------------------------------------
(***************************************************************************)
(* The MLD part of the IPv6 plugin (emu/plugins/ipv6/mld.go): the IGMP     *)
(* plugin's table, batches and queries (McReport), with two kinds of user  *)
(* of a group.  Management (RPC) owns an entry at most once (man); clients *)
(* own it as often as they joined (refc).  Clients join and leave through  *)
(* two caches, each with a timer of one tick; order holds the cache timers *)
(* that run, in the order in which they will fire.                         *)
(***************************************************************************)
MldNew == NewPlugin @@ [add |-> <<>>, rem |-> <<>>, order |-> <<>>, panic |-> FALSE]

\* IgmpFlowTbl.addMc
MldTblAddMc(st, g, man) ==
    IF g \notin Groups(st)
    THEN Done(AddLast(st, [g |-> g, srcs |-> All, epoc |-> st.qEpoc, man |-> man,
                           refc |-> IF man THEN 0 ELSE 1]), TRUE, FALSE)
    ELSE IF ~man THEN Done([st EXCEPT !.tbl[IndexOf(st, g)].refc = @ + 1], FALSE, FALSE)
    ELSE IF ~Entry(st, g).man THEN Done([st EXCEPT !.tbl[IndexOf(st, g)].man = TRUE], FALSE, FALSE)
    ELSE Fails(st)

\* IgmpFlowTbl.removeMc
MldTblRemoveMc(st, g, man) ==
    LET e == Entry(st, g)
        t == IF man THEN [st EXCEPT !.tbl[IndexOf(st, g)].man = FALSE]
             ELSE [st EXCEPT !.tbl[IndexOf(st, g)].refc = @ - 1]
    IN  IF g \notin Groups(st) THEN Fails(st)
        ELSE IF man /\ ~e.man THEN Fails(st)
        ELSE IF ~man /\ e.refc = 0 THEN Fails([st EXCEPT !.panic = TRUE])
        ELSE IF Entry(t, g).refc = 0 /\ ~Entry(t, g).man THEN Done(DropEntry(t, g), TRUE, FALSE)
        ELSE Done(t, FALSE, FALSE)

\* SendMcPacket and SendMcPacketv1
MldSendMcPacket(st, vec, remove, query) == SendMcPacket(st, vec, remove, query)

AddMcVec(st, ivec, isMan) ==
    Batch(st, ivec, LAMBDA t, g : MldTblAddMc(t, g, isMan), MaxIdsNow(st),
          LAMBDA t, f, v : MldSendMcPacket(t, v, FALSE, FALSE))

RemoveMcVec(st, ivec, isMan) ==
    Batch(st, ivec, LAMBDA t, g : MldTblRemoveMc(t, g, isMan), MaxIdsNow(st),
          LAMBDA t, f, v : MldSendMcPacket(t, v, TRUE, FALSE))

-----------------------------------------------------------------------------
(* the caches *)

Arm(st, t) == IF t \in ToSet(st.order) THEN st ELSE [st EXCEPT !.order = Append(@, t)]

\* addMcCache, removeMcCache
AddMcCache(st, g) == Arm([st EXCEPT !.add = Append(@, g)], "add")
RemoveMcCache(st, g) == Arm([st EXCEPT !.rem = Append(@, g)], "rem")

FlushAddCache(st) ==
    IF st.add = <<>> THEN st ELSE [AddMcVec(st, st.add, FALSE) EXCEPT !.add = <<>>]

\* mutant: the cache is not emptied
FlushRemoveKeeps(st) == IF st.rem = <<>> THEN st ELSE RemoveMcVec(st, st.rem, FALSE)

FlushRemoveCache(st) ==
    IF st.rem = <<>> THEN st ELSE [RemoveMcVec(st, st.rem, FALSE) EXCEPT !.rem = <<>>]

\* onCacheTimerUpdate
OnCacheTimerUpdate(st) ==
    LET t == [st EXCEPT !.order = Tail(@)]
    IN  IF Head(st.order) = "add" THEN FlushAddCache(t) ELSE FlushRemoveCache(t)

\* OnRemove: the caches are flushed, removals first
MldOnRemove(st) ==
    LET s0 == [st EXCEPT !.timer = FALSE]
        removed == IF "rem" \in ToSet(st.order) THEN FlushRemoveCache(s0) ELSE s0
        added == IF "add" \in ToSet(st.order) THEN FlushAddCache(removed) ELSE removed
    IN  [added EXCEPT !.order = <<>>]

-----------------------------------------------------------------------------
(* queries, as for IGMP: the version is the query's, before the active check *)

\* HandleRxMldV1Query, HandleRxMld2Query, HandleRxMldCmn for a general query
MldQuery(st, ver, resp, minTick, maxPPS) ==
    LET s == [st EXCEPT !.ver = ver]
    IN  StartQuery(s, CalcTimerInfo(Len(s.tbl), MaxIdsNow(s), resp, minTick, maxPPS).pkts)

\* SendMcPacketSGQuery, pushEntry and flushEntries
MldSendMcPacketSGQuery(st, vec) == SendMcPacketSGQuery(st, vec)

\* HandleRxMldCmn for a group
MldGroupQuery(st, ver, g) ==
    LET s == [st EXCEPT !.ver = ver]
    IN  IF g \notin Groups(s) THEN s
        ELSE IF Entry(s, g).srcs = All \/ ver = "old" THEN MldSendMcPacket(s, <<g>>, FALSE, TRUE)
        ELSE MldSendMcPacketSGQuery(s, <<g>>)

\* OnEvent and startQueryReport
MldOnEvent(st) == StartQueryReport(st)

\* SendMcPacketSG
MldSendMcPacketSG(st, fvec, vec, remove) == SendMcPacketSG(st, fvec, vec, remove)

\* IgmpFlowTbl.addMcSG, removeMcSG: only of entries of management
MldTblAddMcSG(st, r) == TblAddMcSG(st, r)
MldTblRemoveMcSG(st, r) == TblRemoveMcSG(st, r)

MldAddMcSG(st, ivec) ==
    Batch(st, ivec, MldTblAddMcSG, MaxIdsSGNow(st),
          LAMBDA t, f, v : MldSendMcPacketSG(t, [i \in DOMAIN f |-> f[i].g], v, FALSE))

MldRemoveMcSG(st, ivec) ==
    Batch(st, ivec, MldTblRemoveMcSG, MaxIdsSGNow(st),
          LAMBDA t, f, v : MldSendMcPacketSG(t, <<>>, v, TRUE))

\* IterReset, GetNext
MldIter(st, reset) ==
    LET s == IF reset THEN IterReset(st) ELSE st
    IN  IF s.rdy THEN GetNext(s) ELSE s

-----------------------------------------------------------------------------
(***************************************************************************)
(* The neighbour cache of a namespace (Ipv6NsCacheFlowTable in             *)
(* emu/plugins/ipv6/nd.go).  nd.flows is the list of flows                 *)
(* [ip, state, idx, touch, refc, users, res]: users are the clients linked *)
(* to the flow, res whether the MAC is known.  Every flow has a running    *)
(* timer, which may fire at any moment.  nd.iter is the RPC iterator's     *)
(* position: it has no epoch and is moved off a flow that is deleted.      *)
(***************************************************************************)
CONSTANT NdRetries     \* the last index of defaultRetryTimerSec

NdHead == "head"
NdNew == [flows |-> <<>>, iter |-> NdHead, rdy |-> FALSE, panic |-> FALSE]

NdIps(nd) == {nd.flows[i].ip : i \in DOMAIN nd.flows}
NdAt(nd, ip) == CHOOSE i \in DOMAIN nd.flows : nd.flows[i].ip = ip
NdFlow(nd, ip) == nd.flows[NdAt(nd, ip)]
NdAfter(nd, ip) == IF NdAt(nd, ip) = Len(nd.flows) THEN NdHead ELSE nd.flows[NdAt(nd, ip) + 1].ip
NdPut(nd, f) == [nd EXCEPT !.flows[NdAt(nd, f.ip)] = f]

\* GetNextTicks: the next retry interval
NextIdx(i) == IF i < NdRetries THEN i + 1 ELSE NdRetries

\* AddNew
NdAddNew(nd, ip, state, res) ==
    [nd EXCEPT !.flows = Append(@, [ip |-> ip, state |-> state, res |-> res, touch |-> FALSE, users |-> <<>>,
                                    refc |-> IF state = "learned" THEN 0 ELSE 1,
                                    idx |-> IF state = "learned" THEN 0 ELSE NextIdx(0)])]

MoveToLearn(f) == [f EXCEPT !.touch = FALSE, !.state = "learned"]
MoveToComplete(f) == [f EXCEPT !.touch = FALSE, !.state = "complete"]

\* AssociateWithClient
NdAssociate(f) ==
    IF f.state = "learned" THEN MoveToComplete([f EXCEPT !.refc = 1]) ELSE [f EXCEPT !.refc = @ + 1]

\* NdNsCtx.AssociateClient
AssociateClient(nd, c, ip) ==
    LET n == IF ip \in NdIps(nd) THEN NdPut(nd, NdAssociate(NdFlow(nd, ip)))
             ELSE NdAddNew(nd, ip, "incomplete", FALSE)
    IN  NdPut(n, [NdFlow(n, ip) EXCEPT !.users = Append(@, c)])

\* mutant: the client stays linked to the flow
DisassociateKeeps(nd, c, ip) ==
    LET f == [NdFlow(nd, ip) EXCEPT !.refc = @ - 1]
    IN  NdPut(nd, IF f.refc = 0 THEN MoveToLearn(f) ELSE f)

\* NdNsCtx.DisassociateClient, for a client that is linked
DisassociateClient(nd, c, ip) ==
    LET f == [NdFlow(nd, ip) EXCEPT !.refc = @ - 1, !.users = SelectSeq(@, LAMBDA d : d # c)]
    IN  NdPut(nd, IF f.refc = 0 THEN MoveToLearn(f) ELSE f)

\* Ipv6NsCacheFlowTable.NdLearn and NdNsCtx.NdLearn
NdLearn(nd, ip) ==
    IF ip \notin NdIps(nd) THEN NdAddNew(nd, ip, "learned", TRUE)
    ELSE LET f == [NdFlow(nd, ip) EXCEPT !.res = TRUE]
         IN  NdPut(nd, IF f.state \in {"learned", "complete"} THEN [f EXCEPT !.touch = TRUE]
                       ELSE MoveToComplete(f))

\* OnDeleteFlow: the iterator steps over the flow
NdDeleteFlow(nd, ip) ==
    [nd EXCEPT !.flows = SelectSeq(@, LAMBDA f : f.ip # ip), !.iter = IF @ = ip THEN NdAfter(nd, ip) ELSE @]

\* SendQuery goes out for the first client of the flow
SendQuery(nd, f) == [NdPut(nd, f) EXCEPT !.panic = @ \/ f.users = <<>>]

\* handleRefreshState
HandleRefreshState(nd, f) ==
    LET i == NextIdx(f.idx)
        n == SendQuery(nd, [f EXCEPT !.idx = i])
    IN  IF i > 2 THEN NdPut(n, [f EXCEPT !.idx = i, !.state = "incomplete", !.res = FALSE]) ELSE n

\* OnEvent: the timer of a flow
NdOnEvent(nd, ip) ==
    LET f == NdFlow(nd, ip)
    IN  CASE f.state = "learned" ->
               IF f.touch THEN NdPut(nd, [f EXCEPT !.touch = FALSE]) ELSE NdDeleteFlow(nd, ip)
          [] f.state = "incomplete" -> SendQuery(nd, [f EXCEPT !.idx = NextIdx(@)])
          [] f.state = "complete" ->
               IF f.touch THEN NdPut(nd, [f EXCEPT !.touch = FALSE])
               ELSE HandleRefreshState(nd, [f EXCEPT !.state = "refresh", !.idx = 0])
          [] f.state = "refresh" -> HandleRefreshState(nd, f)

\* IterReset, GetNext(1)
NdIterReset(nd) ==
    [nd EXCEPT !.iter = IF nd.flows = <<>> THEN NdHead ELSE nd.flows[1].ip, !.rdy = nd.flows # <<>>]

NdGetNext(nd) ==
    IF nd.iter = NdHead THEN [nd EXCEPT !.rdy = FALSE]
    ELSE LET p == NdAfter(nd, nd.iter) IN [nd EXCEPT !.iter = p, !.rdy = p # NdHead]

NdIter(nd, reset) ==
    LET n == IF reset THEN NdIterReset(nd) ELSE nd
    IN  IF n.rdy THEN NdGetNext(n) ELSE n

-----------------------------------------------------------------------------
(***************************************************************************)
(* The IPv6 plugin of a namespace and of its clients (emu/plugins/ipv6):   *)
(* MLD (Mld), the neighbour cache (NdTable), router solicitation, and the  *)
(* clients' side of neighbour discovery, which drives the first two.  With *)
(* it goes the address table of the namespace (UpdateClientDIpv6).         *)
(*                                                                         *)
(* c6[c] is a client: up; ip its static and dip its DHCPv6 address; dg its *)
(* gateway, fixed when it is created (nothing broadcasts a change of it).  *)
(* map6 maps addresses to clients.  ra is the router: known after an adv., *)
(* pfx its prefix, cnt and timer the solicitation, mac the client that     *)
(* solicits.  leak6 is a history variable: groups whose count is known to  *)
(* be off, because a client left a group before the cache had joined it,   *)
(* or because an address was dropped without telling the plugin.           *)
(***************************************************************************)
CONSTANTS Clients6, Addrs6, Dgs6, None6,
          SolGroup,      \* the solicited-node group of a client's MAC or an address
          AllNodes,      \* the all-nodes group
          McGroups,      \* groups that management uses
          Sources6, Designator, Resps6, MinTick6, MaxPPS6,
          RouteSolRet,
          Max6           \* calls and messages
VARIABLES m6, nd, ra, c6, map6, leak6, ops6, router6, stale6, owed6, extra6

vars6 == <<m6, nd, ra, c6, map6, leak6, ops6, router6, stale6, owed6, extra6>>
mldGhost == <<router6, stale6, owed6, extra6>>

Groups6 == {AllNodes} \cup Range(SolGroup) \cup McGroups
NoClient == [up |-> FALSE, ip |-> None6, dip |-> None6, dg |-> None6]

Init6 ==
    /\ m6 = MldNew /\ nd = NdNew
    /\ ra = [known |-> FALSE, pfx |-> "none", cnt |-> 0, timer |-> FALSE, mac |-> None6]
    /\ c6 = [c \in Clients6 |-> NoClient]
    /\ map6 = [a \in Addrs6 |-> None6]
    /\ leak6 = {} /\ ops6 = 0
    /\ router6 = [g \in Groups6 |-> {}]
    /\ stale6 = {} /\ owed6 = {} /\ extra6 = FALSE

Call6 == ops6 < Max6 /\ ops6' = ops6 + 1

\* the MLD part in a state in which the designator's presence is known
M6 == [m6 EXCEPT !.des = c6[Designator].up]

\* what MLD sent is heard by the router, as in Igmp
Heard(st, owed, vec) ==
    /\ m6' = [st EXCEPT !.out = <<>>, !.des = FALSE]
    /\ router6' = HearAll(router6, st.out)
    /\ stale6' = stale6
         \cup {g \in Groups6 : ~M6.des /\ TableView(st, g) # TableView(m6, g)}
         \cup {r.g : r \in {x \in ToSet(st.out) : x.type = "report" /\ TableView(st, x.g) # All}}
    /\ owed6' = (owed \ ToSet(vec)) \cap Groups(st)
    /\ extra6' = (extra6 \/ ~IsInjective(vec) \/ ~(ToSet(vec) \subseteq owed))

-----------------------------------------------------------------------------
(* clients *)

JoinAll(st, gs) == FoldLeft(AddMcCache, st, gs)
LeaveAll(st, gs) == FoldLeft(RemoveMcCache, st, gs)

\* a client's own groups, and the one of an address
OwnGroups(c, r) == <<AllNodes, SolGroup[c]>> \o (IF r.ip = None6 THEN <<>> ELSE <<SolGroup[r.ip]>>)
DipGroup(r) == IF r.dip = None6 THEN <<>> ELSE <<SolGroup[r.dip]>>

\* NewIpv6Client and NdClientCtx.OnCreate
OnCreate6(c, ip, dg) ==
    LET r == [NoClient EXCEPT !.up = TRUE, !.ip = ip, !.dg = dg]
    IN  /\ Call6 /\ ~c6[c].up
        /\ ip # None6 => map6[ip] = None6
        /\ c6' = [c6 EXCEPT ![c] = r]
        /\ map6' = [a \in Addrs6 |-> IF a = ip THEN c ELSE map6[a]]
        /\ m6' = JoinAll(m6, OwnGroups(c, r))
        /\ ra' = IF ra.mac # None6 THEN ra ELSE [ra EXCEPT !.mac = c, !.cnt = 0, !.timer = TRUE]
        /\ nd' = IF dg = None6 THEN nd ELSE AssociateClient(nd, c, dg)
        /\ UNCHANGED <<leak6, mldGhost>>

\* groups that are removed while the addition still waits behind the removal
Early(st, gs) ==
    IF st.add = <<>> \/ st.order # <<"rem", "add">> THEN {} ELSE ToSet(gs) \cap ToSet(st.add)

\* NdClientCtx.OnRemove
OnRemove6(c) ==
    LET gs == OwnGroups(c, c6[c]) \o DipGroup(c6[c])
    IN  /\ Call6 /\ c6[c].up
        /\ c6' = [c6 EXCEPT ![c] = NoClient]
        /\ map6' = [a \in Addrs6 |-> IF map6[a] = c THEN None6 ELSE map6[a]]
        /\ m6' = LeaveAll(m6, gs)
        /\ leak6' = leak6 \cup (IF Early(m6, gs) = {} THEN {} ELSE Groups6)
        /\ nd' = IF c6[c].dg = None6 THEN nd ELSE DisassociateClient(nd, c, c6[c].dg)
        /\ UNCHANGED <<ra, mldGhost>>

\* a client whose new address is refused has none
DipAfter(old, new, taken) == IF taken THEN None6 ELSE new

\* CNSCtx.UpdateClientDIpv6: an address in use is refused and the old one is
\* lost; else NdClientCtx.OnEvent leaves the old group and joins the new one
UpdateClientDIpv6(c, new) ==
    LET old == c6[c].dip
        taken == new # None6 /\ map6[new] # None6
        left == IF old = None6 THEN m6 ELSE RemoveMcCache(m6, SolGroup[old])
    IN  /\ Call6 /\ c6[c].up /\ new # old
        /\ map6' = [a \in Addrs6 |-> IF a = old THEN None6
                                     ELSE IF a = new /\ ~taken THEN c ELSE map6[a]]
        /\ c6' = [c6 EXCEPT ![c].dip = DipAfter(old, new, taken)]
        /\ m6' = IF taken THEN m6
                 ELSE IF new = None6 THEN left ELSE AddMcCache(left, SolGroup[new])
        /\ leak6' = leak6
             \cup (IF taken /\ old # None6 THEN {SolGroup[old]} ELSE {})
             \cup (IF ~taken /\ old # None6 /\ Early(m6, <<SolGroup[old]>>) # {} THEN Groups6 ELSE {})
        /\ UNCHANGED <<nd, ra, mldGhost>>

-----------------------------------------------------------------------------
(* the neighbour cache and the router *)

\* a solicitation or an override advertisement from an address that is not ours
HandleRxNeighbor ==
    /\ Call6
    /\ \E ip \in Dgs6 : nd' = NdLearn(nd, ip)
    /\ UNCHANGED <<m6, ra, c6, map6, leak6, mldGhost>>

NdTimer == /\ \E ip \in NdIps(nd) : nd' = NdOnEvent(nd, ip)
           /\ UNCHANGED <<m6, ra, c6, map6, leak6, ops6, mldGhost>>

ApiNdNsIter == /\ \E reset \in BOOLEAN : nd' = NdIter(nd, reset)
               /\ UNCHANGED <<m6, ra, c6, map6, leak6, ops6, mldGhost>>

\* a router advertisement stops the solicitation; the prefix of 64 bits gives
\* every client an address
HandleRxRouterAd ==
    /\ Call6
    /\ \E pfx \in {"none", "64", "short"} :
         ra' = [ra EXCEPT !.known = TRUE, !.timer = FALSE, !.pfx = IF pfx = "none" THEN @ ELSE pfx]
    /\ UNCHANGED <<m6, nd, c6, map6, leak6, mldGhost>>

OnRouterAdTimerUpdate ==
    /\ ra.timer
    /\ ra' = [ra EXCEPT !.cnt = @ + 1, !.timer = ra.cnt + 1 < RouteSolRet]
    /\ UNCHANGED <<m6, nd, c6, map6, leak6, ops6, mldGhost>>

\* HandleRxIpv6NdPacket for a solicitation: who answers for a target that does
\* not have the EUI-48 pattern, as those of Addrs6 do not.  A target with the
\* pattern is answered for by the client with the MAC in it, if its prefix is
\* link-local or the router's, and is never looked up by address.
AddrAnswers(a) == map6[a]

-----------------------------------------------------------------------------
(* MLD: caches, management, queries *)

CacheTimer6 == /\ m6.order # <<>>
               /\ Heard(OnCacheTimerUpdate(M6), owed6, <<>>)
               /\ UNCHANGED <<nd, ra, c6, map6, leak6, ops6>>

Batch6(st) == Call6 /\ Heard(st, owed6, <<>>) /\ UNCHANGED <<nd, ra, c6, map6, leak6>>

Vecs(S) == {<<a>> : a \in S} \cup (S \X S)
SG6 == [g : McGroups, s : Sources6]
ApiMldNsAdd == \E v \in Vecs(McGroups) : Batch6(AddMcVec(M6, v, TRUE))
ApiMldNsRemove == \E v \in Vecs(McGroups) : Batch6(RemoveMcVec(M6, v, TRUE))
ApiMldNsAddSG == \E v \in Vecs(SG6) : Batch6(MldAddMcSG(M6, v))
ApiMldNsRemoveSG == \E v \in Vecs(SG6) : Batch6(MldRemoveMcSG(M6, v))

HandleRxMldGeneral == \E ver \in {"new", "old"}, resp \in Resps6 :
                        Batch6(MldQuery(M6, ver, resp, MinTick6, MaxPPS6))
HandleRxMldGroup == \E ver \in {"new", "old"}, g \in Groups6 : Batch6(MldGroupQuery(M6, ver, g))

MldTimer ==
    /\ m6.timer
    /\ LET r == MldOnEvent(M6)
       IN  Heard(r.st, IF m6.started THEN Groups(m6) ELSE owed6, r.vec)
    /\ UNCHANGED <<nd, ra, c6, map6, leak6, ops6>>

ApiMldNsIter == /\ \E reset \in BOOLEAN : m6' = MldIter(m6, reset)
                /\ UNCHANGED <<nd, ra, c6, map6, leak6, ops6, mldGhost>>

ClientStep == \E c \in Clients6 :
    \/ \E ip \in Addrs6 \cup {None6}, dg \in Dgs6 \cup {None6} : OnCreate6(c, ip, dg)
    \/ OnRemove6(c)
    \/ \E new \in Addrs6 \cup {None6} : UpdateClientDIpv6(c, new)

MldStep == \/ ApiMldNsAdd \/ ApiMldNsRemove \/ ApiMldNsAddSG \/ ApiMldNsRemoveSG
           \/ HandleRxMldGeneral \/ HandleRxMldGroup \/ MldTimer \/ ApiMldNsIter

NdStep == \/ HandleRxNeighbor \/ NdTimer \/ ApiNdNsIter \/ HandleRxRouterAd
          \/ OnRouterAdTimerUpdate

-----------------------------------------------------------------------------
(* properties *)

Times(g, gs) == Cardinality({i \in DOMAIN gs : gs[i] = g})
Owners6(g) == FoldSet(LAMBDA c, n : n + Times(g, OwnGroups(c, c6[c]) \o DipGroup(c6[c])), 0,
                      {c \in Clients6 : c6[c].up})

\* The number of clients that MLD counts for a group, with what waits in the
\* caches, is the number of clients that use it, through joins and leaves by
\* creation, removal and new addresses, and through management joining and
\* leaving the same group: the entry lives until its last user is gone.
MldRefcExact ==
    \A g \in Groups6 \ leak6 :
        (IF g \in Groups(m6) THEN Entry(m6, g).refc ELSE 0) + Times(g, m6.add) - Times(g, m6.rem) = Owners6(g)

\* A router that hears every report believes what MLD's table holds.
MldRouterAgrees == \A g \in Groups6 \ stale6 : router6[g] = TableView(m6, g)

\* A general MLD query is answered with every group that was in the table when
\* the answer began and was not left since, once each, and with no other.
MldQueryExact == ~extra6 /\ (~m6.active => owed6 = {})

\* A gateway's flow counts exactly the clients that use that gateway, is in the
\* learned state (and may expire) exactly when there are none, and a query
\* always has a client to be sent for: no panic of the table is reachable.
NdUsersExact ==
    /\ ~nd.panic
    /\ \A c \in Clients6 : c6[c].dg # None6 => c6[c].dg \in NdIps(nd)
    /\ \A f \in ToSet(nd.flows) :
         /\ ToSet(f.users) = {c \in Clients6 : c6[c].dg = f.ip}
         /\ f.refc = Len(f.users)
         /\ (f.state = "learned") <=> (f.refc = 0)

\* The neighbour iterator stands on a flow of the table or at its end, although
\* flows expire between calls and there is no epoch to stop it.
NdIterSafe == nd.rdy => nd.iter \in NdIps(nd) \cup {NdHead}

\* Of the addresses without the EUI-48 pattern, a solicitation is answered for
\* exactly those that clients own (OwnsIPv6): the address table and the clients'
\* own records agree through every update, refused ones included.  An address
\* with the pattern is another matter: one that a client owns is not answered
\* for if its prefix is not the router's.
NdAnswersOwned ==
    \A a \in Addrs6, c \in Clients6 : AddrAnswers(a) = c <=> c6[c].up /\ a \in {c6[c].ip, c6[c].dip}

\* The counts of MLD agree with the users of a group, and its reports and answers with its table.
MldSound == MldRefcExact /\ MldRouterAgrees /\ MldQueryExact

\* The neighbour table agrees with the clients' gateways and addresses, and its iterator is safe.
NdSound == NdUsersExact /\ NdIterSafe /\ NdAnswersOwned
=============================================================================
