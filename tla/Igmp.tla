--------------------------------- MODULE Igmp ---------------------------------
(***************************************************************************)
(* The IGMP plugin of a namespace (emu/plugins/igmp/igmp.go).  Groups are  *)
(* joined and left by RPC, for all or some sources, in batches; each one    *)
(* reports what it changed and stops at the first error.  A router query   *)
(* is answered from a timer, in slices, while batches go on.  Reports are  *)
(* sent for the designator client, and only while it exists and has an     *)
(* address.                                                                *)
(*                                                                         *)
(* igRouter is what a router that hears every report believes; igStale the *)
(* groups it cannot know (changed with no designator, or reported by the   *)
(* old version, which has no sources); igOwed the groups the query being   *)
(* answered still owes; igExtra says a group was reported that was not     *)
(* owed.                                                                   *)
(***************************************************************************)
EXTENDS McReport

CONSTANTS IgGroups, IgSources, MaxResps, MinTick, MaxPPS,
          MaxIgOps      \* batches, changes of designator and queries
VARIABLES ig, igRouter, igStale, igOwed, igExtra, igOps

igVars == <<ig, igRouter, igStale, igOwed, igExtra, igOps>>

SGs == [g : IgGroups, s : IgSources]
Batches(S) == {<<a>> : a \in S} \cup (S \X S)

IgInit == /\ \E d \in BOOLEAN : ig = [NewPlugin EXCEPT !.des = d]
          /\ igRouter = [g \in IgGroups |-> {}]
          /\ igStale = {} /\ igOwed = {} /\ igExtra = FALSE /\ igOps = 0

\* IgmpFlowTbl.addMc, removeMc
IgTblAddMc(st, g) ==
    IF g \in Groups(st) THEN Fails(st)
    ELSE Done(AddLast(st, [g |-> g, srcs |-> All, epoc |-> st.qEpoc, man |-> TRUE, refc |-> 0]), TRUE, FALSE)

IgTblRemoveMc(st, g) ==
    IF g \notin Groups(st) THEN Fails(st) ELSE Done(DropEntry(st, g), TRUE, FALSE)

IgAddMc(st, ivec) ==
    Batch(st, ivec, IgTblAddMc, MaxIdsNow(st), LAMBDA t, f, v : SendMcPacket(t, v, FALSE, FALSE))

IgRemoveMc(st, ivec) ==
    Batch(st, ivec, IgTblRemoveMc, MaxIdsNow(st), LAMBDA t, f, v : SendMcPacket(t, v, TRUE, FALSE))

\* the reports are heard; what could not be heard makes a group stale
IgSent(st) ==
    /\ ig' = [st EXCEPT !.out = <<>>]
    /\ igRouter' = HearAll(igRouter, st.out)
    /\ igStale' = igStale
         \cup {g \in IgGroups : ~ig.des /\ TableView(st, g) # TableView(ig, g)}
         \cup {r.g : r \in {x \in ToSet(st.out) : x.type = "report" /\ TableView(st, x.g) # All}}

IgBatch(st) == /\ igOps < MaxIgOps /\ igOps' = igOps + 1
               /\ IgSent(st)
               /\ igOwed' = igOwed \cap Groups(st)
               /\ UNCHANGED igExtra

ApiIgmpNsAdd == \E ivec \in Batches(IgGroups) : IgBatch(IgAddMc(ig, ivec))
ApiIgmpNsRemove == \E ivec \in Batches(IgGroups) : IgBatch(IgRemoveMc(ig, ivec))
ApiIgmpNsAddSG == \E ivec \in Batches(SGs) : IgBatch(AddMcSG(ig, ivec))
ApiIgmpNsRemoveSG == \E ivec \in Batches(SGs) : IgBatch(RemoveMcSG(ig, ivec))

\* igmp_ns_set_cfg, or the designator client comes, goes or gets its address
ApiIgmpSet == /\ igOps < MaxIgOps /\ igOps' = igOps + 1
              /\ ig' = [ig EXCEPT !.des = ~@]
              /\ UNCHANGED <<igRouter, igStale, igOwed, igExtra>>

\* HandleRxIgmpV2Query, HandleRxIgmpV3Query: the version is the query's, before
\* HandleRxIgmpCmn looks at the query that may be active
IgQuery(ver, resp) ==
    LET s == [ig EXCEPT !.ver = ver]
    IN  StartQuery(s, CalcTimerInfo(Len(s.tbl), MaxIdsNow(s), resp, MinTick, MaxPPS).pkts)

HandleRxIgmpGeneral ==
    \E ver \in {"new", "old"}, resp \in MaxResps :
        /\ igOps < MaxIgOps /\ igOps' = igOps + 1
        /\ ig' = IgQuery(ver, resp)
        /\ UNCHANGED <<igRouter, igStale, igOwed, igExtra>>

HandleRxIgmpGroup ==
    \E ver \in {"new", "old"}, g \in IgGroups :
        /\ igOps < MaxIgOps /\ igOps' = igOps + 1
        /\ IgSent(AnswerGroup([ig EXCEPT !.ver = ver], g))
        /\ UNCHANGED <<igOwed, igExtra>>

\* onTimerUpdate
IgOnTimerUpdate ==
    /\ ig.timer
    /\ LET r == StartQueryReport(ig)
           owed == IF ig.started THEN Groups(ig) ELSE igOwed
       IN  /\ IgSent(r.st)
           /\ igOwed' = owed \ ToSet(r.vec)
           /\ igExtra' = (igExtra \/ ~IsInjective(r.vec) \/ ~(ToSet(r.vec) \subseteq owed))
    /\ UNCHANGED igOps

\* igmp_ns_iter
ApiIgmpNsIter ==
    /\ \E reset \in BOOLEAN :
         LET s == IF reset THEN IterReset(ig) ELSE ig
         IN  ig' = IF s.rdy THEN GetNext(s) ELSE s
    /\ UNCHANGED <<igRouter, igStale, igOwed, igExtra, igOps>>

IgNext == ApiIgmpNsAdd \/ ApiIgmpNsRemove \/ ApiIgmpNsAddSG \/ ApiIgmpNsRemoveSG
          \/ ApiIgmpSet \/ HandleRxIgmpGeneral \/ HandleRxIgmpGroup
          \/ IgOnTimerUpdate \/ ApiIgmpNsIter

-----------------------------------------------------------------------------
\* A router that hears every report believes of each group exactly what the
\* table holds, sources included, whatever batches failed half way and queries
\* were answered: addMc, RemoveMc, addMcSG and removeMcSG report what they did
\* before an error, and a query takes the form without sources only when no
\* entry has any (sgCount).
IgRouterAgrees == \A g \in IgGroups \ igStale : igRouter[g] = TableView(ig, g)

\* A general query is answered with every group that was in the table when the
\* answer began and was not left since, once each, and with no other, however
\* batches change the list under startQueryReport's iterator.
IgQueryExact == ~igExtra /\ (~ig.active => igOwed = {})

\* The RPC iterator never stands on an entry that left the table when GetNext
\* goes on with it: every batch moves the epoch that GetNext compares.
IgIterSafe == ig.rdy /\ ig.itEpoc = ig.epoc => ig.itPos \in Groups(ig)

\* The packets of SendMcPacketSGQuery for the whole table hold each group's
\* mode and sources exactly once, and none is over the payload.
IgPackExact == PacksExactly(ig, PackQuery(ig, [i \in DOMAIN ig.tbl |-> ig.tbl[i].g]), IgSources)

\* The reports of IGMP, its answers to queries, its iterator and its packets agree with the table.
IgmpSound == IgRouterAgrees /\ IgQueryExact /\ IgIterSafe /\ IgPackExact
=============================================================================
