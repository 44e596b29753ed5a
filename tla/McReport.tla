------------------------------- MODULE McReport -------------------------------
(***************************************************************************)
(* What the IGMP plugin (emu/plugins/igmp/igmp.go) and the MLD part of the *)
(* IPv6 plugin (emu/plugins/ipv6/mld.go) have in common: a table of groups *)
(* (a map and a list), batches of additions and removals that are reported *)
(* packet by packet, and the answer to a general query, sent in slices by  *)
(* a timer while the table changes.                                        *)
(*                                                                         *)
(* st is the plugin: tbl, the list of entries [g, srcs, epoc, man, refc]   *)
(* (srcs is All or the set of included sources); sg, the number of entries *)
(* with sources; epoc and the RPC iterator (rdy, itEpoc, itPos); the query *)
(* (active, started, iter, qEpoc, aEpoc, pkts, timer); ver, "new" (IGMPv3, *)
(* MLDv2) or "old"; des, whether the designator client can send; out, the  *)
(* records that were sent.  A position is a group or Head.                 *)
(***************************************************************************)
EXTENDS Integers, Sequences, FiniteSets, SequencesExt

CONSTANTS MaxIds,    \* groups in a report: getMaxIPv4Ids for the new version
          MaxIdsSG,  \* (s,g) records in a report
          MaxPyld,   \* bytes for records in a report
          HdrLen,    \* bytes counted for the header of a group record
          SrcLen     \* bytes of a source

All == {"*"}   \* not a set of sources
Head0 == "head"

NewPlugin == [tbl |-> <<>>, sg |-> 0, epoc |-> 0, rdy |-> FALSE, itEpoc |-> 0, itPos |-> Head0,
              active |-> FALSE, started |-> FALSE, iter |-> Head0, qEpoc |-> 0, aEpoc |-> 0,
              pkts |-> 0, timer |-> FALSE, ver |-> "new", des |-> FALSE, out |-> <<>>]

Groups(st) == {st.tbl[i].g : i \in DOMAIN st.tbl}
IndexOf(st, g) == CHOOSE i \in DOMAIN st.tbl : st.tbl[i].g = g
Entry(st, g) == st.tbl[IndexOf(st, g)]
First(st) == IF st.tbl = <<>> THEN Head0 ELSE st.tbl[1].g
After(st, g) == IF IndexOf(st, g) = Len(st.tbl) THEN Head0 ELSE st.tbl[IndexOf(st, g) + 1].g
AddLast(st, e) == [st EXCEPT !.tbl = Append(@, e)]

\* mutant: every removal counts as one of an entry with sources
DropCounts(st, g) ==
    [st EXCEPT !.tbl = SelectSeq(@, LAMBDA e : e.g # g), !.sg = IF @ = 0 THEN 0 ELSE @ - 1,
               !.iter = IF @ = g THEN After(st, g) ELSE @]

\* remove an entry from the map and the list, the active iterator steps over it
DropEntry(st, g) ==
    [st EXCEPT !.tbl = SelectSeq(@, LAMBDA e : e.g # g),
               !.sg = IF Entry(st, g).srcs = All THEN @ ELSE @ - 1,
               !.iter = IF @ = g THEN After(st, g) ELSE @]

SetSources(st, g, S) == [st EXCEPT !.tbl[IndexOf(st, g)].srcs = S]

-----------------------------------------------------------------------------
(* sending *)

MaxIdsNow(st) == IF st.ver = "new" THEN MaxIds ELSE 1
MaxIdsSGNow(st) == IF st.ver = "new" THEN MaxIdsSG ELSE 1

Rec(type, g, S) == [type |-> type, g |-> g, srcs |-> S]

\* SendMcPacket: one record for each group, or a report or leave of the old version
SendMcPacket(st, vec, remove, query) ==
    LET type == IF st.ver = "old" THEN IF remove THEN "leave" ELSE "report"
                ELSE IF query THEN IF remove THEN "is_in" ELSE "is_ex"
                ELSE IF remove THEN "to_in" ELSE "to_ex"
    IN  IF ~st.des THEN st
        ELSE [st EXCEPT !.out = @ \o [i \in DOMAIN vec |-> Rec(type, vec[i], {})]]

\* SendMcPacketSG: groups that are new change to INCLUDE, then the sources
SendMcPacketSG(st, fvec, vec, remove) ==
    LET t == IF remove THEN st ELSE SendMcPacket(st, fvec, TRUE, FALSE)
        type == IF remove THEN "block" ELSE "allow"
    IN  IF ~st.des THEN st
        ELSE [t EXCEPT !.out = @ \o [i \in DOMAIN vec |-> Rec(type, vec[i].g, {vec[i].s})]]

\* calcNumSources
CalcNumSources(free, n) ==
    IF free < HdrLen + SrcLen THEN 0
    ELSE LET cnt == (free - HdrLen) \div SrcLen IN IF cnt > n THEN n ELSE cnt

\* flushEntries: the packet is sent, with what it holds
FlushEntries(pb) == [free |-> MaxPyld, cur |-> <<>>, sent |-> Append(pb.sent, pb.cur)]

\* pushEntry
PushEntry(pb, r) ==
    LET q == IF r.srcs = {} /\ pb.free < HdrLen THEN FlushEntries(pb) ELSE pb
    IN  [q EXCEPT !.cur = Append(@, r), !.free = @ - HdrLen - SrcLen * Cardinality(r.srcs)]

\* the sources of one group, split over packets
RECURSIVE PushSources(_, _, _)
PushSources(pb, g, svec) ==
    LET cnt == CalcNumSources(pb.free, Len(svec))
    IN  IF svec = <<>> THEN pb
        ELSE IF cnt = 0 THEN PushSources(FlushEntries(pb), g, svec)
        ELSE PushSources(PushEntry(pb, Rec("is_in", g, ToSet(SubSeq(svec, 1, cnt)))), g,
                         SubSeq(svec, cnt + 1, Len(svec)))

\* SendMcPacketSGQuery: the packets for the groups of vec
PackQuery(st, vec) ==
    LET Push(pb, g) == IF g \notin Groups(st) THEN pb
                       ELSE IF Entry(st, g).srcs = All THEN PushEntry(pb, Rec("is_ex", g, {}))
                       ELSE PushSources(pb, g, SetToSeq(Entry(st, g).srcs))
    IN  FlushEntries(FoldLeft(Push, [free |-> MaxPyld, cur |-> <<>>, sent |-> <<>>], vec)).sent

SendMcPacketSGQuery(st, vec) ==
    IF ~st.des \/ vec = <<>> THEN st
    ELSE [st EXCEPT !.out = @ \o FlattenSeq(PackQuery(st, vec))]

-----------------------------------------------------------------------------
(* batches *)

BumpEpoc(st) == [st EXCEPT !.epoc = @ + 1]

\* one element of a batch: Op gives [st, err, first]; a packet goes out when it
\* is full, and what was done before an error is reported
Batch(st0, ivec, Op(_, _), max, Send(_, _, _)) ==
    LET Step(b, x) ==
            LET r == Op(b.st, x)
                vec == IF r.report THEN Append(b.vec, x) ELSE b.vec
                fvec == IF r.first THEN Append(b.fvec, x) ELSE b.fvec
            IN  IF b.err THEN b
                ELSE IF r.err THEN [b EXCEPT !.st = r.st, !.err = TRUE]
                ELSE IF Len(vec) = max /\ r.report
                     THEN [st |-> Send(r.st, fvec, vec), vec |-> <<>>, fvec |-> <<>>, err |-> FALSE]
                ELSE [st |-> r.st, vec |-> vec, fvec |-> fvec, err |-> FALSE]
        b == FoldLeft(Step, [st |-> BumpEpoc(st0), vec |-> <<>>, fvec |-> <<>>,
                             err |-> FALSE], ivec)
    IN  Send(b.st, b.fvec, b.vec)

Done(st, report, first) == [st |-> st, err |-> FALSE, report |-> report, first |-> first]
Fails(st) == [st |-> st, err |-> TRUE, report |-> FALSE, first |-> FALSE]

\* IgmpFlowTbl.addMcSG, removeMcSG; an entry without sources stays in the table
TblAddMcSG(st, r) ==
    IF r.g \in Groups(st)
    THEN IF Entry(st, r.g).srcs = All \/ ~Entry(st, r.g).man THEN Fails(st)
         ELSE IF r.s \in Entry(st, r.g).srcs THEN Fails(st)
         ELSE Done(SetSources(st, r.g, Entry(st, r.g).srcs \cup {r.s}), TRUE, FALSE)
    ELSE Done([AddLast(st, [g |-> r.g, srcs |-> {r.s}, epoc |-> st.qEpoc, man |-> TRUE, refc |-> 0])
                  EXCEPT !.sg = @ + 1], TRUE, TRUE)

TblRemoveMcSG(st, r) ==
    IF r.g \notin Groups(st) THEN Fails(st)
    ELSE IF Entry(st, r.g).srcs = All \/ ~Entry(st, r.g).man THEN Fails(st)
    ELSE IF r.s \notin Entry(st, r.g).srcs THEN Fails(st)
    ELSE Done(SetSources(st, r.g, Entry(st, r.g).srcs \ {r.s}), TRUE, FALSE)

AddMcSG(st, ivec) ==
    LET Send(t, fvec, vec) == SendMcPacketSG(t, [i \in DOMAIN fvec |-> fvec[i].g], vec, FALSE)
    IN  Batch(st, ivec, TblAddMcSG, MaxIdsSGNow(st), Send)

RemoveMcSG(st, ivec) ==
    LET Send(t, fvec, vec) == SendMcPacketSG(t, <<>>, vec, TRUE)
    IN  Batch(st, ivec, TblRemoveMcSG, MaxIdsSGNow(st), Send)

-----------------------------------------------------------------------------
(* the general query *)

\* PackQuery for the whole table holds each group's mode and sources exactly
\* once, in packets that fit
PacksExactly(st, sent, sources) ==
    LET recs == FlattenSeq(sent)
        Size(r) == HdrLen + SrcLen * Cardinality(r.srcs)
        Count(P(_)) == Cardinality({i \in DOMAIN recs : P(recs[i])})
    IN  /\ \A i \in DOMAIN sent : FoldLeft(LAMBDA n, r : n + Size(r), 0, sent[i]) <= MaxPyld
        /\ \A e \in ToSet(st.tbl) :
             IF e.srcs = All THEN Count(LAMBDA r : r.g = e.g) = 1 /\ Count(LAMBDA r : r = Rec("is_ex", e.g, {})) = 1
             ELSE \A s \in sources : Count(LAMBDA r : r.g = e.g /\ r.type = "is_in" /\ s \in r.srcs)
                                      = (IF s \in e.srcs THEN 1 ELSE 0)

\* calcTimerInfo, in whole numbers: ticks between packets and packets in a tick
CalcTimerInfo(total, rec, interval, minTick, maxPPS) ==
    LET factor == (total * minTick) \div (rec * interval) + 1
        breach == factor * 1000 > maxPPS * minTick
    IN  IF rec > total THEN [ticks |-> 0, pkts |-> 1, breach |-> FALSE]
        ELSE IF interval * rec > total * minTick
             THEN [ticks |-> (interval * rec) \div (total * minTick), pkts |-> 1, breach |-> FALSE]
        ELSE [ticks |-> 1, breach |-> breach,
              pkts |-> IF breach THEN (maxPPS * minTick) \div 1000 ELSE factor]

\* the general query starts the timer unless one is being answered
StartQuery(st, pkts) ==
    IF st.active \/ st.tbl = <<>> THEN st
    ELSE [st EXCEPT !.active = TRUE, !.started = TRUE, !.timer = TRUE, !.pkts = pkts]

\* a query for one group is answered at once
AnswerGroup(st, g) ==
    IF g \notin Groups(st) THEN st
    ELSE IF Entry(st, g).srcs = All \/ st.ver = "old" THEN SendMcPacket(st, <<g>>, FALSE, TRUE)
    ELSE SendMcPacketSGQuery(st, <<g>>)

\* IsValidQueryEpoc: entries added since the query began are not reported
IsValidQueryEpoc(st, v) == v <= st.aEpoc

\* one packet of startQueryReport
ReportSlice(st) ==
    LET rest == IF st.iter = Head0 THEN <<>> ELSE SubSeq(st.tbl, IndexOf(st, st.iter), Len(st.tbl))
        valid == SelectSeq(rest, LAMBDA e : IsValidQueryEpoc(st, e.epoc))
        max == MaxIdsNow(st)
        vec == [i \in 1..(IF Len(valid) < max THEN Len(valid) ELSE max) |-> valid[i].g]
        t == [st EXCEPT !.iter = IF Len(valid) < max THEN Head0 ELSE After(st, vec[max])]
    IN  [fin |-> Len(valid) < max, vec |-> vec,
         st |-> IF st.ver = "new" /\ st.sg > 0 THEN SendMcPacketSGQuery(t, vec)
                ELSE SendMcPacket(t, vec, FALSE, TRUE)]

\* startQueryReport and the restart of the timer
StartQueryReport(st) ==
    LET s0 == IF st.started
              THEN [st EXCEPT !.iter = First(st), !.aEpoc = st.qEpoc, !.qEpoc = @ + 1, !.started = FALSE]
              ELSE st
        Step(b, i) == IF b.fin THEN b
                      ELSE LET r == ReportSlice(b.st)
                           IN  [st |-> r.st, fin |-> r.fin, vec |-> b.vec \o r.vec]
        r == FoldLeft(Step, [st |-> s0, fin |-> FALSE, vec |-> <<>>], [i \in 1..st.pkts |-> i])
    IN  [vec |-> r.vec, st |-> [r.st EXCEPT !.active = ~r.fin, !.timer = ~r.fin]]

-----------------------------------------------------------------------------
(* the RPC iterator *)

IterReset(st) ==
    [st EXCEPT !.itEpoc = st.epoc, !.itPos = First(st), !.rdy = st.tbl # <<>>]

\* GetNext(1)
GetNext(st) ==
    IF ~st.rdy \/ st.itEpoc # st.epoc THEN st
    ELSE IF st.itPos = Head0 THEN [st EXCEPT !.rdy = FALSE]
    ELSE LET p == After(st, st.itPos)
         IN  [st EXCEPT !.itPos = p, !.rdy = p # Head0]

-----------------------------------------------------------------------------
(* the router that hears the reports (RFC 3376, RFC 3810), external *)

Hear(view, r) ==
    CASE r.type \in {"to_ex", "is_ex", "report"} -> All
      [] r.type \in {"to_in", "leave"} -> {}
      [] r.type = "is_in" /\ view # All -> view \cup r.srcs
      [] r.type = "allow" /\ view # All -> view \cup r.srcs
      [] r.type = "block" /\ view # All -> view \ r.srcs
      [] OTHER -> view

HearAll(router, out) ==
    FoldLeft(LAMBDA v, r : [v EXCEPT ![r.g] = Hear(@, r)], router, out)

\* what the router should believe of a group
TableView(st, g) == IF g \in Groups(st) THEN Entry(st, g).srcs ELSE {}
=============================================================================
