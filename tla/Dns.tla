------------------------------------ MODULE Dns ------------------------------------
EXTENDS Integers, Sequences, FiniteSets, SequencesExt

-----------------------------------------------------------------------------
(***************************************************************************)
(* The cache of DNS answers that a DNS client, and an mDNS namespace, keep *)
(* (emu/plugins/dns_utils/dns_utils.go: DnsCache, DnsCacheRemover).        *)
(*                                                                         *)
(* The cache is a table with a list through it, oldest entry first.  The   *)
(* list below stands for both: the key of an entry is its record and the   *)
(* epoch.  A timer that was given n ticks outside a tick has the value n;  *)
(* every tick takes one, and at Due its callback is called before the tick *)
(* ends.  A callback that asks for n ticks gets n - 1: with 0 ticks it is  *)
(* called again in the same tick.                                          *)
(***************************************************************************)
CONSTANTS
    DcRecords,  \* what an answer says: name, type and data in one
    DcTtls,     \* in ticks
    TickSpace,  \* 2^32: a number of ticks is a uint32
    DcChunk,    \* THRESHOLD of OnFlush and of the remover
    DcCounts,   \* how many entries one RPC may ask for
    MaxAdds,    \* bound: entries of a behaviour
    MaxFlushes  \* bound

VARIABLE dcache

dcvars == <<dcache>>

Off == -2
Due == -1
EndOfList == 0  \* activeIter at the list's head

-----------------------------------------------------------------------------
\* given and there are history: what the iteration has returned, and the entries there were
\* at its reset; over says that it reached the end
DcInit ==
    dcache = [list |-> <<>>, iter |-> EndOfList, ready |-> FALSE, epoch |-> 0, flush |-> Off,
              remover |-> Off, adds |-> 0, gone |-> FALSE,
              given |-> <<>>, there |-> {}, over |-> FALSE]

After(c, id) ==
    LET i == CHOOSE j \in DOMAIN c.list : c.list[j].id = id
    IN  IF i = Len(c.list) THEN EndOfList ELSE c.list[i + 1].id

\* mutation of RemoveEntry: the iterator stays on the node that leaves the list
RemoveEntryUnder(c, id) == [c EXCEPT !.list = SelectSeq(@, LAMBDA e : e.id # id)]

RemoveEntry(c, id) ==
    [c EXCEPT !.iter = IF @ = id THEN After(c, id) ELSE @,
              !.list = SelectSeq(@, LAMBDA e : e.id # id)]

\* the old entry with the same key goes, so that the list stays in order of time
AddEntry(c, rec, ttl) ==
    LET old == {e \in Range(c.list) : e.rec = rec /\ e.ep = c.epoch}
        d == IF old = {} THEN c ELSE RemoveEntry(c, (CHOOSE e \in old : TRUE).id)
    IN  [d EXCEPT !.list = Append(@, [id |-> c.adds + 1, rec |-> rec, ep |-> c.epoch,
                                      left |-> ttl % TickSpace]),
                  !.adds = @ + 1]

\* the call from AddAnswersToCache
DcAdd ==
    /\ ~dcache.gone /\ dcache.adds < MaxAdds
    /\ \E rec \in DcRecords, ttl \in DcTtls : dcache' = AddEntry(dcache, rec, ttl)

IterReset(c) ==
    [c EXCEPT !.iter = IF c.list = <<>> THEN EndOfList ELSE c.list[1].id,
              !.ready = c.list # <<>>,
              !.given = <<>>, !.there = {e.id : e \in Range(c.list)}, !.over = FALSE]

\* one turn of the loop of GetNext
Step(c) ==
    IF ~c.ready THEN c
    ELSE IF c.iter = EndOfList THEN [c EXCEPT !.ready = FALSE, !.over = TRUE]
    ELSE LET e == CHOOSE x \in Range(c.list) : x.id = c.iter
         IN  [c EXCEPT !.iter = After(c, c.iter),
                       !.given = IF e.ep = c.epoch THEN Append(@, e.id) ELSE @]

GetNext(c, n) == FoldFunction(LAMBDA i, d : Step(d), c, [i \in 1..n |-> i])

\* the RPC: reset if asked to, then some entries unless the iteration is over
DcIterate(reset, n) ==
    /\ ~dcache.gone
    /\ dcache' = GetNext(IF reset THEN IterReset(dcache) ELSE dcache, n)

Flush(c) ==
    [c EXCEPT !.epoch = @ + 1,
              !.flush = IF @ # Off \/ c.list = <<>> THEN @ ELSE 1]

DcFlush == ~dcache.gone /\ dcache.epoch < MaxFlushes /\ dcache' = Flush(dcache)

\* the entries at the head of the list that OnFlush removes
Old(c) == {i \in 1..Min({DcChunk, Len(c.list)}) : \A k \in 1..i : c.list[k].ep < c.epoch}

RemoveAll(c, ids) == FoldFunction(LAMBDA id, d : RemoveEntry(d, id), c, ids)

OnFlush(c) ==
    RemoveAll([c EXCEPT !.flush = IF Cardinality(Old(c)) = DcChunk THEN Due ELSE Off],
              [i \in Old(c) |-> c.list[i].id])

DcOnFlush == dcache.flush = Due /\ dcache' = OnFlush(dcache)

\* OnEvent of an entry: its time is over
DcExpire ==
    \E e \in Range(dcache.list) : e.left = Due /\ dcache' = RemoveEntry(dcache, e.id)

\* DnsCacheRemover.OnEvent: a chunk, in the order of Go's map iteration
RemoverRun(c, again) ==
    {LET d == RemoveAll(c, [k \in ids |-> k])
     IN  [d EXCEPT !.remover = IF d.list = <<>> THEN Off ELSE again] :
       ids \in {s \in SUBSET {e.id : e \in Range(c.list)} :
                  Cardinality(s) = Min({DcChunk, Len(c.list)})}}

\* OnRemove of the plugin hands the cache to a remover
DcRemove ==
    /\ ~dcache.gone
    /\ dcache' \in RemoverRun([dcache EXCEPT !.gone = TRUE, !.ready = FALSE], 1)

DcRemover == dcache.remover = Due /\ dcache' \in RemoverRun(dcache, 0)

Ticked(t) == IF t = Off THEN Off ELSE t - 1
InTick == dcache.flush = Due \/ dcache.remover = Due \/ \E e \in Range(dcache.list) : e.left = Due

DcTick ==
    /\ ~InTick
    /\ dcache' = [dcache EXCEPT !.flush = Ticked(@), !.remover = Ticked(@),
                    !.list = [i \in DOMAIN @ |-> [@[i] EXCEPT !.left = @ - 1]]]

\* what comes from outside comes between two ticks
DcNext ==
    \/ ~InTick /\ (DcAdd \/ DcFlush \/ DcRemove \/ \E r \in BOOLEAN, n \in DcCounts : DcIterate(r, n))
    \/ DcOnFlush \/ DcExpire \/ DcRemover \/ DcTick

-----------------------------------------------------------------------------
\* RemoveEntry is called from timers while an iteration of the RPC is half way.  The iterator is
\* never on a node that left the list, and an iteration that reached the end has returned, once,
\* every entry that was there at its reset, is there still and was not flushed.
DcIterSound ==
    /\ dcache.iter # EndOfList => \E e \in Range(dcache.list) : e.id = dcache.iter
    /\ IsInjective(dcache.given)
    /\ dcache.over =>
         \A e \in Range(dcache.list) :
            e.id \in dcache.there /\ e.ep = dcache.epoch => e.id \in Range(dcache.given)

\* OnFlush stops at the first entry of the current epoch.  That is right: older entries always
\* come first in the list, and while there are any its timer runs.
DcFlushes ==
    /\ \A i, j \in DOMAIN dcache.list : i < j => dcache.list[i].ep <= dcache.list[j].ep
    /\ ~dcache.gone /\ (\E e \in Range(dcache.list) : e.ep < dcache.epoch) => dcache.flush # Off

\* A cache that was handed to a remover is not left to the times to live of its entries: until it
\* is empty the remover's timer runs, whatever the timers of the cache itself do meanwhile.
DcEmptied == dcache.gone /\ dcache.list # <<>> => dcache.remover # Off

-----------------------------------------------------------------------------
(***************************************************************************)
(* DNS: a name server, a client that caches its answers, and the automatic *)
(* queries of a namespace (emu/plugins/dns/dns.go and DnsNsAutoPlay of     *)
(* emu/plugins/dns_utils/dns_utils.go).  The cache itself is module        *)
(* DnsCache; here it is the set of what was added.                         *)
(*                                                                         *)
(* The name server has one field, socket, for the flow it answers on.      *)
(* OnAccept sets it for the first packet of a flow; a flow leaves the      *)
(* table of flows when its socket is closed, after an answer.  An entry of *)
(* the database is a type and an answer; "bad" is an answer that is not an *)
(* address.                                                                *)
(***************************************************************************)
CONSTANTS
    Askers,      \* the remote ends that send to the name server
    Domains,
    DbLists,     \* the lists of entries an RPC may bring
    DnsPackets,  \* what arrives: [kind, name, type]
    MaxRx,       \* bound: packets of a behaviour
    MaxDbOps     \* bound

VARIABLES
    dnsDb,    \* domain -> entries, <<>> when it is not there
    dnsFlows, \* the askers with a flow in the table
    dnsSock,  \* socket: whose flow, and whether it is open
    dnsUp,    \* the gateway of the name server is resolved
    dnsSent,  \* responses on their way: [to, asker, first, of, code, answers]
    dnsSeen,  \* what the client has added to its cache
    dnsPast,  \* history: every [name, type, answer] the database ever had
    dnsCnt    \* bounds: packets and changes of the database so far

dnsvars == <<dnsDb, dnsFlows, dnsSock, dnsUp, dnsSent, dnsSeen, dnsPast, dnsCnt>>

DnsInit ==
    /\ dnsDb = [d \in Domains |-> <<>>] /\ dnsFlows = {} /\ dnsUp = FALSE
    /\ dnsSock = [who |-> "nobody", open |-> FALSE]
    /\ dnsSent = {} /\ dnsSeen = {} /\ dnsPast = {} /\ dnsCnt = [rx |-> 0, db |-> 0]

-----------------------------------------------------------------------------
(* the database *)

\* entries of news that are neither there nor earlier in news
Fresh(old, news) ==
    FoldFunction(LAMBDA e, l : IF Contains(l, e) THEN l ELSE Append(l, e), old, Reverse(news))

\* a domain that was not there gets the list as it is
AddDomainEntries(d, news) ==
    /\ dnsCnt.db < MaxDbOps
    /\ dnsDb' = [dnsDb EXCEPT ![d] = IF @ # <<>> THEN Fresh(@, news) ELSE news]
    /\ dnsPast' = dnsPast \cup {[name |-> d, type |-> e.type, answer |-> e.answer] : e \in Range(news)}
    /\ dnsCnt' = [dnsCnt EXCEPT !.db = @ + 1]
    /\ UNCHANGED <<dnsFlows, dnsSock, dnsUp, dnsSent, dnsSeen>>

RemoveDomainEntries(d, olds) ==
    /\ dnsCnt.db < MaxDbOps
    /\ dnsDb' = [dnsDb EXCEPT ![d] = SelectSeq(@, LAMBDA e : e \notin Range(olds))]
    /\ dnsCnt' = [dnsCnt EXCEPT !.db = @ + 1]
    /\ UNCHANGED <<dnsFlows, dnsSock, dnsUp, dnsSent, dnsSeen, dnsPast>>

-----------------------------------------------------------------------------
(* the name server *)

isValidAnswer(e, type) == e.type = type

\* the record of an answer has the type of the question; a bad address is left out
BuildAnswers(p) ==
    {[name |-> p.name, type |-> p.type, answer |-> e.answer] :
       e \in {x \in Range(dnsDb[p.name]) : isValidAnswer(x, p.type) /\ ~(x.type = "A" /\ x.answer = "bad")}}

\* Reply with the socket there is; the flow is closed only when the response left
Reply(a, sock, flows, p) ==
    LET ans == IF p.kind = "query" THEN BuildAnswers(p) ELSE {}
        code == IF p.kind # "query" THEN "FormErr" ELSE IF ans = {} THEN "NXDomain" ELSE "NoErr"
    IN  IF sock.open /\ dnsUp
        THEN /\ dnsSent' = dnsSent \cup {[to |-> sock.who, asker |-> a, first |-> a \notin dnsFlows,
                                        of |-> p, code |-> code, answers |-> ans]}
             /\ dnsSock' = [sock EXCEPT !.open = FALSE]
             /\ dnsFlows' = flows \ {sock.who}
        ELSE UNCHANGED dnsSent /\ dnsSock' = sock /\ dnsFlows' = flows

\* mutation of ServerRx: the flow is accepted after its first packet was handled
ServerRxLate(a, p) ==
    /\ dnsCnt.rx < MaxRx
    /\ IF p.kind \in {"query", "garbage"} THEN Reply(a, dnsSock, dnsFlows \cup {a}, p)
       ELSE /\ dnsSock' = IF a \in dnsFlows THEN dnsSock ELSE [who |-> a, open |-> TRUE]
            /\ dnsFlows' = dnsFlows \cup {a} /\ UNCHANGED dnsSent
    /\ dnsCnt' = [dnsCnt EXCEPT !.rx = @ + 1]
    /\ UNCHANGED <<dnsDb, dnsUp, dnsSeen, dnsPast>>

\* OnAccept: the one socket field becomes the new flow's
OnAccept(a) == [who |-> a, open |-> TRUE]

\* a packet for port 53: OnAccept for a new flow, then OnRxData
ServerRx(a, p) ==
    /\ dnsCnt.rx < MaxRx
    /\ LET sock == IF a \in dnsFlows THEN dnsSock ELSE OnAccept(a)
           flows == dnsFlows \cup {a}
       IN  IF p.kind \in {"query", "garbage"} THEN Reply(a, sock, flows, p)
           ELSE dnsSock' = sock /\ dnsFlows' = flows /\ UNCHANGED dnsSent
    /\ dnsCnt' = [dnsCnt EXCEPT !.rx = @ + 1]
    /\ UNCHANGED <<dnsDb, dnsUp, dnsSeen, dnsPast>>

Resolved ==
    /\ ~dnsUp /\ dnsUp' = TRUE
    /\ UNCHANGED <<dnsDb, dnsFlows, dnsSock, dnsSent, dnsSeen, dnsPast, dnsCnt>>

-----------------------------------------------------------------------------
(* the client *)

\* OnRxData of a client and AddAnswersToCache, which skips TXT; a response may come twice or never
ClientRx(r) ==
    /\ r.code = "NoErr"
    /\ dnsSeen' = dnsSeen \cup {a \in r.answers : a.type \in {"A", "PTR"}}
    /\ UNCHANGED <<dnsDb, dnsFlows, dnsSock, dnsUp, dnsSent, dnsPast, dnsCnt>>

DnsNext ==
    \/ \E d \in Domains, l \in DbLists : AddDomainEntries(d, l)
    \/ \E d \in Domains, l \in DbLists : RemoveDomainEntries(d, l)
    \/ \E a \in Askers, p \in DnsPackets : ServerRx(a, p)
    \/ Resolved
    \/ \E r \in dnsSent : ClientRx(r)

-----------------------------------------------------------------------------
\* A client caches only what the name server's database said of that name for that type, however
\* late the response comes and whatever happened to the database since.
DnsCacheFaithful == dnsSeen \subseteq dnsPast

\* The first packet of a flow is answered to its sender, whatever flows are open meanwhile:
\* OnAccept has set the one socket field before OnRxData uses it.
DnsFirstToAsker == \A r \in dnsSent : r.first => r.to = r.asker

-----------------------------------------------------------------------------
(***************************************************************************)
(* The automatic queries of a DNS or mDNS namespace                        *)
(* (emu/plugins/dns_utils/dns_utils.go: DnsNsAutoPlay; SendQuery of        *)
(* emu/plugins/dns/dns.go and emu/plugins/mdns/mdns.go).  A step of the    *)
(* model is one timer event, with its burst of queries.  Clients come and  *)
(* go between events; a query that a client cannot send is an error.       *)
(***************************************************************************)
CONSTANTS
    Macs,        \* addresses a client may have
    AutoParams,  \* the parameters an init JSON may give
    AutoUint64,      \* 2^64
    AutoUint16,      \* 2^16
    MaxQueries   \* bound: queries of a behaviour, the skipped ones included

VARIABLES
    auto,      \* the parameters and the state of DnsNsAutoPlay
    autoNs     \* mac -> "none", "plain" (no DNS plugin), "dns"

autovars == <<auto, autoNs>>

\* processCommonParams
ParamsOk(p) == p.minH <= p.maxH /\ (p.initH # 0 => p.initH \in p.minH..p.maxH)

First(p) == IF p.initH > p.minH THEN p.initH ELSE p.minH

\* n, the queries asked for so far, is history
AutoInit ==
    /\ auto \in {[p |-> p, cli |-> p.minC, host |-> First(p), timer |-> TRUE, good |-> 0, n |-> 0] :
                   p \in {q \in AutoParams : ParamsOk(q)}}
    /\ autoNs \in [Macs -> {"none", "dns"}]

\* uint64 arithmetic
domainInc(min, max, step, cur) ==
    LET left == (max - cur) % AutoUint64
    IN  IF step <= left THEN (cur + step) % AutoUint64 ELSE (min + (step - left - 1)) % AutoUint64

incClient(s) == [s EXCEPT !.cli = domainInc(s.p.minC, s.p.maxC, s.p.stepC, @)]
incHostname(s) == [s EXCEPT !.host = domainInc(s.p.minH, s.p.maxH, s.p.stepH, @) % AutoUint16]

State(mac) == IF mac \in Macs THEN autoNs[mac] ELSE "none"

\* whether to go on, and autoPlayQueries
SendQuery(s, mac, ok) ==
    CASE State(mac) = "none" -> [more |-> TRUE, good |-> s.good]
      [] State(mac) = "plain" -> [more |-> FALSE, good |-> s.good]
      [] OTHER -> LET g == IF ok THEN s.good + 1 ELSE s.good
                  IN  [more |-> g < s.p.amount \/ s.p.amount = 0, good |-> g]

\* one query of a burst; the timer goes on if one of the burst says so
OneQuery(s, ok) ==
    LET q == SendQuery(s, s.cli, ok)
    IN  incHostname(incClient([s EXCEPT !.good = q.good, !.timer = @ \/ q.more, !.n = @ + 1]))

\* OnEvent
AutoEvent ==
    /\ auto.timer /\ auto.n < MaxQueries
    /\ \E oks \in [1..auto.p.burst -> BOOLEAN] :
         LET Run[i \in 0..auto.p.burst] ==
                IF i = 0 THEN [auto EXCEPT !.timer = FALSE] ELSE OneQuery(Run[i - 1], oks[i])
         IN  auto' = Run[auto.p.burst]
    /\ UNCHANGED autoNs

\* a client is created, with the plugin or without, or removed
AutoClient ==
    /\ \E m \in Macs : \E w \in IF autoNs[m] = "none" THEN {"plain", "dns"} ELSE {"none"} :
         autoNs' = [autoNs EXCEPT ![m] = w]
    /\ UNCHANGED auto

\* OnRemove of the namespace
AutoRemove == auto.timer /\ auto' = [auto EXCEPT !.timer = FALSE] /\ UNCHANGED autoNs

AutoNext == AutoEvent \/ AutoClient \/ AutoRemove

-----------------------------------------------------------------------------
Size(min, max) == max - min + 1

\* The clients and the hostnames go round their domains together, and a query that is skipped for
\* want of a client skips its hostname: after n queries both are n steps from where they began, as
\* long as no step is larger than its domain.  domainInc computes that without leaving uint64.
AutoLockstep ==
    LET p == auto.p IN
    /\ p.stepC <= Size(p.minC, p.maxC) =>
         auto.cli = p.minC + ((auto.n * p.stepC) % Size(p.minC, p.maxC))
    /\ p.stepH <= Size(p.minH, p.maxH) =>
         auto.host = p.minH + ((First(p) - p.minH + auto.n * p.stepH) % Size(p.minH, p.maxH))

\* No more than query_amount queries are sent when the rate needs no bursts, whatever clients come
\* and go and whatever queries fail.
AutoAmount == auto.p.amount > 0 /\ auto.p.burst = 1 => auto.good <= auto.p.amount

\* The DNS cache: its iterator survives every removal, a flush and the removal of the cache come
\* to their end in chunks, and an entry is what a server once answered.
DnsCacheSound == DcIterSound /\ DcFlushes /\ DcEmptied /\ DnsCacheFaithful

\* What the DNS plugin sends: the first answer of a flow to who asked, and the queries that
\* auto-play promises, in step over clients and host names.
DnsServes == DnsFirstToAsker /\ AutoLockstep /\ AutoAmount
=============================================================================
