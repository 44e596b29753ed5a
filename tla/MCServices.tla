----------------------------- MODULE MCServices -----------------------------
(***************************************************************************)
(* The services a client runs, for TLC: DNS with its cache and auto-play,  *)
(* mDNS, ping, the application simulator, PPP, the resolution of the       *)
(* default gateway, TDL and the field engines.  focus says which of them   *)
(* runs: they share no state, so each is explored on its own, while the    *)
(* others stay in one of their initial states.                             *)
(***************************************************************************)
EXTENDS Dns, Mdns, Ping, AppSim, Ppp, ClientCtx, Tdl, FieldEngine,
        TLC

VARIABLE focus

---------------------------------------------------------------------------
(* DNS, mDNS and ping. *)

DnsEntry(t, a) == [type |-> t, answer |-> a]
DnsPacket(k, n, t) == [kind |-> k, name |-> n, type |-> t]
MCDbLists ==
    {<<DnsEntry("A", "ip1")>>, <<DnsEntry("A", "bad"), DnsEntry("TXT", "t")>>,
     <<DnsEntry("A", "ip1"), DnsEntry("A", "ip2"), DnsEntry("A", "ip1")>>}
MCPackets ==
    {DnsPacket("query", "d1", "A"), DnsPacket("query", "d1", "TXT"),
     DnsPacket("garbage", "d1", "A"), DnsPacket("response", "d1", "A")}
MCAuto ==
    [minC : {1}, maxC : {1, 3}, stepC : {1, 2}, minH : {0, 1}, maxH : {2}, initH : {0, 2},
     stepH : {2}, amount : {0, 2}, burst : {1, 2}]

Question(h, t) == [host |-> h, type |-> t]
MCMdPackets ==
    {{Question(h, t)} : h \in MdHosts, t \in {"A", "AAAA", "SRV"}}
      \cup {{Question(h, "A"), Question(g, "TXT")} : h, g \in MdHosts}

MCMdDataSets == {{}, {"socket6", "AAAA", "TXT"}}

PingParam(a, b, i, t) == [amount |-> a, burst |-> b, interval |-> i, timeout |-> t]
MCPing == {PingParam(1, 1, 1, 2), PingParam(3, 2, 1, 1)}

---------------------------------------------------------------------------
(* Pairs of programs of the application simulator, over a stream or over   *)
(* datagrams, that talk to each other.                                     *)

Cmd(op) == [name |-> op, n |-> 0, clear |-> FALSE]
CmdN(op, k) == [name |-> op, n |-> k, clear |-> FALSE]
RxClear(k) == [name |-> "rx", n |-> k, clear |-> TRUE]
Programs(st, c, s) == [stream |-> st, c |-> c, s |-> s]

MCScenarios ==
    {Programs(TRUE, <<CmdN("tx", 2), CmdN("rx", 3)>>, <<Cmd("delay"), CmdN("rx", 2), CmdN("tx", 3)>>),
     Programs(TRUE, <<Cmd("connect"), Cmd("delay"), CmdN("set_var", 2), CmdN("tx", 1),
                      CmdN("rx", 1), CmdN("jmp_nz", -2)>>,
                    <<CmdN("set_var", 2), CmdN("rx", 1), CmdN("tx", 1), CmdN("jmp_nz", -2)>>),
     Programs(TRUE, <<Cmd("nc"), CmdN("tx", 3), CmdN("rx", 1), Cmd("delay")>>,
                    <<RxClear(1), Cmd("delay"), CmdN("tx", 1)>>),
     Programs(TRUE, <<CmdN("tx", 2), Cmd("delay"), Cmd("reset")>>, <<CmdN("rx", 5), CmdN("tx", 1)>>),
     Programs(FALSE, <<Cmd("keepalive"), Cmd("tx_msg"), CmdN("rx_msg", 1), Cmd("close_msg")>>,
                     <<Cmd("keepalive"), CmdN("rx_msg", 1), Cmd("tx_msg")>>),
     Programs(FALSE, <<Cmd("keepalive"), CmdN("set_var", 2), Cmd("tx_msg"), Cmd("delay"),
                       CmdN("rx_msg", 1), CmdN("jmp_nz", -3), Cmd("close_msg")>>,
                     <<Cmd("keepalive"), CmdN("rx_msg", 2), Cmd("tx_msg"), Cmd("delay"),
                       Cmd("tx_msg")>>)}

MCFamilyOf == ("ipfix" :> "v4") @@ ("tdl" :> "v6")

---------------------------------------------------------------------------
(* A TDL object with every kind of entry, two levels deep, and one with    *)
(* every primitive type.                                                   *)

Entry(n, t) == [name |-> n, type |-> t]
Primitives == <<"char", "uint8", "uint16", "uint32", "uint64", "int8", "int16", "int32", "int64",
                "float", "double", "counter64">>
MCMeta ==
    ("root" :> [k |-> "type", entries |-> <<Entry("x", "int16"), Entry("in", "inner"),
                                            Entry("f", "bits"), Entry("k", "counter64")>>])
    @@ ("inner" :> [k |-> "type", entries |-> <<Entry("c", "color"), Entry("u", "uint32")>>])
    @@ ("color" :> [k |-> "enum", entries |-> <<[name |-> "red", value |-> 0],
                                                [name |-> "blue", value |-> -1]>>])
    @@ ("bits" :> [k |-> "flag", entries |-> <<"f0", "f1", "f2">>])
    @@ ("flat" :> [k |-> "type", entries |-> [i \in DOMAIN Primitives |->
                                                Entry(Primitives[i], Primitives[i])]])

Bytes(offset, size) == [k |-> "bytes", offset |-> offset, size |-> size]
NestedParams ==
    [root : {"root"}, udp : {FALSE},
     init : {(<<"x">> :> x) @@ (<<"f">> :> f) @@ (<<"in", "u">> :> 77)
             @@ (<<"k">> :> [counter |-> -1, residual |-> 100]) :
               x \in {-8, 7}, f \in SUBSET {"f0", "f1", "f2"}},
     engines : {(<<"x">> :> Bytes(1, 1)) @@ (<<"k">> :> Bytes(8, 2))
                @@ (<<"in", "c">> :> [k |-> "names", offset |-> 0, names |-> {"red", "blue", "gray"}])}]
FlatParams ==
    [root : {"flat"}, udp : {TRUE},
     init : {(<<"int8">> :> -2) @@ (<<"uint64">> :> 65535) @@ (<<"int64">> :> -32768)
             @@ (<<"float">> :> 100) @@ (<<"uint8">> :> 3)},
     engines : {(<<"int32">> :> Bytes(1, 2)) @@ (<<"float">> :> Bytes(0, 4))
                @@ (<<"double">> :> Bytes(7, 1))}]
PlainParams == [root : {"uint16"}, udp : {TRUE}, init : {<<>> :> 7}, engines : {<<>> :> Bytes(1, 1)}]
OverParams == [root : {"int16"}, udp : {TRUE}, init : {<<>> :> 7}, engines : {<<>> :> Bytes(1, 2)}]
MCTdlParams == NestedParams \cup FlatParams \cup PlainParams \cup OverParams

---------------------------------------------------------------------------
(* Engines and histograms: every list type, every kind of entry at the     *)
(* ends of its range.                                                      *)

MCSizeMod == (1 :> 2) @@ (4 :> 4) @@ (8 :> 8)
List(t, l) == [type |-> t, list |-> l]
MCLists ==
    {List("string", <<<<1>>>>), List("string", <<<<1>>, <<2, 2>>, <<3>>>>),
     List("uint", <<0, 3, 1>>), List("int", <<-4, 1>>), List("float", <<5, 2>>)}
MCTimes ==
    {[offset |-> 3, ipgMin |-> 1, ipgMax |-> 2, durMin |-> 2, durMax |-> 4],
     [offset |-> 0, ipgMin |-> 2, ipgMax |-> 2, durMin |-> 1, durMax |-> 2]}

MCDists ==
    UNION {[1..n -> 0..3] : n \in 1..4} \cup [1..5 -> {0, 1, 4}] \cup [1..6 -> {0, 1}]
      \cup {<<60, 60>>}
OfRange(t, size, lo, hi) == [t |-> t, size |-> size, lo |-> lo, hi |-> hi]
OfList(t, size, l) == [t |-> t, size |-> size, list |-> l]
OfValue(t, size, v) == [t |-> t, size |-> size, v |-> v]
OfString(size, str, pad) ==
    [t |-> HistogramString, size |-> size, str |-> str, pad |-> pad, padding |-> 1]
Part(raw, enc) == [raw |-> raw, enc |-> enc]
OfUrl(size, s, h, p, q, r) ==
    [t |-> HistogramURL, size |-> size, schemes |-> s, hosts |-> h, paths |-> p, queries |-> q,
     random |-> r]
MCEntries ==
    {OfRange(HistogramUInt32Range, s, lo, hi) : s \in {2, 4}, lo \in {0, 1, 3}, hi \in {3, 7, 15}}
      \cup {OfRange(HistogramInt32Range, s, lo, hi) : s \in {2, 4}, lo \in {-8, -2, 0}, hi \in {-1, 1, 7}}
      \cup {OfRange(HistogramUInt64Range, 8, lo, hi) : lo \in {0, 250}, hi \in {254, 255}}
      \cup {OfRange(HistogramInt64Range, 8, lo, hi) : lo \in {-128, 126}, hi \in {-127, 127}}
      \cup {OfList(HistogramInt32List, 2, <<-2, 1>>), OfList(HistogramUInt32List, 4, <<9>>),
            OfList(HistogramInt64List, 8, <<-128, 3>>), OfList(HistogramUInt64List, 8, <<200>>),
            OfValue(HistogramUInt32, 2, 2), OfValue(HistogramInt32, 4, -7),
            OfValue(HistogramUInt64, 8, 129), OfValue(HistogramInt64, 8, -3),
            OfString(2, <<1>>, FALSE), OfString(4, <<1, 1, 1>>, TRUE), OfString(4, <<0, 1>>, FALSE),
            OfUrl(12, <<Part(2, 2), Part(1, 1)>>, <<Part(2, 2)>>, <<Part(1, 1)>>, <<>>, TRUE),
            OfUrl(12, <<Part(2, 2)>>, <<Part(1, 1), Part(2, 2)>>, <<>>, <<Part(1, 1), Part(2, 2)>>,
                  FALSE),
            OfUrl(12, <<Part(2, 2)>>, <<Part(3, 3)>>, <<Part(4, 4), Part(4, 5)>>, <<>>, FALSE),
            OfUrl(12, <<Part(2, 2)>>, <<Part(1, 1)>>, <<Part(3, 3), Part(2, 4)>>, <<>>, TRUE),
            OfUrl(12, <<Part(2, 2)>>, <<Part(1, 1), Part(1, 3)>>, <<Part(3, 3)>>, <<>>, TRUE)}

---------------------------------------------------------------------------
Foci == {"cache", "dns", "auto", "mdns", "ping", "app", "stream", "ppp", "client", "tdl",
         "engine", "times", "gen", "hist"}

MCInit ==
    /\ focus \in Foci
    /\ DcInit /\ DnsInit /\ MdnsInit /\ PingInit /\ PppInit /\ ClInit
    /\ focus # "client" => gw.forced = {}
    /\ AutoInit
    /\ focus # "auto" => /\ auto.p = CHOOSE p \in MCAuto : ParamsOk(p)
                         /\ autoNs = [m \in Macs |-> "none"]
    /\ AppInit
    /\ focus # "app" => scen = CHOOSE x \in Scenarios : TRUE
    /\ ApInit
    /\ focus # "stream" => apstream.conf = 0
    /\ TdlInit
    /\ focus # "tdl" => tdl.p.root = "uint16"
    /\ FeInit
    /\ focus # "times" => ft = NewTimeEngines(CHOOSE p \in FtParams : TRUE)
    /\ GenInit
    /\ focus # "gen" => gen.input = <<1>>
    /\ HistInit
    /\ focus # "hist" => Len(hist.buf) = 2

MCvars == <<focus, dcvars, dnsvars, autovars, mdvars, pingvars, appvars, apvars, pppvars, clvars,
            tdl, fevars, histvars>>

MCNext ==
    \/ focus = "cache" /\ DcNext
         /\ UNCHANGED <<focus, dnsvars, autovars, mdvars, pingvars, appvars, apvars, pppvars, clvars, tdl, fe, ft, gen, hist>>
    \/ focus = "dns" /\ DnsNext
         /\ UNCHANGED <<focus, dcvars, autovars, mdvars, pingvars, appvars, apvars, pppvars, clvars, tdl, fe, ft, gen, hist>>
    \/ focus = "auto" /\ AutoNext
         /\ UNCHANGED <<focus, dcvars, dnsvars, mdvars, pingvars, appvars, apvars, pppvars, clvars, tdl, fe, ft, gen, hist>>
    \/ focus = "mdns" /\ MdnsNext
         /\ UNCHANGED <<focus, dcvars, dnsvars, autovars, pingvars, appvars, apvars, pppvars, clvars, tdl, fe, ft, gen, hist>>
    \/ focus = "ping" /\ PingNext
         /\ UNCHANGED <<focus, dcvars, dnsvars, autovars, mdvars, appvars, apvars, pppvars, clvars, tdl, fe, ft, gen, hist>>
    \/ focus = "app" /\ AppNext
         /\ UNCHANGED <<focus, dcvars, dnsvars, autovars, mdvars, pingvars, apvars, pppvars, clvars, tdl, fe, ft, gen, hist>>
    \/ focus = "stream" /\ ApNext
         /\ UNCHANGED <<focus, dcvars, dnsvars, autovars, mdvars, pingvars, appvars, pppvars, clvars, tdl, fe, ft, gen, hist>>
    \/ focus = "ppp" /\ PppNext
         /\ UNCHANGED <<focus, dcvars, dnsvars, autovars, mdvars, pingvars, appvars, apvars, clvars, tdl, fe, ft, gen, hist>>
    \/ focus = "client" /\ ClNext
         /\ UNCHANGED <<focus, dcvars, dnsvars, autovars, mdvars, pingvars, appvars, apvars, pppvars, tdl, fe, ft, gen, hist>>
    \/ focus = "tdl" /\ TdlNext
         /\ UNCHANGED <<focus, dcvars, dnsvars, autovars, mdvars, pingvars, appvars, apvars, pppvars, clvars, fe, ft, gen, hist>>
    \/ focus = "engine" /\ FeNext
         /\ UNCHANGED <<focus, dcvars, dnsvars, autovars, mdvars, pingvars, appvars, apvars, pppvars, clvars, tdl, gen, hist>>
    \/ focus = "times" /\ FtNext
         /\ UNCHANGED <<focus, dcvars, dnsvars, autovars, mdvars, pingvars, appvars, apvars, pppvars, clvars, tdl, gen, hist>>
    \/ focus = "gen" /\ GenNext
         /\ UNCHANGED <<focus, dcvars, dnsvars, autovars, mdvars, pingvars, appvars, apvars, pppvars, clvars, tdl, fe, ft>>
    \/ focus = "hist" /\ HistNext
         /\ UNCHANGED <<focus, dcvars, dnsvars, autovars, mdvars, pingvars, appvars, apvars, pppvars, clvars, tdl, fe, ft>>

MCSpec == MCInit /\ [][MCNext]_MCvars
=============================================================================
