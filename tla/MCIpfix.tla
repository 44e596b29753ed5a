-------------------------------- MODULE MCIpfix --------------------------------
(***************************************************************************)
(* The parts of the IPFIX plugin for TLC: the generators with the UDP      *)
(* exporter, the HTTP exporter, the contents of the packets and the        *)
(* devices of the namespace plugin.  focus says which of them runs: they   *)
(* share no state here, so each is explored on its own.                    *)
(***************************************************************************)
EXTENDS IpfixUdp, HttpExporter, IpfixGen

CONSTANT Focus
VARIABLE focus

mcvars == <<focus, udpVars, httpvars, genvars, trgvars>>

Field(n, l, e, d) == [name |-> n, len |-> l, ent |-> e, data |-> d]
Json(n, t, o, s, fs, en, r) ==
    [name |-> n, tid |-> t, opt |-> o, scope |-> s, fields |-> fs, engines |-> en, recs |-> r]
NoEngine == [x \in {} |-> 0]
Engine(f, n) == [x \in {f} |-> n]
TwoBytes == <<Field("a", 2, FALSE, 2)>>

\* generators that are accepted, alone or together, and one for every reason to refuse
FixedJsons ==
    {Json("g1", 256, FALSE, 0, TwoBytes, NoEngine, r) : r \in {0, 1, 9}}
      \cup {Json("g2", 257, TRUE, 1, <<Field("a", 1, TRUE, 1), Field("b", 2, FALSE, 2)>>,
                 Engine("b", 2), 2),
            Json("g1", 258, FALSE, 0, TwoBytes, NoEngine, 0),
            Json("g2", 256, FALSE, 0, TwoBytes, NoEngine, 0),
            Json("g3", 255, FALSE, 0, TwoBytes, NoEngine, 0),
            Json("g3", 300, TRUE, 0, TwoBytes, NoEngine, 0),
            Json("g3", 300, FALSE, 0, <<Field("a", 2, FALSE, 1)>>, NoEngine, 0),
            Json("g3", 300, FALSE, 0, TwoBytes, Engine("z", 1), 0)}

MCJsons ==
    FixedJsons
      \cup {Json("v", 301, FALSE, 0, <<Field("a", 1, FALSE, 1), Field("b", 0, FALSE, 0)>>,
                 Engine("b", 2), 0),
            Json("v", 301, FALSE, 0, <<Field("b", 0, FALSE, 0)>>, NoEngine, 0)}

\* the parts that do not run start in one of their initial states
MCInit ==
    /\ focus \in Focus
    /\ UdpInit /\ HttpInit /\ GenInit /\ TrgInit
    /\ focus # "http" => ~fex.exists
    /\ focus # "trigger" =>
         /\ \A n \in DeviceCounts : trg.devices <= n
         /\ \A t \in Rampups : trg.rampup <= t \/ t < 10

MCNext ==
    \/ focus = "udp" /\ UdpNext /\ UNCHANGED <<focus, httpvars, genvars, trgvars>>
    \/ focus = "http" /\ HttpNext /\ UNCHANGED <<focus, udpVars, genvars, trgvars>>
    \/ focus = "gen" /\ GenNext /\ UNCHANGED <<focus, udpVars, httpvars, trgvars>>
    \/ focus = "trigger" /\ TrgNext /\ UNCHANGED <<focus, udpVars, httpvars, genvars>>

MCSpec == MCInit /\ [][MCNext]_mcvars
================================================================================
