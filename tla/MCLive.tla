-------------------------------- MODULE MCLive --------------------------------
(***************************************************************************)
(* What must happen in the end in the plugins, for TLC: the ARP table and  *)
(* the UDP and HTTP exporters of IPFIX.  focus says which of them runs:    *)
(* they share no state here, so each is explored on its own.               *)
(***************************************************************************)
EXTENDS ArpTable

CONSTANTS
    Capacity, LowThr, HighThr, NumGens, Burst, MaxData, MaxTemp, HasMaxTime, IpfixVer, FlowSeqMod,
    FeMaxSize, FeMaxFiles, FeCapacity, FeQueue,
    Sizes, MaxWrites, MaxFiles, Repeats, MaxPosts, StoreFiles

VARIABLES
    focus,
    ch, closed, highWatermark, chTimer,
    enabled, genEnabled, paused, running, flowSeq, tempSent, dataSent, tmplBuf, writeErr,
    panicked, todo, pending, life, writer, writerDone, lastOut,
    fex, http, ctl, wrote, seen

Udp == INSTANCE IpfixUdp
Http == INSTANCE HttpExporter WITH MaxIndex <- MaxFiles

udpVars == <<ch, closed, highWatermark, chTimer, enabled, genEnabled, paused, running, flowSeq,
             tempSent, dataSent, tmplBuf, writeErr, panicked, todo, pending, life, writer,
             writerDone, lastOut>>
httpVars == <<fex, http, ctl, wrote, seen>>
mcvars == <<focus, arpVars, udpVars, httpVars>>

MCInit ==
    /\ focus \in {"arp", "udp", "http"}
    /\ ArpInit /\ Udp!UdpInit
    /\ Http!HttpInit /\ (focus # "http" => ~fex.exists)

MCNext ==
    \/ focus = "arp" /\ ArpNext /\ UNCHANGED <<focus, udpVars, httpVars>>
    \/ focus = "udp" /\ Udp!UdpNext /\ UNCHANGED <<focus, arpVars, httpVars>>
    \/ focus = "http" /\ Http!HttpNext /\ UNCHANGED <<focus, arpVars, udpVars>>

\* The fairness of ArpTable.  In IpfixUdp: the callback that runs comes to its end, the
\* goroutine is scheduled, and the wheel fires the timer of the channel however busy the main
\* thread is.  In HttpExporter: the goroutines are scheduled, a request is answered or fails
\* (httpClient has a timeout), and a select that is ready for done again and again takes it
\* (Go chooses at random).
MCFair ==
    /\ \A ip \in Gateways :
          WF_arpVars(focus = "arp" /\ TimerFires(ip)) /\ SF_arpVars(focus = "arp" /\ Reply(ip))
    /\ WF_udpVars(focus = "udp" /\ Udp!Work)
    /\ WF_udpVars(focus = "udp" /\ Udp!Writer)
    /\ WF_udpVars(focus = "udp" /\ Udp!Removed)
    /\ SF_udpVars(focus = "udp" /\ Udp!PollChan)
    /\ WF_httpVars(focus = "http" /\ Http!HxFileStep)
    /\ WF_httpVars(focus = "http"
          /\ (Http!HxSend \/ Http!HxMaxPosts \/ Http!HxAnswer \/ Http!HxNoAnswer))
    /\ SF_httpVars(focus = "http" /\ Http!HxFileClosed)
    /\ SF_httpVars(focus = "http" /\ Http!HxClosed)

MCSpec == MCInit /\ [][MCNext]_mcvars /\ MCFair

-----------------------------------------------------------------------------
\* A pause of the generators ends when the channel drains, and removing an IPFIX client comes to
\* its end, when all that was accepted has been sent (IpfixUdp); Close of the HTTP exporter comes
\* to its end, unless the disk failed (HttpExporter).
ExportersEnd ==
    Udp!PauseEnds /\ Udp!RemoveReturns /\ []Udp!CloseDrains /\ Http!HttpCloseEnds
=============================================================================
