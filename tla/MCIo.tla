-------------------------------- MODULE MCIo ---------------------------------
(***************************************************************************)
(* The goroutines of the process and its channels for TLC: the ring of the *)
(* proxy, the two sides of a veth, and the main loop.  focus says which of *)
(* them runs: they share no state here, so each is explored on its own.    *)
(***************************************************************************)
EXTENDS ProxyRing, MainLoop, VethPipe

VARIABLE focus

mcvars == <<focus, vars, vethVars, loopVars>>

MCIsShort(f) == f = 1

MCInit ==
    /\ focus \in {"ring", "veth", "loop"}
    /\ Init /\ VethInit /\ LoopInit

MCNext ==
    \/ focus = "ring" /\ Next /\ UNCHANGED <<focus, vethVars, loopVars>>
    \/ focus = "veth" /\ VethNext /\ UNCHANGED <<focus, vars, loopVars>>
    \/ focus = "loop" /\ LoopNext /\ UNCHANGED <<focus, vars, vethVars>>

\* the fairness of ProxyRing, VethPipe and MainLoop
MCFair ==
    /\ WF_vars(focus = "ring" /\ Handover) /\ WF_vars(focus = "ring" /\ OnRxPkt)
    /\ WF_vethVars(focus = "veth" /\ VethFlushTx)
    /\ WF_vethVars(focus = "veth" /\ Receive)
    /\ WF_loopVars(focus = "loop" /\ RecvBytes)
    /\ WF_loopVars(focus = "loop" /\ SendBytes)
    /\ WF_loopVars(focus = "loop" /\ TimerFires)
    /\ WF_loopVars(focus = "loop" /\ TimerThread)
    /\ WF_loopVars(focus = "loop" /\ TickSent)
    /\ WF_loopVars(focus = "loop" /\ MainStep)
    /\ SF_loopVars(focus = "loop" /\ SelectRpc)
    /\ SF_loopVars(focus = "loop" /\ SelectTick)

MCSpec == MCInit /\ [][MCNext]_mcvars /\ MCFair
=============================================================================
