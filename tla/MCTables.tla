------------------------------- MODULE MCTables -------------------------------
(***************************************************************************)
(* The tables of the core and of ARP for TLC: the clients of a namespace,  *)
(* the namespaces of the thread, and the ARP table of a namespace.  focus  *)
(* says which of them runs: they share no state here, so each is explored  *)
(* on its own.                                                             *)
(***************************************************************************)
EXTENDS NsTables, ThreadCtx, ArpTable

VARIABLE focus

mcvars == <<focus, vars, threadVars, arpVars>>

Symmetry == Permutations(Gateways)

\* GetNextTicks reads the index of a flow only while it is queried; until then it is what an
\* earlier query left, and CompleteEvent begins with 0
Queried(f) == IF f.state \in {"incomplete", "refresh"} THEN f ELSE [f EXCEPT !.index = 0]
View ==
    <<focus, vars, threadVars, alive, clientVars, dgw, [ip \in Gateways |-> Queried(flow[ip])],
      list, arpIterVars, failed, pend, asked>>

MCInit == focus \in {"ns", "thread", "arp"} /\ Init /\ ThreadInit /\ ArpInit

MCNext ==
    \/ focus = "ns" /\ Next /\ UNCHANGED <<focus, threadVars, arpVars>>
    \/ focus = "thread" /\ ThreadNext /\ UNCHANGED <<focus, vars, arpVars>>
    \/ focus = "arp" /\ ArpNext /\ UNCHANGED <<focus, vars, threadVars>>

MCSpec == MCInit /\ [][MCNext]_mcvars
=============================================================================
