---------------------------- MODULE MCTransport ----------------------------
(***************************************************************************)
(* A TCP connection and the transmit queue of a socket for TLC.  focus     *)
(* says which of them runs: the connection has its queue as a sequence,    *)
(* which the blocks of the queue implement.                                *)
(***************************************************************************)
EXTENDS Tcp, TxQueue

CONSTANTS Focus, MaxA, MaxB
VARIABLE focus

MCMaxBytes == [a |-> MaxA, b |-> MaxB]

\* both close, with a timer expiring; one closes, the other shuts down
MCScenarios ==
    {[a |-> {"close"}, b |-> {"close"}, ticks |-> 1],
     [a |-> {"shutdown"}, b |-> {"close"}, ticks |-> 0],
     [a |-> {"close"}, b |-> {"shutdown"}, ticks |-> 0]}

MCInit ==
    /\ focus \in Focus
    /\ TxqInit /\ (focus # "txqueue" => \A q \in QSizes : txq.sb_hiwat <= q)
    /\ TcpInit /\ (focus # "tcp" => user.a.may = {"shutdown"})

MCNext ==
    \/ focus = "tcp" /\ TcpNext /\ UNCHANGED <<focus, txqvars>>
    \/ focus = "txqueue" /\ TxqNext /\ UNCHANGED <<focus, tcpvars>>

MCSpec == MCInit /\ [][MCNext]_<<focus, tcpvars, txqvars>>
===========================================================================
