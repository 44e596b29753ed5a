------------------------------ MODULE PacketFifo ------------------------------
(***************************************************************************)
(* What the veth promises its two users: packets come out in the order in  *)
(* which they went in, none lost, none twice, none changed.                *)
(***************************************************************************)
EXTENDS Sequences

CONSTANT Packet

VARIABLES
    queue,     \* packets on their way
    delivered  \* packets handed to the receiver, oldest first

Init == queue = <<>> /\ delivered = <<>>

Put(p) == queue' = Append(queue, p) /\ UNCHANGED delivered

Get ==
    /\ queue # <<>>
    /\ queue' = Tail(queue)
    /\ delivered' = Append(delivered, Head(queue))

Next == (\E p \in Packet : Put(p)) \/ Get

\* the safety part, and the promise that every packet arrives
Safety == Init /\ [][Next]_<<queue, delivered>>

Spec == Safety /\ WF_<<queue, delivered>>(Get)
=============================================================================
