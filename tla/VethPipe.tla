------------------------------- MODULE VethPipe -------------------------------
(***************************************************************************)
(* The ZMQ veth (emu/core/veth_zmq.go) from the Send of one process to the *)
(* packet handler of the other: EMU on one side, TRex or the EMU proxy on  *)
(* the other, which runs the same code.  Send collects mbufs in a vector   *)
(* and FlushTx packs them into one message, at the end of every turn of    *)
(* the main loop or earlier when the vector is full.  On the other side a  *)
(* goroutine receives messages and hands them to the main loop over an     *)
(* unbuffered channel, and OnRxStream unpacks them with offsets kept in a  *)
(* uint16.                                                                 *)
(***************************************************************************)
EXTENDS Integers, Sequences

CONSTANTS
    PktLens,     \* lengths of packets
    HdrSize,     \* ZMQ message header and packet header (4 bytes each)
    BurstSize,   \* ZMQ_TX_PKT_BURST_SIZE
    MaxBuffer,   \* ZMQ_TX_MAX_BUFFER_SIZE
    OffMod,      \* 2^16: the offsets of OnRxStream wrap
    MaxPkts      \* packets sent in a behaviour (a bound)

\* 64 packets, 32 KiB of payload and the headers are below 64 KiB, and so is
\* one packet of the maximum size with its headers
SizesFit ==
    /\ HdrSize \in Nat \ {0} /\ BurstSize \in Nat \ {0}
    /\ MaxBuffer \in Nat \ {0} /\ OffMod \in Nat \ {0} /\ MaxPkts \in Nat
    /\ PktLens \subseteq Nat
    /\ MaxBuffer + HdrSize * (BurstSize + 1) < OffMod
    /\ \A n \in PktLens : n + 2 * HdrSize < OffMod

ASSUME VethAssumption == SizesFit

VARIABLES
    sent,          \* packets sent so far (they are numbered)
    txVec,         \* sender: mbufs waiting for a flush
    txVecSize,     \* sender: their payload bytes
    wire,          \* messages in the ZMQ sockets
    rxOffer,       \* receiver: the message rxThread offers on the channel
    cur,           \* receiver: the message OnRxStream is unpacking
    of,            \* its offset
    vethDelivered, \* packets given to HandleRxPacket
    rxParseErr     \* counter of bad messages

rxVars == <<wire, rxOffer, cur, of, vethDelivered, rxParseErr>>
vethVars == <<sent, txVec, txVecSize, rxVars>>

Packet == [id : 1..MaxPkts, len : PktLens]
NoMsg == <<>>

\* bytes of the first n packets with their headers, and the message header
Offset(msg, n) ==
    LET upto[i \in 0..n] ==
          IF i = 0 THEN HdrSize ELSE upto[i - 1] + HdrSize + msg[i].len
    IN  upto[n]

\* the packets of the first n messages
Packets(msgs, n) ==
    LET upto[i \in 0..n] == IF i = 0 THEN <<>> ELSE upto[i - 1] \o msgs[i]
    IN  upto[n]

-----------------------------------------------------------------------------
\* mutation of Send: the size of the buffer is not looked at
SendUnchecked(p) ==
    /\ txVec' = IF Len(txVec) + 1 = BurstSize THEN <<>> ELSE Append(txVec, p)
    /\ txVecSize' = IF Len(txVec) + 1 = BurstSize THEN 0 ELSE txVecSize + p.len
    /\ wire' = IF Len(txVec) + 1 = BurstSize THEN Append(wire, Append(txVec, p)) ELSE wire
    /\ sent' = sent + 1
    /\ UNCHANGED <<rxOffer, cur, of, vethDelivered, rxParseErr>>

\* Send: flush first when the payload would reach the buffer size, flush
\* after when the burst is complete
Send(p) ==
    LET full == txVecSize + p.len >= MaxBuffer /\ txVec # <<>>
        kept == IF full THEN <<p>> ELSE Append(txVec, p)
        size == IF full THEN p.len ELSE txVecSize + p.len
        early == IF full THEN Append(wire, txVec) ELSE wire
        burst == Len(kept) = BurstSize
    IN  /\ txVec' = IF burst THEN <<>> ELSE kept
        /\ txVecSize' = IF burst THEN 0 ELSE size
        /\ wire' = IF burst THEN Append(early, kept) ELSE early
        /\ sent' = sent + 1
        /\ UNCHANGED <<rxOffer, cur, of, vethDelivered, rxParseErr>>

SendBuffer == sent < MaxPkts /\ \E n \in PktLens : Send([id |-> sent + 1, len |-> n])

\* the FlushTx that ends a turn of the main loop
VethFlushTx ==
    /\ txVec # <<>>
    /\ wire' = Append(wire, txVec)
    /\ txVec' = <<>>
    /\ txVecSize' = 0
    /\ UNCHANGED <<sent, rxOffer, cur, of, vethDelivered, rxParseErr>>

-----------------------------------------------------------------------------
\* the goroutine takes the next message from the socket
VethRecvBytes ==
    /\ rxOffer = NoMsg /\ wire # <<>>
    /\ rxOffer' = Head(wire)
    /\ wire' = Tail(wire)
    /\ UNCHANGED <<sent, txVec, txVecSize, cur, of, vethDelivered, rxParseErr>>

\* the main loop, in its select, receives it and starts to unpack
OnRxStream ==
    /\ cur = NoMsg /\ rxOffer # NoMsg
    /\ cur' = rxOffer
    /\ rxOffer' = NoMsg
    /\ of' = HdrSize
    /\ UNCHANGED <<sent, txVec, txVecSize, wire, vethDelivered, rxParseErr>>

\* the packet whose header is at an offset; 0 when the offset is in the middle
\* of something else
AtOffset(msg, offset) ==
    IF \E i \in DOMAIN msg : Offset(msg, i - 1) = offset
    THEN CHOOSE i \in DOMAIN msg : Offset(msg, i - 1) = offset
    ELSE 0

\* one turn of the loop of OnRxStream: the packet at the offset is delivered,
\* or the rest of the message is dropped as an error
RxPacket ==
    /\ cur # NoMsg
    /\ LET i == AtOffset(cur, of)
           blen == Offset(cur, Len(cur))
           next == (of + HdrSize + cur[i].len) % OffMod
           bad == blen < (of + HdrSize) % OffMod \/ i = 0 \/ blen < next
       IN  IF bad
           THEN /\ cur' = NoMsg
                /\ rxParseErr' = rxParseErr + 1
                /\ UNCHANGED <<of, vethDelivered>>
           ELSE /\ cur' = IF i = Len(cur) THEN NoMsg ELSE cur
                /\ vethDelivered' = Append(vethDelivered, cur[i])
                /\ of' = next
                /\ UNCHANGED rxParseErr
    /\ UNCHANGED <<sent, txVec, txVecSize, wire, rxOffer>>

VethInit ==
    /\ sent = 0 /\ txVec = <<>> /\ txVecSize = 0
    /\ wire = <<>> /\ rxOffer = NoMsg /\ cur = NoMsg /\ of = 0
    /\ vethDelivered = <<>> /\ rxParseErr = 0

Receive == VethRecvBytes \/ OnRxStream \/ RxPacket

VethNext == SendBuffer \/ VethFlushTx \/ Receive

\* The main loop of the sender ends every turn with FlushTx, the goroutine and
\* the main loop of the receiver never wait for anything but a message.
VethSpec == VethInit /\ [][VethNext]_vethVars /\ WF_vethVars(VethFlushTx) /\ WF_vethVars(Receive)

-----------------------------------------------------------------------------
\* The vector, the batches and the offset of the parser keep their ranges.
VethTypeOK ==
    /\ sent \in 0..MaxPkts
    /\ txVec \in Seq(Packet)
    /\ wire \in Seq(Seq(Packet))
    /\ rxOffer \in Seq(Packet) /\ cur \in Seq(Packet)
    /\ of \in 0..OffMod - 1
    /\ txVecSize \in Nat

\* what OnRxStream has not delivered yet of its message
Rest ==
    LET i == AtOffset(cur, of)
    IN  IF cur = NoMsg \/ i = 0 THEN <<>> ELSE SubSeq(cur, i, Len(cur))

\* The packets on their way, oldest first.
OnTheWay == Rest \o rxOffer \o Packets(wire, Len(wire)) \o txVec

VethFifo == INSTANCE PacketFifo WITH queue <- OnTheWay, delivered <- vethDelivered

\* The two processes together are a reliable first-in first-out channel of
\* packets, whatever the batches are: no message is so long that the uint16
\* offset of OnRxStream wraps, and every packet sent is delivered.
IsFifo == VethFifo!Spec
=============================================================================
