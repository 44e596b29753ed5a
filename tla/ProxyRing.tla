------------------------------- MODULE ProxyRing -------------------------------
(***************************************************************************)
(* The receive side of the EMU proxy (cmd-proxy/trex-emu-proxy.go): a      *)
(* goroutine reads TAP frames into a ring of PKT_RING buffers and passes a *)
(* slice of the buffer, not a copy, over an unbuffered channel; the main   *)
(* loop copies it into an mbuf and sends that to EMU.  Between the channel *)
(* and the copy the goroutine is already reading the next frame.           *)
(***************************************************************************)
EXTENDS Naturals, Sequences

CONSTANTS
    PktRing,     \* PKT_RING
    Frame,       \* contents of a TAP frame
    ZeroFrame,   \* contents of a new buffer
    IsShort(_),  \* frames under 20 bytes, which OnRxPkt drops
    MaxFrames    \* frames read in a behaviour (a bound)

ASSUME RingAssumption == 
    PktRing \in Nat /\ PktRing > 1 /\ ZeroFrame \in Frame /\ MaxFrames \in Nat

VARIABLES
    data,       \* the buffers
    ring,       \* rxThread: the buffer it reads into
    offering,   \* rxThread: has read a frame and waits at the channel
    pkt,        \* main loop: the buffer it got, NoBuf in the select
    delivered,  \* frames copied and given to zmqVeth.Send
    nread       \* frames read

vars == <<data, ring, offering, pkt, delivered, nread>>

Buffers == 0..PktRing - 1
NoBuf == PktRing

\* tapif.Read, which blocks until there is a frame
TapRead ==
    /\ ~offering
    /\ nread < MaxFrames
    /\ \E f \in Frame : data' = [data EXCEPT ![ring] = f]
    /\ offering' = TRUE
    /\ nread' = nread + 1
    /\ UNCHANGED <<ring, pkt, delivered>>

\* mutation of Handover: the goroutine keeps reading into the same buffer
HandoverSameBuffer ==
    /\ offering /\ pkt = NoBuf
    /\ pkt' = ring
    /\ offering' = FALSE
    /\ UNCHANGED <<ring, data, delivered, nread>>

\* the channel: the goroutine passes the slice and moves to the next buffer
Handover ==
    /\ offering /\ pkt = NoBuf
    /\ pkt' = ring
    /\ offering' = FALSE
    /\ ring' = IF ring + 1 = PktRing THEN 0 ELSE ring + 1
    /\ UNCHANGED <<data, delivered, nread>>

\* OnRxPkt: drop a short frame, else copy it into an mbuf and send it
OnRxPkt ==
    /\ pkt # NoBuf
    /\ delivered' = IF IsShort(data[pkt]) THEN delivered ELSE Append(delivered, data[pkt])
    /\ pkt' = NoBuf
    /\ UNCHANGED <<data, ring, offering, nread>>

Init ==
    /\ data = [b \in Buffers |-> ZeroFrame]
    /\ ring = 0 /\ offering = FALSE
    /\ pkt = NoBuf /\ delivered = <<>> /\ nread = 0

Next == TapRead \/ Handover \/ OnRxPkt

Spec == Init /\ [][Next]_vars /\ WF_vars(Handover) /\ WF_vars(OnRxPkt)

-----------------------------------------------------------------------------
\* The frame the main loop was given is never the buffer being filled.
TypeOK ==
    /\ data \in [Buffers -> Frame]
    /\ ring \in Buffers
    /\ offering \in BOOLEAN
    /\ pkt \in Buffers \cup {NoBuf}
    /\ delivered \in Seq(Frame)
    /\ nread \in 0..MaxFrames
    /\ pkt # ring

Kept(f) == IF IsShort(f) THEN <<>> ELSE <<f>>

\* the frames read and not yet sent: the one being copied, the one offered
InRing ==
    (IF pkt = NoBuf THEN <<>> ELSE Kept(data[pkt]))
        \o (IF offering THEN Kept(data[ring]) ELSE <<>>)

Fifo == INSTANCE PacketFifo WITH Packet <- Frame, queue <- InRing

\* Frames of at least 20 bytes reach zmqVeth.Send in the order of the TAP,
\* each once and with the contents that were read, although the buffers are
\* shared by two goroutines.
RingIsFifo == Fifo!Spec
=============================================================================
