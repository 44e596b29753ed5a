------------------------------ MODULE ByteFifo ------------------------------
(***************************************************************************)
(* What the transmit queue of a TCP socket promises: a bounded sequence of *)
(* bytes, appended to at one end as far as there is room, dropped at the   *)
(* other, and read at any offset.                                          *)
(***************************************************************************)
EXTENDS Integers, Sequences

VARIABLES
    buf,        \* the bytes written and not dropped
    out,        \* the last read: the offset asked for and what it returned
    room        \* how many bytes the queue takes at most

FifoInit == buf = <<>> /\ out = [off |-> 0, data |-> <<>>] /\ room \in Nat

\* new bytes come after all that are there
AppendAll ==
    /\ Len(buf') \in (Len(buf) + 1)..room
    /\ SubSeq(buf', 1, Len(buf)) = buf
    /\ UNCHANGED <<out, room>>

DropFirst(n) == buf' = SubSeq(buf, n + 1, Len(buf)) /\ UNCHANGED <<out, room>>

ReadAt(off, n) == out' = [off |-> off, data |-> SubSeq(buf, off + 1, off + n)] /\ UNCHANGED <<buf, room>>

FifoNext ==
    \/ AppendAll
    \/ \E n \in 1..Len(buf) : DropFirst(n)
    \/ \E off \in 0..Len(buf) : \E n \in 1..(Len(buf) - off) : ReadAt(off, n)

FifoSpec == FifoInit /\ [][FifoNext]_<<buf, out, room>>
=============================================================================
