------------------------------ MODULE TxQueue ------------------------------
(***************************************************************************)
(* txSocketQueue of transport/socket.go: the transmit queue of a TCP       *)
(* socket, a ring of references to blocks that are taken from the mbuf     *)
(* pool as the head reaches them and given back as the tail leaves them.   *)
(* A block holds the bytes still in it, so its first byte is the tail's    *)
(* while the tail is in it.  A panic of the code makes panic true.         *)
(*                                                                         *)
(* ref is defined on the references that are not nil.  The values of bytes *)
(* go round 0..Values-1, which tells neighbours apart.                     *)
(***************************************************************************)
EXTENDS Integers, Sequences, FiniteSets, TLC, Functions

CONSTANTS
    BlockSize,      \* MBUF_RX_POOL_SIZE
    QSizes,         \* the sizes a queue is made with
    Values          \* bound: byte values

VARIABLES
    txq,            \* the queue
    txread,         \* the last readOffset: its offset and what it copied
    txlast          \* the value of the last byte written

txqvars == <<txq, txread, txlast>>

-----------------------------------------------------------------------------
(***************************************************************************)
(* queuePtr                                                                *)
(***************************************************************************)
Origin == [index |-> 0, offset |-> 0]

AbsOffset(p) == p.index * BlockSize + p.offset

MaxAbsOffset(q) == q.refSize * BlockSize

GetPtr(q, p, offset) ==
    LET off == AbsOffset(p) + offset
        in == IF off >= MaxAbsOffset(q) THEN off - MaxAbsOffset(q) ELSE off
    IN [index |-> in \div BlockSize, offset |-> in % BlockSize]

\* the place of r in its block, whose first bytes are gone if p, the tail, is in it
RelativeOffset(p, r) == IF p.index = r.index THEN r.offset - p.offset ELSE r.offset

Free(p) == BlockSize - p.offset

FillsBlock(p, n) == p.offset + n = BlockSize

Inc(q, p, n) ==
    IF FillsBlock(p, n)
    THEN [index |-> IF p.index + 1 = q.refSize THEN 0 ELSE p.index + 1, offset |-> 0]
    ELSE [p EXCEPT !.offset = @ + n]

MinSpace(free, req) == IF free >= req THEN req ELSE free

-----------------------------------------------------------------------------
\* two spare references, so that head and tail never meet in a block
RefSize(qsize) == ((qsize + BlockSize - 1) \div BlockSize) + 2

NewTxSocket(qsize) ==
    [sb_hiwat |-> qsize, refSize |-> RefSize(qsize), ref |-> <<>>, refCap |-> 0, head |-> Origin, tail |-> Origin,
     sb_cc |-> 0, panic |-> FALSE]

GetInternalSize(q) ==
    LET ho == AbsOffset(q.head)
        to == AbsOffset(q.tail)
    IN IF ho >= to THEN ho - to ELSE ho + MaxAbsOffset(q) - to

Allocated(q, i) == i \in DOMAIN q.ref

GetOrAllocIndex(q) ==
    IF Allocated(q, q.head.index) THEN q
    ELSE IF q.head.offset = 0
    THEN [q EXCEPT !.ref = (q.head.index :> <<>>) @@ @, !.refCap = @ + 1]
    ELSE [q EXCEPT !.panic = TRUE]

FreeIndex(q, i) ==
    IF Allocated(q, i) THEN [q EXCEPT !.ref = Restrict(@, DOMAIN @ \ {i}), !.refCap = @ - 1]
    ELSE [q EXCEPT !.panic = TRUE]

\* writeHeadInternal: a block at a time
RECURSIVE WriteHeadInternal(_, _)
WriteHeadInternal(q, bytes) ==
    LET a == GetOrAllocIndex(q)
        z == MinSpace(Free(q.head), Len(bytes))
        b == [a EXCEPT !.ref[q.head.index] = @ \o SubSeq(bytes, 1, z), !.head = Inc(q, @, z)]
    IN IF a.panic THEN a
       ELSE IF z = Len(bytes) THEN b
       ELSE WriteHeadInternal(b, SubSeq(bytes, z + 1, Len(bytes)))

TxWriteHead(q, bytes) == [WriteHeadInternal(q, bytes) EXCEPT !.sb_cc = @ + Len(bytes)]

RECURSIVE DropTail(_, _)
DropTail(q, n) ==
    LET i == q.tail.index
        z == MinSpace(Free(q.tail), n)
        a == [q EXCEPT !.ref[i] = SubSeq(@, z + 1, Len(@)), !.tail = Inc(q, @, z)]
        b == IF FillsBlock(q.tail, z) THEN FreeIndex(a, i) ELSE a
    IN IF ~Allocated(q, i) THEN [q EXCEPT !.panic = TRUE]
       ELSE IF z = n \/ b.panic THEN b
       ELSE DropTail(b, n - z)

\* an empty queue starts again at the first reference
TxSbdrop(q, n) ==
    LET a == DropTail([q EXCEPT !.sb_cc = @ - n], n)
        b == IF a.head.offset > 0 THEN FreeIndex(a, a.head.index) ELSE a
    IN IF a.sb_cc > 0 \/ a.panic THEN a
       ELSE IF a.head # a.tail THEN [a EXCEPT !.panic = TRUE]
       ELSE [b EXCEPT !.head = Origin, !.tail = Origin]

\* copyFromTail, from p on: <<whether it panics, the bytes>>
RECURSIVE CopyFromTail(_, _, _)
CopyFromTail(q, p, n) ==
    LET z == MinSpace(Free(p), n)
        of == RelativeOffset(q.tail, p)
        rest == CopyFromTail(q, Inc(q, p, z), n - z)
    IN IF n = 0 THEN <<FALSE, <<>>>>
       ELSE IF ~Allocated(q, p.index) \/ of < 0 THEN <<TRUE, <<>>>>
       ELSE IF of + z > Len(q.ref[p.index]) THEN <<TRUE, <<>>>>
       ELSE <<rest[1], SubSeq(q.ref[p.index], of + 1, of + z) \o rest[2]>>

ReadFromTail(q, offset, n) == CopyFromTail(q, q.tail, n)

ReadOffset(q, offset, n) == CopyFromTail(q, GetPtr(q, q.tail, offset), n)

-----------------------------------------------------------------------------
TxqInit ==
    /\ \E qsize \in QSizes : txq = NewTxSocket(qsize)
    /\ txread = [off |-> 0, data |-> <<>>] /\ txlast = 0

\* Write with more bytes than there is room for: the rest stays with the caller
TxqWrite ==
    \E n \in 1..(txq.sb_hiwat - txq.sb_cc) :
        /\ txq' = TxWriteHead(txq, [i \in 1..n |-> (txlast + i) % Values])
        /\ txlast' = (txlast + n) % Values
        /\ UNCHANGED txread

\* an acknowledgement of n bytes
TxqDrop ==
    \E n \in 1..txq.sb_cc :
        /\ txq' = TxSbdrop(txq, n)
        /\ UNCHANGED <<txread, txlast>>

\* a segment is built from any part of the queue
TxqRead ==
    \E off \in 0..(txq.sb_cc - 1) : \E n \in 1..(txq.sb_cc - off) :
        LET r == ReadOffset(txq, off, n)
        IN /\ txq' = [txq EXCEPT !.panic = @ \/ r[1]]
           /\ txread' = [off |-> off, data |-> r[2]]
           /\ UNCHANGED txlast

TxqNext == ~txq.panic /\ (TxqWrite \/ TxqDrop \/ TxqRead)

-----------------------------------------------------------------------------
\* the references from the tail's on, in ring order
InOrder(q) == [k \in 1..q.refSize |-> (q.tail.index + k - 1) % q.refSize]

RECURSIVE Joined(_, _)
Joined(q, ids) ==
    IF ids = <<>> THEN <<>>
    ELSE (IF Allocated(q, Head(ids)) THEN q.ref[Head(ids)] ELSE <<>>) \o Joined(q, Tail(ids))

\* the bytes of the blocks, and what the last read returned
Fifo == INSTANCE ByteFifo WITH buf <- Joined(txq, InOrder(txq)), out <- txread, room <- txq.sb_hiwat

\* The ring of blocks is a bounded sequence of bytes: whatever writes, drops and
\* reads came before, wherever head and tail are in the ring and in their blocks
\* (writeHead, sbdrop, readOffset).
TxqFifo == Fifo!FifoSpec
=============================================================================
