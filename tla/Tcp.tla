------------------------------------ MODULE Tcp ------------------------------------
EXTENDS Integers, Sequences, FiniteSets

-----------------------------------------------------------------------------
(***************************************************************************)
(* The TCP of plugins/transport: one socket as a record, and the code's    *)
(* functions as operators from a socket to the socket they leave.  What a  *)
(* call transmits is collected in tx, what it hands up in up.  Sequence    *)
(* numbers count from the initial one (iss = 0), so the SYN has number 0   *)
(* and the k-th byte of the stream number k; the transmit queue holds the  *)
(* bytes themselves.                                                       *)
(* removed counts the calls of removeFlowAssociation and freePort.         *)
(*                                                                         *)
(* Abstracted: how long timers run (timer is the set of those running),    *)
(* round-trip estimation, and the options (time stamps, window scaling).   *)
(* The receive window is the whole buffer Wnd: rxSocketQueue.sbspace       *)
(* returns sb_hiwat whatever was received.  snd_cwnd is cut at Wnd, above  *)
(* which it makes no difference to what may be sent.                       *)
(***************************************************************************)
CONSTANTS
    MaxSeg,         \* maxseg, in bytes
    Wnd,            \* sb_hiwat of the receive side
    TxSize,         \* sb_hiwat of the transmit queue
    InitWnd,        \* tcp_initwnd
    RexmtThresh,    \* tcprexmtthresh
    MaxRxtShift,    \* TCP_MAXRXTSHIFT
    NoDelay,        \* TF_NODELAY is set
    NoDelayCounter  \* tcp_no_delay_counter; 0: no such limit

\* the states of tcp_fsm.go, in their order
TcpsNo ==
    [CLOSED |-> 0, LISTEN |-> 1, SYN_SENT |-> 2, SYN_RECEIVED |-> 3, ESTABLISHED |-> 4, CLOSE_WAIT |-> 5,
     FIN_WAIT_1 |-> 6, CLOSING |-> 7, LAST_ACK |-> 8, FIN_WAIT_2 |-> 9, TIME_WAIT |-> 10]

TcpOutflags(state) ==
    CASE state = "CLOSED" -> {"RST", "ACK"}
      [] state = "LISTEN" -> {}
      [] state = "SYN_SENT" -> {"SYN"}
      [] state = "SYN_RECEIVED" -> {"SYN", "ACK"}
      [] state \in {"FIN_WAIT_1", "CLOSING", "LAST_ACK"} -> {"FIN", "ACK"}
      [] OTHER -> {"ACK"}

HaveRcvdSyn(c) == TcpsNo[c.state] >= TcpsNo["SYN_RECEIVED"]

HaveRcvdFin(c) == TcpsNo[c.state] >= TcpsNo["TIME_WAIT"]

Least(a, b) == IF a < b THEN a ELSE b

Most(a, b) == IF a > b THEN a ELSE b

\* init and initphase2; gateway: the destination's MAC is known to the client
NewSocket(gateway) ==
    [state |-> "CLOSED", snd_una |-> 0, snd_nxt |-> 0, snd_max |-> 0, snd_wnd |-> 0, snd_wl1 |-> 0,
     snd_wl2 |-> 0, snd_cwnd |-> InitWnd, snd_ssthresh |-> Wnd, dupacks |-> 0, rcv_nxt |-> 0, rcv_adv |-> 0,
     so_snd |-> <<>>, txqueue |-> <<>>, flags |-> {}, timer |-> {}, rxtshift |-> 0, idle |-> FALSE,
     force |-> FALSE, pkts_cnt |-> 0, interrupt |-> FALSE, dpc |-> FALSE, cbmask |-> {}, lastmask |-> {},
     err |-> "OK", resolved |-> FALSE, gateway |-> gateway, removed |-> 0, up |-> <<>>, tx |-> {}]

Segment(flags, seq, ack, data) == [flags |-> flags, seq |-> seq, ack |-> ack, data |-> data]

\* a control segment with the numbers given, if the destination is resolved
Respond(c, ack, seq, flags) ==
    IF c.resolved \/ c.gateway
    THEN [c EXCEPT !.resolved = TRUE, !.tx = @ \cup {Segment(flags, seq, ack, <<>>)}]
    ELSE c

-----------------------------------------------------------------------------
(***************************************************************************)
(* output()                                                                *)
(***************************************************************************)
Setpersist(c) ==
    [c EXCEPT !.timer = @ \cup {"PERSIST"}, !.rxtshift = Least(@ + 1, MaxRxtShift)]

\* the window the next segment may use; a forced probe into a closed one sends a byte
SendWindow(c) == LET w == Least(c.snd_wnd, c.snd_cwnd) IN IF c.force /\ w = 0 THEN 1 ELSE w

\* what the next segment would carry, and whether there is a reason to send it
Plan(c, idle) ==
    LET off == c.snd_nxt - c.snd_una
        win == SendWindow(c)
        cc == Len(c.so_snd)
        room == Least(cc, win) - off
        len == Least(Most(room, 0), MaxSeg)
        nxt == IF room < 0 /\ win = 0 THEN c.snd_una ELSE c.snd_nxt
        flags == TcpOutflags(c.state)
                    \ (IF \/ nxt + len < c.snd_una + cc
                          \/ c.force /\ Least(c.snd_wnd, c.snd_cwnd) = 0 /\ off < cc
                       THEN {"FIN"} ELSE {})
        update == Wnd - (c.rcv_adv - c.rcv_nxt)
    IN [off |-> off, len |-> len, flags |-> flags, sendalot |-> room > MaxSeg,
        shrunk |-> room < 0 /\ win = 0, nxt |-> nxt,
        send |-> \/ /\ len > 0
                    /\ \/ len >= MaxSeg
                       \/ (idle \/ NoDelay) /\ len + off >= cc
                       \/ c.force
                       \/ len >= Wnd \div 2
                       \/ nxt < c.snd_max
                 \/ update >= 2 * MaxSeg \/ 2 * update >= Wnd
                 \/ "ACKNOW" \in c.flags
                 \/ flags \cap {"SYN", "RST"} # {}
                 \/ "FIN" \in flags /\ ("SENTFIN" \notin c.flags \/ nxt = c.snd_una)]

\* the numbers move over what was sent, and it is put under the retransmit timer
Transmitted(c, p, nxt) ==
    LET end == nxt + p.len + Cardinality(p.flags \cap {"SYN", "FIN"})
        arm == "REXMT" \notin c.timer /\ end # c.snd_una
    IN IF ~c.force \/ "PERSIST" \notin c.timer
       THEN [c EXCEPT !.snd_nxt = end,
                      !.snd_max = Most(@, end),
                      !.flags = @ \cup (IF "FIN" \in p.flags THEN {"SENTFIN"} ELSE {}),
                      !.rxtshift = IF arm /\ "PERSIST" \in c.timer THEN 0 ELSE @,
                      !.timer = IF arm THEN (@ \ {"PERSIST"}) \cup {"REXMT"} ELSE @]
       ELSE [c EXCEPT !.snd_nxt = nxt, !.snd_max = Most(@, nxt + p.len)]

SendSegment(c, p) ==
    LET nxt == IF "FIN" \in p.flags /\ "SENTFIN" \in c.flags /\ c.snd_nxt = c.snd_max
               THEN c.snd_nxt - 1 ELSE c.snd_nxt
        seq == IF p.len > 0 \/ p.flags \cap {"SYN", "FIN"} # {} \/ "PERSIST" \in c.timer
               THEN nxt ELSE c.snd_max
        push == IF p.len > 0 /\ p.off + p.len = Len(c.so_snd) THEN {"PUSH"} ELSE {}
        d == Transmitted(c, p, nxt)
    IN [d EXCEPT !.tx = @ \cup {Segment(p.flags \cup push, seq, c.rcv_nxt,
                                        SubSeq(c.so_snd, p.off + 1, p.off + p.len))},
                 !.resolved = TRUE,
                 !.rcv_adv = Most(@, c.rcv_nxt + Wnd),
                 !.flags = @ \ {"ACKNOW", "DELACK"}]

\* the window is open again: a forced probe ends the persist state
Unpersist(c) ==
    IF c.force /\ Least(c.snd_wnd, c.snd_cwnd) > 0
    THEN [c EXCEPT !.timer = @ \ {"PERSIST"}, !.rxtshift = 0] ELSE c

\* a closed window takes the numbers back to what was acknowledged
PullBack(c, p) ==
    [c EXCEPT !.snd_nxt = p.nxt, !.timer = IF p.shrunk THEN @ \ {"REXMT"} ELSE @]

\* a SYN starts from iss; its MSS option sets the congestion window
FromIss(c, p) ==
    IF "SYN" \in p.flags THEN [c EXCEPT !.snd_nxt = 0, !.snd_cwnd = InitWnd] ELSE c

NothingToSend(c) ==
    IF Len(c.so_snd) > 0 /\ c.timer \cap {"REXMT", "PERSIST"} = {}
    THEN Setpersist([c EXCEPT !.rxtshift = 0]) ELSE c

RECURSIVE OutputLoop(_, _)
OutputNext(c, sendalot, idle) == IF sendalot THEN OutputLoop(c, idle) ELSE c

OutputPlanned(c, p, idle) ==
    IF ~p.send THEN NothingToSend(PullBack(c, p))
    ELSE IF ~(c.resolved \/ c.gateway)
    THEN [FromIss(PullBack(c, p), p) EXCEPT !.snd_cwnd = MaxSeg]     \* quench: nothing was sent
    ELSE OutputNext(SendSegment(FromIss(PullBack(c, p), p), p), p.sendalot, idle)

OutputLoop(c, idle) == OutputPlanned(Unpersist(c), Plan(Unpersist(c), idle), idle)

Output(c) ==
    LET idle == c.snd_max = c.snd_una
    IN OutputLoop(IF idle /\ c.idle THEN [c EXCEPT !.snd_cwnd = MaxSeg] ELSE c, idle)

DoOutput(c) == IF c.interrupt THEN [c EXCEPT !.dpc = TRUE] ELSE Output(c)
-----------------------------------------------------------------------------
(***************************************************************************)
(* The transmit queue and the user's calls (socket.go, tcp_subr.go)        *)
(***************************************************************************)
Taken(c, buf) == Least(Len(buf), TxSize - Len(c.so_snd))

WriteHead(c, buf) == [c EXCEPT !.so_snd = @ \o SubSeq(buf, 1, Taken(c, buf))]

Rest(c, buf) == SubSeq(buf, Taken(c, buf) + 1, Len(buf))

\* what is written into an empty queue is sent at once
WriteOut(c, buf) == IF c.so_snd = <<>> THEN DoOutput(WriteHead(c, buf)) ELSE WriteHead(c, buf)

\* the user's buffer that Write could not take, moved into the queue
DrainUserQueue(c) ==
    IF c.txqueue = <<>> \/ "WRITE_DRAIN" \notin c.flags THEN c
    ELSE LET rest == Rest(c, c.txqueue)
         IN [WriteOut(c, c.txqueue) EXCEPT
               !.txqueue = rest, !.flags = IF rest = <<>> THEN @ \ {"WRITE_DRAIN"} ELSE @]

\* dousrclosed once a SYN was received
SendFin(c) ==
    IF c.state \in {"SYN_RECEIVED", "ESTABLISHED", "CLOSE_WAIT"}
    THEN DoOutput([c EXCEPT !.state = IF @ = "CLOSE_WAIT" THEN "LAST_ACK" ELSE "FIN_WAIT_1"])
    ELSE c

\* checkCloseDefer: CLOSE_DEFER is set in ESTABLISHED only, never before a SYN was received
CheckCloseDefer(c) ==
    IF "CLOSE_DEFER" \in c.flags THEN SendFin([c EXCEPT !.flags = @ \ {"CLOSE_DEFER"}]) ELSE c

\* sbdrop: the first n bytes leave the queue, the user's buffer moves up, and a
\* Close that waited for the queue is carried out
Drained(c) ==
    LET more == IF Len(c.so_snd) < TxSize \div 2 THEN {"TxMore"} ELSE {}
    IN IF "WRITE_DRAIN" \in c.flags THEN c
       ELSE IF c.so_snd = <<>> THEN CheckCloseDefer([c EXCEPT !.cbmask = @ \cup more \cup {"TxEmpty"}])
       ELSE [c EXCEPT !.cbmask = @ \cup more]

Dropped(c) == IF Len(c.so_snd) >= TxSize \div 2 THEN c ELSE Drained(DrainUserQueue(c))

Sbdrop(c, n) == IF n = 0 THEN c ELSE Dropped([c EXCEPT !.so_snd = SubSeq(@, n + 1, Len(@))])

\* the flow leaves the table, its port is freed, the queue is dropped while the
\* state is still the old one, and the timers stop
ChangeStateToClose(c) ==
    IF c.state = "CLOSED" THEN c
    ELSE [Sbdrop([c EXCEPT !.cbmask = @ \cup {"Closed"}, !.removed = @ + 1], Len(c.so_snd))
            EXCEPT !.state = "CLOSED"]

DropNow(c, err) ==
    LET d == IF HaveRcvdSyn(c) THEN DoOutput(ChangeStateToClose(c)) ELSE c
    IN ChangeStateToClose([d EXCEPT !.err = err])

Connect(c) == Output([c EXCEPT !.state = "SYN_SENT", !.timer = {"KEEP"}])

Listen(c) == [c EXCEPT !.state = "LISTEN"]

IsStartClose(c) == TcpsNo[c.state] > TcpsNo["CLOSE_WAIT"] \/ "CLOSE_DEFER" \in c.flags

Dousrclosed(c) ==
    IF c.state \in {"LISTEN", "SYN_SENT"} THEN DoOutput(ChangeStateToClose(c)) ELSE SendFin(c)

UsrclosedNow(c) == Dousrclosed(c)

\* the FIN waits until the queue is empty
Usrclosed(c) ==
    IF c.state = "ESTABLISHED" /\ (c.so_snd # <<>> \/ c.txqueue # <<>>)
    THEN [c EXCEPT !.flags = @ \cup {"CLOSE_DEFER"}]
    ELSE Dousrclosed(c)

\* a call of Write that is not refused; buf may be longer than the queue
CanWrite(c) == ~IsStartClose(c) /\ "WRITE_DRAIN" \notin c.flags

\* what the queue had no room for waits in the user's buffer
Parked(c, rest) ==
    IF ~c.resolved \/ rest = <<>> THEN c
    ELSE [c EXCEPT !.flags = @ \cup {"WRITE_DRAIN"}, !.txqueue = rest]

Write(c, buf) == Parked(WriteOut(c, buf), Rest(c, buf))

\* in an interrupt the Closed event is left to handleDpc
DeferEvents(c) == [c EXCEPT !.lastmask = c.cbmask, !.dpc = TRUE]

CloseInside(c) == IF IsStartClose(c) THEN c ELSE Usrclosed(DeferEvents(c))

ShutdownInside(c) == IF c.state = "CLOSED" THEN c ELSE DropNow(DeferEvents(c), "ECONNRESET")

-----------------------------------------------------------------------------
(***************************************************************************)
(* _input() of tcp_input.go: what an arriving segment g does to a socket.  *)
(* The stages of the function are operators, each ending in the next one   *)
(* or in one of the function's three exits: Drop, DropAfterAck and         *)
(* DropWithReset.  g.syn0 and g.fin0 are the flags as they arrived (tisyn, *)
(* tcph.Flags); g.flags are those still set (tiflags).                     *)
(***************************************************************************)
Drop(c) == c

DropAfterAck(c, g) ==
    IF "RST" \in g.flags THEN c ELSE Output([c EXCEPT !.flags = @ \cup {"ACKNOW"}])

DropWithReset(c, g) ==
    IF "RST" \in g.flags THEN c
    ELSE IF "ACK" \in g.flags THEN Respond(c, 0, g.ack, {"RST"})
    ELSE Respond(c, g.seq + Len(g.data) + (IF g.syn0 THEN 1 ELSE 0), 0, {"RST", "ACK"})

CutFront(g, n) == [g EXCEPT !.seq = @ + n, !.data = SubSeq(@, n + 1, Len(@))]

\* bytes counted against tcp_no_delay_counter: at the limit they are acknowledged at once
CountCheckNoDelay(c, n) == NoDelayCounter > 0 /\ c.pkts_cnt + n >= NoDelayCounter

Counted(c, n) ==
    IF NoDelayCounter = 0 THEN c
    ELSE LET sum == c.pkts_cnt + n
             over == sum - NoDelayCounter
         IN [c EXCEPT !.pkts_cnt = IF over < 0 THEN sum ELSE IF over >= NoDelayCounter THEN 0 ELSE over]

\* sbappend: the data goes up with the callback of input()
Sbappend(c, data) ==
    [c EXCEPT !.cbmask = @ \cup {IF data # <<>> THEN "RxData" ELSE "RemoteDisconnect"}, !.up = data]

-----------------------------------------------------------------------------
ReassAny(c, g) ==
    Sbappend([c EXCEPT !.rcv_nxt = @ + Len(g.data), !.flags = @ \cup {"ACKNOW"}], g.data)

\* in sequence: taken; anything else is dropped, and asks for an ACK.  A FIN is
\* left set in a dropped segment, and taken from the header in an accepted one.
Reass(c, g) ==
    IF g.seq = c.rcv_nxt /\ c.state = "ESTABLISHED"
    THEN LET now == "PUSH" \in g.flags \/ CountCheckNoDelay(c, Len(g.data))
         IN Sbappend(Counted([c EXCEPT !.rcv_nxt = @ + Len(g.data),
                                       !.flags = @ \cup {IF now THEN "ACKNOW" ELSE "DELACK"}], Len(g.data)),
                     g.data)
    ELSE [c EXCEPT !.flags = @ \cup {"ACKNOW"}]

TakeFin(c) ==
    LET d == IF HaveRcvdFin(c) THEN c
             ELSE [c EXCEPT !.cbmask = @ \cup {"RemoteDisconnect"}, !.flags = @ \cup {"ACKNOW"},
                            !.rcv_nxt = @ + 1]
    IN CASE d.state \in {"SYN_RECEIVED", "ESTABLISHED"} -> [d EXCEPT !.state = "CLOSE_WAIT"]
         [] d.state = "FIN_WAIT_1" -> [d EXCEPT !.state = "CLOSING"]
         [] d.state = "FIN_WAIT_2" ->
              [d EXCEPT !.state = "TIME_WAIT", !.timer = {"2MSL"}, !.cbmask = @ \cup {"RemoteDisconnect"}]
         [] OTHER -> d

UpdatesWindow(c, g) ==
    /\ "ACK" \in g.flags
    /\ \/ c.snd_wl1 < g.seq
       \/ c.snd_wl1 = g.seq /\ (c.snd_wl2 < g.ack \/ (c.snd_wl2 = g.ack /\ Wnd > c.snd_wnd))

\* the data of the segment, and its FIN
TakeText(c, g) ==
    LET inOrder == g.seq = c.rcv_nxt /\ c.state = "ESTABLISHED"
    IN IF (g.data = <<>> /\ "FIN" \notin g.flags) \/ HaveRcvdFin(c) THEN c
       ELSE IF IF inOrder THEN g.fin0 ELSE "FIN" \in g.flags THEN TakeFin(Reass(c, g))
       ELSE Reass(c, g)

OutputIfDue(c, needoutput) == IF needoutput \/ "ACKNOW" \in c.flags THEN Output(c) ELSE c

\* window update, data, FIN, and whatever output is now due
Step6(c, g, needoutput) ==
    LET update == UpdatesWindow(c, g)
        d == IF update THEN [c EXCEPT !.snd_wnd = Wnd, !.snd_wl1 = g.seq, !.snd_wl2 = g.ack] ELSE c
    IN OutputIfDue(TakeText(d, g), needoutput \/ update)

-----------------------------------------------------------------------------
\* update_rcv_window: past the SYN, and no more than the window
PastSyn(g) ==
    LET h == [g EXCEPT !.seq = @ + 1]
    IN IF Len(g.data) <= Wnd THEN h
       ELSE [h EXCEPT !.data = SubSeq(@, 1, Wnd), !.flags = @ \ {"FIN"}]

InputListen(c, g) ==
    Step6([c EXCEPT !.snd_una = 0, !.snd_nxt = 0, !.snd_max = 0, !.rcv_nxt = g.seq + 1,
                    !.rcv_adv = g.seq + 1, !.flags = @ \cup {"ACKNOW"}, !.state = "SYN_RECEIVED",
                    !.timer = @ \cup {"KEEP"}, !.snd_wl1 = g.seq],
          PastSyn(g), FALSE)

InputSynSent(c, g) ==
    LET ack == "ACK" \in g.flags
        d == [c EXCEPT !.snd_una = IF ack THEN g.ack ELSE @,
                       !.snd_nxt = IF ack THEN Most(@, g.ack) ELSE @,
                       !.timer = @ \ {"REXMT"}, !.rcv_nxt = g.seq + 1, !.rcv_adv = g.seq + 1,
                       !.flags = @ \cup {"ACKNOW"}, !.snd_wl1 = g.seq]
        open == ack /\ d.snd_una > 0
    IN IF ack /\ (g.ack <= 0 \/ g.ack > c.snd_max) THEN DropWithReset(c, g)
       ELSE IF "RST" \in g.flags THEN Drop(IF ack THEN DropNow(c, "ECONNREFUSED") ELSE c)
       ELSE IF ~g.syn0 THEN Drop(c)
       ELSE Step6([d EXCEPT !.state = IF open THEN "ESTABLISHED" ELSE "SYN_RECEIVED",
                            !.cbmask = IF open THEN @ \cup {"Connected"} ELSE @],
                  PastSyn(g), FALSE)

-----------------------------------------------------------------------------
(***************************************************************************)
(* The other states: trim to the window, RST, SYN, ACK                     *)
(***************************************************************************)
HalfWindow(c) == MaxSeg * Most(2, Least(c.snd_wnd, c.snd_cwnd) \div (2 * MaxSeg))

FastRexmt(c, ack, half) ==
    [Output([c EXCEPT !.snd_ssthresh = half, !.timer = @ \ {"REXMT"}, !.snd_nxt = ack, !.snd_cwnd = MaxSeg])
       EXCEPT !.snd_cwnd = Least(half + MaxSeg * RexmtThresh, Wnd), !.snd_nxt = Most(@, c.snd_nxt)]

\* the ack is not new: at the third in a row the segment it asks for is sent again
DupAck(c, g) ==
    LET n == IF g.data # <<>> \/ c.snd_wnd # Wnd \/ "REXMT" \notin c.timer \/ g.ack # c.snd_una THEN 0
             ELSE Least(c.dupacks + 1, RexmtThresh + 1)
        d == [c EXCEPT !.dupacks = n]
    IN IF n < RexmtThresh THEN Step6(d, g, FALSE)
       ELSE IF n = RexmtThresh THEN Drop(FastRexmt(d, g.ack, HalfWindow(c)))
       ELSE Drop(Output([d EXCEPT !.snd_cwnd = Least(@ + MaxSeg, Wnd)]))

\* cwnd opens by a segment per ack, and more slowly above ssthresh
OpenCwnd(c) ==
    LET cw == IF c.dupacks > RexmtThresh THEN Least(c.snd_cwnd, c.snd_ssthresh) ELSE c.snd_cwnd
        incr == IF cw > c.snd_ssthresh THEN (MaxSeg * MaxSeg) \div cw ELSE MaxSeg
    IN Least(cw + incr, Wnd)

RexmtKept(c, ack) == c.timer \ {"REXMT"}

\* all acked: the retransmit timer stops; otherwise it starts anew
RexmtAfterAck(c, ack) ==
    IF ack = c.snd_max THEN c.timer \ {"REXMT"}
    ELSE IF "PERSIST" \notin c.timer THEN c.timer \cup {"REXMT"}
    ELSE c.timer

\* the state after the ack of our FIN
FinAcked(c) ==
    IF c.state = "FIN_WAIT_1" THEN [c EXCEPT !.state = "FIN_WAIT_2"]
    ELSE IF c.state = "CLOSING"
    THEN [c EXCEPT !.state = "TIME_WAIT", !.timer = {"2MSL"}, !.cbmask = @ \cup {"RemoteDisconnect"}]
    ELSE c

AfterAck(c, g, finacked, needoutput) ==
    IF c.state = "LAST_ACK" /\ finacked THEN Drop(ChangeStateToClose(c))
    ELSE IF c.state = "TIME_WAIT" THEN DropAfterAck([c EXCEPT !.timer = @ \cup {"2MSL"}], g)
    ELSE Step6(IF finacked THEN FinAcked(c) ELSE c, g, needoutput)

NewAck(c, g) ==
    LET acked == g.ack - c.snd_una
        drop == Least(acked, Len(c.so_snd))
        d == [c EXCEPT !.dupacks = 0, !.rxtshift = 0, !.timer = RexmtAfterAck(c, g.ack),
                       !.snd_cwnd = OpenCwnd(c), !.snd_wnd = @ - drop]
    IN IF g.ack > c.snd_max THEN DropAfterAck([c EXCEPT !.dupacks = 0], g)
       ELSE AfterAck([Sbdrop(d, drop) EXCEPT !.snd_una = g.ack, !.snd_nxt = Most(@, g.ack)],
                     g, acked > Len(c.so_snd), g.ack = c.snd_max)

InputAck(c, g) ==
    LET syn == c.state = "SYN_RECEIVED"
        d == IF syn THEN [c EXCEPT !.cbmask = @ \cup {"Connected"}, !.snd_cwnd = InitWnd,
                                   !.state = "ESTABLISHED", !.snd_wl1 = g.seq - 1]
             ELSE c
    IN IF syn /\ (c.snd_una > g.ack \/ g.ack > c.snd_max) THEN DropWithReset(c, g)
       ELSE IF g.ack <= d.snd_una THEN DupAck(d, g) ELSE NewAck(d, g)

\* tisyn is the flag as it arrived: a SYN left of the window counts, too
InputFlags(c, g) ==
    IF "RST" \in g.flags
    THEN Drop(ChangeStateToClose(IF c.state \in {"CLOSING", "LAST_ACK", "TIME_WAIT"} THEN c
                                 ELSE [c EXCEPT !.err = "ECONNRESET"]))
    ELSE IF g.syn0 THEN DropWithReset(DropNow(c, "ECONNRESET"), g)
    ELSE IF "ACK" \notin g.flags THEN Drop(c)
    ELSE InputAck(c, g)

\* the part beyond the window is cut; a segment wholly beyond it only asks for an ACK
InputRight(c, g) ==
    LET over == g.seq + Len(g.data) - (c.rcv_nxt + Wnd)
        h == [g EXCEPT !.data = SubSeq(@, 1, Len(@) - over), !.flags = @ \ {"PUSH", "FIN"}]
    IN IF TcpsNo[c.state] > TcpsNo["CLOSE_WAIT"] /\ g.data # <<>>
       THEN DropWithReset(ChangeStateToClose(c), g)
       ELSE IF over > 0 /\ over >= Len(g.data) THEN DropAfterAck(c, g)
       ELSE InputFlags(c, IF over > 0 THEN h ELSE g)

\* what was received before is cut: the SYN, then bytes, then a FIN alone
InputLeft(c, g) ==
    LET old == c.rcv_nxt - g.seq
        h == IF g.syn0 THEN [g EXCEPT !.seq = @ + 1, !.flags = @ \ {"SYN"}] ELSE g
        todrop == IF g.syn0 THEN old - 1 ELSE old
        len == Len(g.data)
        onlyFin == "FIN" \in g.flags /\ todrop = len + 1
        seen == old > 0 /\ todrop >= len       \* nothing new but what is right of it
        cut == IF old <= 0 THEN g
               ELSE IF todrop < len THEN CutFront(h, todrop)
               ELSE IF onlyFin THEN [CutFront(h, len) EXCEPT !.flags = @ \ {"FIN"}] ELSE h
    IN IF seen /\ ~onlyFin /\ (todrop # 0 \/ "ACK" \notin g.flags) THEN DropAfterAck(c, h)
       ELSE InputRight(IF seen THEN [c EXCEPT !.flags = @ \cup {"ACKNOW"}] ELSE c, cut)

\* Header prediction: in an open connection the next segment, with nothing in it
\* but an ACK or data, and nothing being sent again
Predicted(c, g) ==
    /\ c.state = "ESTABLISHED" /\ g.flags \cap {"SYN", "FIN", "RST", "ACK"} = {"ACK"}
    /\ g.seq = c.rcv_nxt /\ c.snd_wnd = Wnd /\ c.snd_nxt = c.snd_max

PureAck(c, g) == g.data = <<>> /\ g.ack > c.snd_una /\ g.ack <= c.snd_max /\ c.snd_cwnd >= c.snd_wnd

RexmtAgain(c, ack) == [c EXCEPT !.timer = RexmtAfterAck(c, ack)]

OutputQueue(c) == IF c.so_snd # <<>> THEN Output(c) ELSE c

PredictAck(c, g) ==
    OutputQueue(RexmtAgain(
        [Sbdrop([c EXCEPT !.dupacks = 0, !.rxtshift = 0], g.ack - c.snd_una) EXCEPT !.snd_una = g.ack], g.ack))

PredictData(c, g) ==
    LET n == Len(g.data)
        d == Sbappend(Counted([c EXCEPT !.rcv_nxt = @ + n], n), g.data)
    IN IF CountCheckNoDelay(c, n) \/ "PUSH" \in g.flags
       THEN Output([d EXCEPT !.flags = @ \cup {"ACKNOW"}])
       ELSE [d EXCEPT !.flags = @ \cup {"DELACK"}]

InputSegment(c, g) ==
    LET d == [c EXCEPT !.idle = FALSE, !.timer = @ \cup {"KEEP"}]
    IN IF c.state = "LISTEN" /\ g.flags \cap {"SYN", "ACK", "RST"} # {"SYN"}
       THEN IF "ACK" \in g.flags THEN DropWithReset(c, g) ELSE Drop(c)
       ELSE IF Predicted(d, g) /\ PureAck(d, g) THEN PredictAck(d, g)
       ELSE IF Predicted(d, g) /\ g.data # <<>> /\ g.ack = d.snd_una THEN PredictData(d, g)
       ELSE IF c.state = "LISTEN" THEN InputListen(d, g)
       ELSE IF c.state = "SYN_SENT" THEN InputSynSent(d, g)
       ELSE InputLeft(d, g)

-----------------------------------------------------------------------------
(***************************************************************************)
(* One TCP connection: the client's socket a and the server's socket b,    *)
(* which both run the code of TcpInput, their timers and their users.  The *)
(* network keeps every segment it was given and may deliver it at any      *)
(* time, again or never: segments are lost, duplicated and reordered.      *)
(*                                                                         *)
(* A user writes only after SocketEventConnected, as socketApi.go asks,    *)
(* and calls nothing after SocketClosed.  It may close, shut down or write *)
(* at any time, and also from within a callback: an action that calls back *)
(* takes the callback's name and what the user does in it.                 *)
(***************************************************************************)
CONSTANTS
    MaxBytes,       \* MaxBytes[s]: how many bytes the user of s writes
    Writes,         \* the lengths of one Write
    Scenarios       \* what may happen: records [a, b, ticks] with what the users of a and b
                    \* call besides Write, of {"close", "shutdown"}, and the bound on the
                    \* slow ticks in which a timer expires

VARIABLES
    sock,           \* the two sockets
    net,            \* net[s]: the segments sent to s
    user,           \* history: what the user of s may call and called, wrote, received and was told
    ticks           \* slow ticks with an expiry that are left

tcpvars == <<sock, net, user, ticks>>

Ends == {"a", "b"}
Peer(s) == IF s = "a" THEN "b" ELSE "a"

Events == {"Connected", "RemoteDisconnect", "Closed"}

NewUser(may) == [may |-> may, written |-> 0, rx |-> <<>>, told |-> [e \in Events |-> 0], calls |-> {}]

\* p is <<socket, user>> after a call; what the socket sent is taken out of it
Commit(s, p) ==
    \E q \in {p} :
        /\ sock' = [sock EXCEPT ![s] = [q[1] EXCEPT !.tx = {}, !.up = <<>>]]
        /\ net' = [net EXCEPT ![Peer(s)] = @ \cup q[1].tx]
        /\ user' = [user EXCEPT ![s] = q[2]]

\* a connects; the server's socket is made by the first SYN
TcpInit ==
    \E gateway \in BOOLEAN, z \in Scenarios :
        LET c == Connect(NewSocket(gateway))
        IN /\ sock = [a |-> [c EXCEPT !.tx = {}], b |-> Listen(NewSocket(TRUE))]
           /\ net = [a |-> {}, b |-> c.tx]
           /\ user = [s \in Ends |-> NewUser(z[s])]
           /\ ticks = z.ticks

-----------------------------------------------------------------------------
Tell(u, mask) == [u EXCEPT !.told = [e \in Events |-> IF e \in mask /\ @[e] < 2 THEN @[e] + 1 ELSE @[e]]]

Bytes(u, n) == [i \in 1..n |-> u.written + i]

MayWrite(s, c, u, n) == u.told["Connected"] > 0 /\ CanWrite(c) /\ u.written + n <= MaxBytes[s]

\* after SocketClosed the user has given the socket up
GaveUp(u) == u.told["Closed"] > 0

\* the callbacks that input() makes for a mask
CallbacksOf(mask) ==
    {k \in {"OnRxData", "OnRxEvent", "OnTxEvent"} :
        mask \cap (CASE k = "OnRxData" -> {"RxData"} [] k = "OnRxEvent" -> Events
                     [] k = "OnTxEvent" -> {"TxMore", "TxEmpty"}) # {}}

\* what a user may do in one of the callbacks: nothing, or one call
Reactions(s, callbacks) ==
    {[at |-> "none", call |-> "none", n |-> 0]}
      \cup {[at |-> k, call |-> w, n |-> 0] : k \in callbacks, w \in user[s].may}
      \cup {[at |-> k, call |-> "write", n |-> n] : k \in callbacks, n \in Writes}

\* p is <<socket, user>>: the user's call in the callback r.at
React(s, p, r) ==
    CASE GaveUp(p[2]) -> p
      [] r.call = "close" -> <<CloseInside(p[1]), [p[2] EXCEPT !.calls = @ \cup {"close"}]>>
      [] r.call = "shutdown" -> <<ShutdownInside(p[1]), [p[2] EXCEPT !.calls = @ \cup {"shutdown"}]>>
      [] r.call = "write" /\ MayWrite(s, p[1], p[2], r.n) ->
           <<Write(p[1], Bytes(p[2], r.n)), [p[2] EXCEPT !.written = @ + r.n]>>
      [] OTHER -> p

Callback(s, p, at, mask, r) ==
    LET q == <<p[1], Tell(p[2], IF at = "OnRxEvent" THEN mask ELSE {})>>
    IN IF r.at = at THEN React(s, q, r) ELSE q

\* handleDpc: DPC_EVENTS and DPC_OUTPUT share a bit, so either runs both
HandleDpc(p) ==
    LET c == p[1]
        tell == "Closed" \notin c.lastmask /\ "Closed" \in c.cbmask
    IN IF ~c.dpc THEN p
       ELSE <<[Output(c) EXCEPT !.dpc = FALSE], IF tell THEN Tell(p[2], c.cbmask \ {"Connected"}) ELSE p[2]>>

Interrupt(c) == [c EXCEPT !.cbmask = {}, !.interrupt = TRUE, !.up = <<>>]

Uninterrupt(p) == HandleDpc(<<[p[1] EXCEPT !.interrupt = FALSE], p[2]>>)

Alive(s) == sock[s].state # "CLOSED"

\* the user holds the socket: a from the start, b once it was accepted
Held(s) == Alive(s) /\ sock[s].state # "LISTEN"

\* input() after _input: up to three callbacks, and what was deferred; the masks
\* are read again before each callback
CallbackIf(s, p, at, r) ==
    IF at \in CallbacksOf(p[1].cbmask) THEN Callback(s, p, at, p[1].cbmask, r) ELSE p

InputCallbacks(s, c, r) ==
    LET u == IF "RxData" \in c.cbmask THEN [user[s] EXCEPT !.rx = @ \o c.up] ELSE user[s]
    IN Uninterrupt(CallbackIf(s, CallbackIf(s, CallbackIf(s, <<c, u>>, "OnRxData", r), "OnRxEvent", r),
                              "OnTxEvent", r))

\* the header as _input reads it
Arriving(m) ==
    [flags |-> m.flags, syn0 |-> "SYN" \in m.flags, fin0 |-> "FIN" \in m.flags,
     seq |-> m.seq, ack |-> m.ack, data |-> m.data]

Input(s) ==
    /\ Alive(s)
    /\ \E m \in net[s] :
          \E c \in {InputSegment(Interrupt(sock[s]), Arriving(m))} :
             \E r \in Reactions(s, CallbacksOf(c.cbmask)) : Commit(s, InputCallbacks(s, c, r))
    /\ UNCHANGED ticks

-----------------------------------------------------------------------------
(***************************************************************************)
(* Timers (tcp_timer.go)                                                   *)
(***************************************************************************)
Rexmt(c) ==
    IF c.rxtshift + 1 > MaxRxtShift THEN DropNow(c, "ETIMEDOUT")
    ELSE Output([c EXCEPT !.rxtshift = @ + 1, !.timer = @ \cup {"REXMT"}, !.snd_nxt = c.snd_una,
                          !.snd_ssthresh = HalfWindow(c), !.snd_cwnd = MaxSeg, !.dupacks = 0])

Persist(c) ==
    IF c.rxtshift = MaxRxtShift /\ c.idle THEN DropNow(c, "ETIMEDOUT")
    ELSE [Output([Setpersist(c) EXCEPT !.force = TRUE]) EXCEPT !.force = FALSE]

\* US_SO_KEEPALIVE is never set
Keep(c) ==
    IF TcpsNo[c.state] < TcpsNo["ESTABLISHED"] THEN DropNow(c, "ETIMEDOUT")
    ELSE [c EXCEPT !.timer = @ \cup {"KEEP"}]

\* set in TIME_WAIT only: US_SS_CANTRCVMORE is never set
TwoMsl(c) == ChangeStateToClose(c)

\* the timers X that expire in this tick, one after the other unless an earlier one closed the socket
Runs(c, t, X) == t \in X /\ c.state # "CLOSED"

Off(c, t) == [c EXCEPT !.timer = @ \ {t}]

ExpireRexmt(c, X) == IF Runs(c, "REXMT", X) THEN Rexmt(Off(c, "REXMT")) ELSE c
ExpirePersist(c, X) == IF Runs(c, "PERSIST", X) THEN Persist(Off(c, "PERSIST")) ELSE c
ExpireKeep(c, X) == IF Runs(c, "KEEP", X) THEN Keep(Off(c, "KEEP")) ELSE c
Expire2Msl(c, X) == IF Runs(c, "2MSL", X) THEN TwoMsl(Off(c, "2MSL")) ELSE c

Expire(c, X) == Expire2Msl(ExpireKeep(ExpirePersist(ExpireRexmt(c, X), X), X), X)

\* the idle count may reach rxtcur in the tick
Idled(c, idle) == IF c.state = "CLOSED" THEN c ELSE [c EXCEPT !.idle = @ \/ idle]

\* a tick in which the timers X reach 0, and the idle count may reach rxtcur
Slowtimo(s) ==
    /\ Held(s) /\ ticks > 0
    /\ \E X \in SUBSET sock[s].timer \ {{}}, idle \in BOOLEAN :
          \E c \in {Idled(Expire(Interrupt(sock[s]), X), idle)} :
             LET closed == "Closed" \in c.cbmask
                 p == <<c, user[s]>>
             IN \E r \in Reactions(s, IF closed THEN {"OnRxEvent"} ELSE {}) :
                   Commit(s, Uninterrupt(IF closed THEN Callback(s, p, "OnRxEvent", c.cbmask, r) ELSE p))
    /\ ticks' = ticks - 1

Fasttimo(s) ==
    /\ Held(s) /\ "DELACK" \in sock[s].flags
    /\ Commit(s, <<Output([sock[s] EXCEPT !.flags = (@ \ {"DELACK"}) \cup {"ACKNOW"}, !.pkts_cnt = 0]), user[s]>>)
    /\ UNCHANGED ticks

-----------------------------------------------------------------------------
(***************************************************************************)
(* The user's calls outside a callback                                     *)
(***************************************************************************)
TellClosed(c, u) == IF "Closed" \in c.cbmask THEN Tell(u, c.cbmask) ELSE u

UserClose(s) ==
    /\ "close" \in user[s].may /\ Held(s) /\ ~IsStartClose(sock[s])
    /\ \E c \in {Usrclosed([sock[s] EXCEPT !.cbmask = {}])} :
          Commit(s, <<c, TellClosed(c, [user[s] EXCEPT !.calls = @ \cup {"close"}])>>)
    /\ UNCHANGED ticks

UserShutdown(s) ==
    /\ "shutdown" \in user[s].may /\ Held(s)
    /\ \E c \in {DropNow([sock[s] EXCEPT !.cbmask = {}], "ECONNRESET")} :
          Commit(s, <<c, TellClosed(c, [user[s] EXCEPT !.calls = @ \cup {"shutdown"}])>>)
    /\ UNCHANGED ticks

UserWrite(s) ==
    \E n \in Writes :
        /\ Held(s) /\ MayWrite(s, sock[s], user[s], n)
        /\ Commit(s, <<Write(sock[s], Bytes(user[s], n)), [user[s] EXCEPT !.written = @ + n]>>)
        /\ UNCHANGED ticks

\* ARP learns the gateway's address
GatewayResolves ==
    /\ ~sock["a"].gateway
    /\ sock' = [sock EXCEPT !["a"].gateway = TRUE]
    /\ UNCHANGED <<net, user, ticks>>

TcpNext ==
    \/ GatewayResolves
    \/ \E s \in Ends : Input(s) \/ Slowtimo(s) \/ Fasttimo(s) \/ UserClose(s) \/ UserShutdown(s) \/ UserWrite(s)

-----------------------------------------------------------------------------
\* What a user receives is what the other wrote, from its beginning, in order,
\* nothing twice and nothing left out, however segments are lost, repeated and
\* reordered (the trimming of _input, reass, readOffset, sbdrop).
TcpStream ==
    \A s \in Ends :
        /\ user[s].rx = [i \in 1..Len(user[s].rx) |-> i]
        /\ Len(user[s].rx) <= user[Peer(s)].written

\* Until it takes a FIN, a socket acknowledges only what it handed to its user:
\* what the other side drops from its queue was received (reass, sbdrop).
TcpAckSound ==
    \A s \in Ends :
        sock[Peer(s)].state \in {"SYN_RECEIVED", "ESTABLISHED"} =>
            sock[s].snd_una <= Len(user[Peer(s)].rx) + 1

\* While a connection is open, its transmit queue and the user's buffer behind
\* it hold just the bytes written and not yet acknowledged, in order, and the
\* first byte of the queue has the number snd_una that output() reads it under
\* (sbdrop and drainUserQueue, which run inside the handling of an ACK).
TcpQueueAligned ==
    \A s \in Ends :
        sock[s].state \in {"ESTABLISHED", "CLOSE_WAIT"} =>
            sock[s].so_snd \o sock[s].txqueue =
                [i \in 1..(user[s].written + 1 - sock[s].snd_una) |-> sock[s].snd_una + i - 1]

\* What was sent and is not acknowledged is under the retransmit or the persist
\* timer, whatever stopped and restarted them on the way (output, the ACK cases
\* of _input, the fast retransmit).
TcpRexmtArmed ==
    \A s \in Ends :
        Held(s) /\ sock[s].snd_una # sock[s].snd_max => sock[s].timer \cap {"REXMT", "PERSIST"} # {}

\* A socket that is closed left the flow table and freed its port exactly once,
\* and its user was told, whether it closed by its user's call, in or outside a
\* callback, by a segment or by a timer (changeStateToClose, handleDpc).
TcpClosedTold ==
    \A s \in Ends :
        /\ sock[s].removed = IF sock[s].state = "CLOSED" THEN 1 ELSE 0
        /\ sock[s].state = "CLOSED" => user[s].told["Closed"] > 0

\* A user that is told of the end of the stream, and did not close itself, has
\* every byte the other side wrote before its Close: the FIN waits for the queue
\* and the user's buffer to be acknowledged (usrclosed, checkCloseDefer in sbdrop).
TcpEndIsEnd ==
    \A s \in Ends :
        sock[s].state = "CLOSE_WAIT" /\ "shutdown" \notin user[Peer(s)].calls =>
            Len(user[s].rx) = user[Peer(s)].written

\* The stream arrives as it was written, nothing is acknowledged that was not received, and the
\* queue behind snd_una is what is still to be acknowledged.
TcpStreamSound == TcpStream /\ TcpAckSound /\ TcpQueueAligned

\* The end of a connection is told once the stream is complete, and its socket is taken out of
\* the tables exactly once.
TcpEndSound == TcpClosedTold /\ TcpEndIsEnd
=============================================================================
