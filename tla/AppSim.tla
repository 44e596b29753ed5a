------------------------------- MODULE AppSim -------------------------------
(***************************************************************************)
(* The application simulator (plugins/appsim): appL7Sim interprets a       *)
(* program of commands on a socket.  A client ("c") and a server ("s")     *)
(* run the two programs of a scenario against each other, over a TCP       *)
(* socket (scenario.stream) or a UDP one, and appsimStream opens new flows *)
(* at a given rate up to a limit.                                          *)
(*                                                                         *)
(* app is everything: for each side the interpreter's fields, and for each *)
(* direction what is under way.  Bytes and datagrams are counted only.     *)
(* The socket is the contract of transport.SocketApi: a TCP write is       *)
(* refused more room beyond AppSndBuf bytes, data is delivered in order    *)
(* and in pieces of any size, the disconnection follows the data; a        *)
(* datagram may be lost.                                                   *)
(***************************************************************************)
EXTENDS Integers, Sequences, FiniteSets

CONSTANTS Scenarios,   \* the pairs of programs: [stream, c, s]
          AppSndBuf,   \* bytes a TCP socket queues before Write says wait
          IndexMod,    \* the width of cmd_index, a uint32 in the code
          AppDrops,    \* may the connection be reset by the network?
          StreamLimits, \* the limits of new flows to try, 0 for none
          MaxFlows     \* bound: flows opened by the stream

VARIABLES app, scen,
          apstream    \* appsimStream: its configured and current limit,
                      \* its timer, the flows it opened, resolved
appvars == <<app, scen>>
apvars == <<apstream>>

Sides == {"c", "s"}
Peer(x) == IF x = "c" THEN "s" ELSE "c"

Cmds(x) == scen[x]

---------------------------------------------------------------------------
(* The interpreter.  Operators take and return the whole state A, for the  *)
(* side x.                                                                 *)

Upd(A, x, f) == [A EXCEPT !.side[x] = f]

Crash(A) == [A EXCEPT !.panic = TRUE]

LastCommand(A, x) == A.side[x].idx >= Len(Cmds(x))

(* socket.Close: on TCP the FIN follows what is queued.                    *)
Close(A, x) ==
    CASE A.side[x].sock = "nil" -> Crash(A)
      [] A.side[x].sock = "open" -> [A EXCEPT !.side[x].sock = "closing",
                                              !.fin[Peer(x)] = scen.stream]
      [] OTHER -> A

(* socket.Shutdown resets the connection; a UDP socket just closes.        *)
Shutdown(A, x) ==
    IF scen.stream
    THEN [A EXCEPT !.side[x].sock = "closing", !.rst = Sides,
                   !.wire = [y \in Sides |-> 0]]
    ELSE Close(A, x)

(* socket.Write: a TCP socket takes the bytes and says whether there is    *)
(* room for more; a closed one refuses and a nil one is dereferenced.      *)
Writable(A, x) == A.side[x].sock = "open"
Write(A, x, n) ==
    [A EXCEPT !.wire[Peer(x)] = @ + n, !.side[x].sent = @ + n]

doCloseFlow(A, x) ==
    IF x = "c" \/ A.side[x].st = "closed" \/ A.side[x].noClose THEN A
    ELSE Close([A EXCEPT !.side[x].st = "closed"], x)

checkLastCmd(A, x) ==
    IF A.side[x].st # "closed" /\ LastCommand(A, x) THEN doCloseFlow(A, x) ELSE A

nextCmd(A, x) ==
    IF LastCommand(A, x) THEN A ELSE [A EXCEPT !.side[x].idx = @ + 1]

RxReady(f) == f.rx >= f.wm

(* checkRxCondition, when it holds: the watermark is consumed, and with    *)
(* the clear flag the rest is dropped.                                     *)
consumeRxTwice(f) ==
    [f EXCEPT !.clear = FALSE, !.used = @ + f.wm]
consumeRx(f) ==
    [f EXCEPT !.rx = IF f.clear THEN 0 ELSE @ - f.wm,
              !.clear = FALSE,
              !.used = @ + f.wm,
              !.gone = IF f.clear THEN @ + (f.rx - f.wm) ELSE @]

(* Every command gives the new state and whether the next one follows at   *)
(* once.                                                                   *)
Go(A) == [A |-> A, next |-> TRUE]
Wait(A) == [A |-> A, next |-> FALSE]

CmdTx(A, x, n) ==
    IF ~Writable(A, x) THEN Wait(Crash(A))
    ELSE LET B == Write(A, x, n)
         IN  IF ~scen.stream \/ B.wire[Peer(x)] <= AppSndBuf THEN Go(B)
             ELSE Wait([B EXCEPT !.side[x].st = "send", !.more[x] = TRUE])

(* processRx: what has already arrived may be enough.                      *)
processRx(A, x, n, clear) ==
    LET f == [A.side[x] EXCEPT !.st = "wait_rx", !.clear = clear, !.wm = n]
    IN  IF RxReady(f) THEN Go(Upd(A, x, consumeRx(f))) ELSE Wait(Upd(A, x, f))

CmdTxMsg(A, x) ==
    LET B == [A EXCEPT !.side[x].st = "none"]
    IN  IF scen.stream THEN Go(B)
        ELSE IF B.side[x].sock = "nil" THEN Wait(Crash(B))
        ELSE Go(IF Writable(B, x) THEN Write(B, x, 1) ELSE B)

(* udpKeealiveTimerRestart.                                                *)
kaRestart(A, x) == [A EXCEPT !.side[x].quiet = TRUE, !.side[x].kaTimer = TRUE]

(* jmp_nz: the variable is decremented first.  The offset counts from the  *)
(* command itself, and cmd_index wraps before the comparison with the      *)
(* length.                                                                 *)
CmdJmpNz(A, x, off) ==
    LET f == A.side[x]
        v == f.var - 1
        to == (f.idx + off - 1) % IndexMod
    IN  Go(Upd(A, x, [f EXCEPT !.var = v,
               !.idx = IF v <= 0 THEN @
                       ELSE IF to > Len(Cmds(x)) THEN Len(Cmds(x)) ELSE to]))

processOneCmd(A0, x, cmd) ==
    LET A == [A0 EXCEPT !.side[x].quiet = FALSE]
    IN  CASE cmd.name = "tx" -> CmdTx(A, x, cmd.n)
          [] cmd.name \in {"rx", "rx_msg"} -> processRx(A, x, cmd.n, cmd.clear)
          [] cmd.name = "delay" ->
                 Wait([A EXCEPT !.side[x].timer = TRUE, !.side[x].st = "delay"])
          [] cmd.name = "keepalive" ->
                 Go(kaRestart([A EXCEPT !.side[x].ka = TRUE], x))
          [] cmd.name = "tx_msg" -> CmdTxMsg(A, x)
          [] cmd.name = "close_msg" -> Go(Close([A EXCEPT !.side[x].st = "closed"], x))
          [] cmd.name = "connect" -> Go(A)
          [] cmd.name = "reset" -> Go(Shutdown([A EXCEPT !.side[x].st = "closed"], x))
          [] cmd.name = "nc" -> Go([A EXCEPT !.side[x].noClose = TRUE])
          [] cmd.name = "set_var" -> Go([A EXCEPT !.side[x].var = cmd.n])
          [] cmd.name = "jmp_nz" -> CmdJmpNz(A, x, cmd.n)
          [] OTHER -> Wait(A)

(* The loop of processCmds, entered with a command left to run.            *)
RECURSIVE runCmds(_, _)
runCmds(A, x) ==
    LET r == processOneCmd(A, x, Cmds(x)[A.side[x].idx + 1])
        B == nextCmd(r.A, x)
    IN  IF r.A.panic THEN r.A
        ELSE IF ~r.next THEN B
        ELSE IF LastCommand(B, x) THEN checkLastCmd(B, x)
        ELSE runCmds(B, x)

processCmds(A, x) ==
    IF A.side[x].st = "closed" \/ LastCommand(A, x) THEN checkLastCmd(A, x)
    ELSE runCmds(A, x)

---------------------------------------------------------------------------
(* The socket's callbacks and the timers.                                  *)

Idle == [st |-> "none", idx |-> 0, rx |-> 0, wm |-> 0, clear |-> FALSE,
         var |-> 0, timer |-> FALSE, ka |-> FALSE, kaTimer |-> FALSE,
         quiet |-> FALSE, noClose |-> FALSE, sock |-> "none",
         sent |-> 0, got |-> 0, used |-> 0, gone |-> 0]

Quiescent ==
    [side |-> [x \in Sides |-> Idle], wire |-> [x \in Sides |-> 0],
     fin |-> [x \in Sides |-> FALSE], more |-> [x \in Sides |-> FALSE],
     up |-> {}, rst |-> {}, dropped |-> FALSE, panic |-> FALSE]

(* start and onNewSocket: a stream waits for the connection, a datagram    *)
(* socket starts its program at once.                                      *)
onNewSocket(A, x) ==
    LET B == [A EXCEPT !.side[x].sock = "open"]
    IN  IF scen.stream THEN [B EXCEPT !.side[x].st = "wait_for_connect"]
        ELSE processCmds(B, x)

Playing == ~app.panic

AppStart ==
    /\ app.side["c"].sock = "none"
    /\ app' = onNewSocket(app, "c")

AppAccept ==
    /\ scen.stream /\ Playing
    /\ app.side["c"].sock = "open" /\ app.side["s"].sock = "none"
    /\ app' = onNewSocket(app, "s")

(* OnRxEvent with SocketEventConnected: in any other state it panics.      *)
AppConnected(x) ==
    /\ scen.stream /\ Playing /\ x \notin app.up /\ app.rst = {}
    /\ app.side["s"].sock # "none"
    /\ x = "s" => "c" \in app.up
    /\ LET A == [app EXCEPT !.up = @ \cup {x}, !.side[x].quiet = FALSE]
       IN  app' = IF app.side[x].st = "wait_for_connect" THEN processCmds(A, x)
                  ELSE Crash(A)

(* OnRxData.                                                               *)
RxData(A, x, n) ==
    LET f == [A.side[x] EXCEPT !.quiet = FALSE, !.rx = @ + n, !.got = @ + n]
    IN  IF f.st = "wait_rx" /\ RxReady(f)
        THEN processCmds(Upd(A, x, consumeRx(f)), x)
        ELSE Upd(A, x, f)

AppData(x) ==
    /\ scen.stream /\ Playing /\ x \in app.up
    /\ app.side[x].sock # "nil"
    /\ \E n \in 1..app.wire[x] :
         app' = RxData([app EXCEPT !.wire[x] = @ - n], x, n)

(* A datagram: without an open flow the server accepts a new one first,    *)
(* on the same application object; the client's closed flow ignores it.    *)
AppDatagram(x) ==
    /\ ~scen.stream /\ Playing /\ app.wire[x] > 0
    /\ LET A == [app EXCEPT !.wire[x] = @ - 1]
       IN  app' = CASE A.side[x].sock = "open" -> RxData(A, x, 1)
                    [] x = "s" /\ A.side[x].sock # "open" ->
                         LET B == onNewSocket(A, x)
                         IN  IF B.side[x].sock = "open" THEN RxData(B, x, 1) ELSE B
                    [] OTHER -> A

AppLoss(x) ==
    /\ ~scen.stream /\ Playing /\ app.wire[x] > 0
    /\ app' = [app EXCEPT !.wire[x] = @ - 1]

(* OnTxEvent with SocketTxMore: the queue has room again.                  *)
AppTxMore(x) ==
    /\ Playing /\ app.more[x] /\ app.wire[Peer(x)] <= AppSndBuf
    /\ LET A == [app EXCEPT !.more[x] = FALSE]
       IN  app' = IF A.side[x].st = "send" THEN processCmds(A, x) ELSE A

(* OnRxEvent with SocketRemoteDisconnect, after all the peer's data.       *)
AppRemoteDisconnect(x) ==
    /\ Playing /\ app.fin[x] /\ app.wire[x] = 0 /\ x \in app.up
    /\ app.side[x].sock \in {"open", "closing"} /\ app.rst = {}
    /\ LET A == [app EXCEPT !.fin[x] = FALSE, !.side[x].quiet = FALSE]
       IN  app' = IF A.side[x].st = "closed" THEN A
                  ELSE IF x = "c" THEN Close(A, x) ELSE doCloseFlow(A, x)

(* OnRxEvent with SocketClosed, once both directions are closed or the     *)
(* connection was reset: the program keeps its state and its timers, only  *)
(* the socket goes.                                                        *)
AppClosed(x) ==
    /\ scen.stream /\ Playing
    /\ app.side[x].sock \in {"open", "closing"}
    /\ \/ x \in app.rst
       \/ /\ app.side[x].sock = "closing" /\ app.side[Peer(x)].sock \in {"closing", "nil"}
          /\ \A y \in Sides : app.wire[y] = 0 /\ ~app.fin[y]
    /\ app' = [app EXCEPT !.side[x].sock = "nil", !.side[x].quiet = FALSE,
                          !.more[x] = FALSE, !.rst = @ \ {x}]

(* The network or the peer's host resets the connection.                   *)
AppReset ==
    /\ AppDrops /\ scen.stream /\ Playing /\ ~app.dropped /\ app.rst = {}
    /\ \A x \in Sides : app.side[x].sock \in {"open", "closing"}
    /\ app' = [app EXCEPT !.rst = Sides, !.dropped = TRUE,
                          !.wire = [y \in Sides |-> 0]]

(* OnEvent: the delay is over.                                             *)
AppDelay(x) ==
    /\ Playing /\ app.side[x].timer
    /\ app' = processCmds([app EXCEPT !.side[x].timer = FALSE], x)

(* onUDPKeepAliveTimerEvent: a whole period without activity closes.       *)
AppKeepAlive(x) ==
    /\ Playing /\ app.side[x].kaTimer
    /\ LET A == [app EXCEPT !.side[x].kaTimer = FALSE]
       IN  app' = IF ~A.side[x].quiet THEN kaRestart(A, x)
                  ELSE Close([A EXCEPT !.side[x].st = "closed"], x)

---------------------------------------------------------------------------
(* appsimStream: a stream of new flows of one template.                    *)

NoStream(l) == [conf |-> l, limit |-> l, timer |-> FALSE, opened |-> 0,
                made |-> FALSE, alive |-> TRUE]

(* OnResolve and createStream: the first resolution of the gateway starts  *)
(* the stream, a later one finds it in the table.                          *)
ApResolve ==
    /\ apstream.alive
    /\ apstream' = IF apstream.made THEN apstream
                   ELSE [apstream EXCEPT !.made = TRUE, !.timer = TRUE]

(* OnEvent: a new flow, and the timer again unless it was the last.        *)
ApEvent ==
    /\ apstream.timer /\ apstream.opened < MaxFlows
    /\ apstream' = [apstream EXCEPT !.opened = @ + 1,
                                    !.timer = apstream.limit # 1,
                                    !.limit = IF @ > 1 THEN @ - 1 ELSE @]

(* OnRemove stops the stream's timer.                                      *)
ApRemove ==
    /\ apstream.alive
    /\ apstream' = [apstream EXCEPT !.alive = FALSE, !.timer = FALSE]

---------------------------------------------------------------------------
AppInit == app = Quiescent /\ scen \in Scenarios
ApInit == apstream \in {NoStream(l) : l \in StreamLimits}

AppPlay ==
    \/ AppStart \/ AppAccept \/ AppReset
    \/ \E x \in Sides :
         \/ AppConnected(x) \/ AppData(x) \/ AppDatagram(x) \/ AppLoss(x)
         \/ AppTxMore(x) \/ AppRemoteDisconnect(x) \/ AppClosed(x)
         \/ AppDelay(x) \/ AppKeepAlive(x)

AppNext == AppPlay /\ UNCHANGED scen
ApNext == ApResolve \/ ApEvent \/ ApRemove

---------------------------------------------------------------------------
(* What a program has received is exactly what its completed receive       *)
(* commands consumed, what a clear dropped and what waits for the next     *)
(* one, however the data was cut (OnRxData, checkRxCondition); no receive  *)
(* completes before the peer has sent what it asks for.                    *)
AppRxExact ==
    \A x \in Sides :
      LET f == app.side[x] IN
      /\ f.got = f.rx + f.used + f.gone
      /\ f.got <= app.side[Peer(x)].sent

(* Two programs that match never leave a flow behind: when nothing is      *)
(* under way and no timer runs, both sides have closed, whatever the       *)
(* order of data, delays and lost datagrams; and without a reset from      *)
(* outside no command finds its socket gone.                               *)
AppSettles ==
    /\ app.panic => app.dropped
    /\ /\ Playing /\ app.side["c"].sock # "none"
       /\ scen.stream => app.up = Sides
       /\ \A x \in Sides :
            /\ app.wire[x] = 0 /\ ~app.fin[x] /\ ~app.more[x]
            /\ ~app.side[x].timer /\ ~app.side[x].kaTimer
       => \A x \in Sides : app.side[x].sock # "open" \/ app.rst # {}

(* A stream with a limit opens exactly that many flows and then stops;     *)
(* without one it never stops until it is removed (appsimStream.OnEvent).  *)
ApFlowLimit ==
    /\ apstream.conf > 0 => apstream.opened <= apstream.conf
    /\ apstream.made /\ apstream.alive =>
         (apstream.timer <=> apstream.conf = 0 \/ apstream.opened < apstream.conf)

\* The two programs of a conversation consume what the other sent, come to their end, and a
\* stream opens no more flows than its limit.
AppSound == AppRxExact /\ AppSettles /\ ApFlowLimit
=============================================================================
