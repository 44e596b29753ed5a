------------------------------- MODULE MainLoop -------------------------------
(***************************************************************************)
(* The goroutines of EMU and what passes between them: the main loop       *)
(* (CThreadCtx.MainLoop) that does all the work, the RPC goroutine         *)
(* (CZmqJsonRPC2.rxThread), the goroutine of the buffered timer            *)
(* (BufferedTimer.timerThread) and the one of the veth                     *)
(* (VethIFZmq.rxThread).  The RPC and veth channels have no buffer, the    *)
(* tick channel has one.  Requests may ask for a shutdown, now or after a  *)
(* number of ticks; a later request replaces an earlier one.               *)
(***************************************************************************)
EXTENDS Integers, Sequences

CONSTANTS
    TickCapacity, \* of the tick channel
    Delays,      \* ticks a shutdown request may ask for (0: at once)
    MaxRequests  \* requests sent by the RPC client (a bound)

ASSUME LoopAssumption == TickCapacity \in Nat /\ Delays \subseteq Nat /\ MaxRequests \in Nat

VARIABLES
    inbox,       \* requests waiting in the RPC socket
    rpcThread,   \* what the RPC goroutine does: <<state, request>>
    answered,    \* requests answered, in order
    asked,       \* requests sent so far
    armed,       \* the time.Timer is running
    fired,       \* its channel holds an expiration
    sending,     \* timerThread is at ticksChan <- t
    ticksChan,   \* ticks in the buffered channel
    rxThread,    \* the veth goroutine offers a batch
    main,        \* <<where the main loop is, the request it serves>>
    vec,         \* packets the handlers queued for transmission
    shutdownTimer,    \* ticks to go; -1 when not running
    markForShutdown,
    elapsed,     \* history: ticks handled since the last shutdown request
    wanted       \* history: its delay, -1 before one

rpcVars == <<inbox, rpcThread, answered, asked>>
timerVars == <<armed, fired, sending, ticksChan>>
shutVars == <<shutdownTimer, markForShutdown, elapsed, wanted>>
loopVars == <<rpcVars, timerVars, rxThread, main, vec, shutVars>>

None == [id |-> 0, delay |-> -1]
\* a request is an ordinary one, or a shutdown with a delay
Request == [id : 1..MaxRequests, delay : Delays \cup {-1}]

Alive == main[1] # "gone"

-----------------------------------------------------------------------------
(* The RPC goroutine and its peer *)

\* the client of the REP socket sends a request
ClientAsks ==
    /\ asked < MaxRequests
    /\ \E d \in Delays \cup {-1} : inbox' = Append(inbox, [id |-> asked + 1, delay |-> d])
    /\ asked' = asked + 1
    /\ UNCHANGED <<rpcThread, answered, timerVars, rxThread, main, vec, shutVars>>

RecvBytes ==
    /\ Alive /\ rpcThread[1] = "recv" /\ inbox # <<>>
    /\ rpcThread' = <<"offer", Head(inbox)>>
    /\ inbox' = Tail(inbox)
    /\ UNCHANGED <<answered, asked, timerVars, rxThread, main, vec, shutVars>>

SendBytes ==
    /\ Alive /\ rpcThread[1] = "reply"
    /\ answered' = Append(answered, rpcThread[2].id)
    /\ rpcThread' = <<"recv", None>>
    /\ UNCHANGED <<inbox, asked, timerVars, rxThread, main, vec, shutVars>>

-----------------------------------------------------------------------------
(* The timer goroutine; time passes in intervals of one tick *)

TimerFires ==
    /\ Alive /\ armed
    /\ armed' = FALSE /\ fired' = TRUE
    /\ UNCHANGED <<rpcVars, sending, ticksChan, rxThread, main, vec, shutVars>>

\* mutation of TimerThread: the timer is not started again
TimerThreadOnce ==
    /\ Alive /\ fired /\ ~sending
    /\ fired' = FALSE /\ sending' = TRUE
    /\ UNCHANGED <<rpcVars, armed, ticksChan, rxThread, main, vec, shutVars>>

\* the expiration is taken and the timer is started again, then the tick is
\* put into the channel, which may have to wait for room
TimerThread ==
    /\ Alive /\ fired /\ ~sending
    /\ fired' = FALSE /\ armed' = TRUE /\ sending' = TRUE
    /\ UNCHANGED <<rpcVars, ticksChan, rxThread, main, vec, shutVars>>

TickSent ==
    /\ Alive /\ sending /\ ticksChan < TickCapacity
    /\ sending' = FALSE
    /\ ticksChan' = ticksChan + 1
    /\ UNCHANGED <<rpcVars, armed, fired, rxThread, main, vec, shutVars>>

\* the veth goroutine has received a batch from its socket
VethRecv ==
    /\ Alive /\ ~rxThread
    /\ rxThread' = TRUE
    /\ UNCHANGED <<rpcVars, timerVars, main, vec, shutVars>>

-----------------------------------------------------------------------------
(* The main loop: the cases of the select *)

SelectRpc ==
    /\ main[1] = "select" /\ rpcThread[1] = "offer"
    /\ main' = <<"serve", rpcThread[2]>>
    /\ rpcThread' = <<"wait", rpcThread[2]>>
    /\ UNCHANGED <<inbox, answered, asked, timerVars, rxThread, vec, shutVars>>

\* HandleTicks: time passes for the shutdown timer, and any other callback may
\* send packets
SelectTick ==
    /\ main[1] = "select" /\ ticksChan > 0
    /\ ticksChan' = ticksChan - 1
    /\ shutdownTimer' = IF shutdownTimer > 0 THEN shutdownTimer - 1 ELSE -1
    /\ markForShutdown' = (markForShutdown \/ shutdownTimer = 1)
    /\ elapsed' = IF wanted >= 0 THEN elapsed + 1 ELSE 0
    /\ vec' \in {0, 1}
    /\ main' = <<"flush", None>>
    /\ UNCHANGED <<rpcVars, armed, fired, sending, rxThread, wanted>>

\* OnRxStream: the handlers of the packets may send packets
SelectVeth ==
    /\ main[1] = "select" /\ rxThread
    /\ rxThread' = FALSE
    /\ vec' \in {0, 1}
    /\ main' = <<"flush", None>>
    /\ UNCHANGED <<rpcVars, timerVars, shutVars>>

\* mutation of Shutdown: a running timer is not replaced
ShutdownFirstWins(delay) ==
    IF markForShutdown THEN UNCHANGED shutVars
    ELSE /\ markForShutdown' = (delay = 0)
         /\ shutdownTimer' = IF delay = 0 \/ shutdownTimer > 0 THEN shutdownTimer ELSE delay
         /\ wanted' = delay
         /\ elapsed' = 0

\* CThreadCtx.Shutdown: too late when marked; at once for 0, which leaves a
\* running timer alone; else stop a running timer and start it
Shutdown(delay) ==
    IF markForShutdown THEN UNCHANGED shutVars
    ELSE /\ markForShutdown' = (delay = 0)
         /\ shutdownTimer' = IF delay = 0 THEN shutdownTimer ELSE delay
         /\ wanted' = delay
         /\ elapsed' = 0

\* ServeBytesCompress: the handler runs, and may send packets
Serve ==
    /\ main[1] = "serve"
    /\ IF main[2].delay >= 0 THEN Shutdown(main[2].delay) ELSE UNCHANGED shutVars
    /\ vec' \in {0, 1}
    /\ main' = <<"answer", main[2]>>
    /\ UNCHANGED <<rpcVars, timerVars, rxThread>>

\* chMain2Rx: the goroutine receives the result
Answer ==
    /\ main[1] = "answer" /\ rpcThread[1] = "wait"
    /\ rpcThread' = <<"reply", main[2]>>
    /\ main' = <<"flush", None>>
    /\ UNCHANGED <<inbox, answered, asked, timerVars, rxThread, vec, shutVars>>

\* the end of a turn: FlushTx, and leave the loop when marked
FlushTx ==
    /\ main[1] = "flush"
    /\ vec' = 0
    /\ main' = <<IF markForShutdown THEN "exit" ELSE "select", None>>
    /\ UNCHANGED <<rpcVars, timerVars, rxThread, shutVars>>

\* cleanup, the deferred Delete, and the end of the process
Exit ==
    /\ main[1] = "exit"
    /\ main' = <<"gone", None>>
    /\ shutdownTimer' = -1
    /\ UNCHANGED <<rpcVars, timerVars, rxThread, vec, markForShutdown, elapsed, wanted>>

LoopInit ==
    /\ inbox = <<>> /\ rpcThread = <<"recv", None>> /\ answered = <<>> /\ asked = 0
    /\ armed = TRUE /\ fired = FALSE /\ sending = FALSE /\ ticksChan = 0
    /\ rxThread = FALSE
    /\ main = <<"select", None>> /\ vec = 0
    /\ shutdownTimer = -1 /\ markForShutdown = FALSE /\ elapsed = 0 /\ wanted = -1

MainStep == SelectRpc \/ SelectTick \/ SelectVeth \/ Serve \/ Answer \/ FlushTx \/ Exit
TimerStep == TimerFires \/ TimerThread \/ TickSent

LoopNext == ClientAsks \/ RecvBytes \/ SendBytes \/ TimerStep \/ VethRecv \/ MainStep

\* Every goroutine is scheduled.  A select chooses among its ready cases at
\* random, so none that is ready again and again is passed over for ever.
LoopSpec ==
    /\ LoopInit /\ [][LoopNext]_loopVars
    /\ WF_loopVars(RecvBytes) /\ WF_loopVars(SendBytes)
    /\ WF_loopVars(TimerFires) /\ WF_loopVars(TimerThread) /\ WF_loopVars(TickSent)
    /\ WF_loopVars(MainStep) /\ SF_loopVars(SelectRpc) /\ SF_loopVars(SelectTick)

-----------------------------------------------------------------------------
\* The channels, the goroutines and the main loop keep to their states.
LoopTypeOK ==
    /\ inbox \in Seq(Request)
    /\ rpcThread \in {"recv", "offer", "wait", "reply"} \X (Request \cup {None})
    /\ asked \in 0..MaxRequests
    /\ armed \in BOOLEAN /\ fired \in BOOLEAN /\ sending \in BOOLEAN
    /\ ticksChan \in 0..TickCapacity
    /\ rxThread \in BOOLEAN
    /\ main \in {"select", "serve", "answer", "flush", "exit", "gone"}
                  \X (Request \cup {None})
    /\ vec \in 0..1
    /\ shutdownTimer \in Nat \cup {-1}
    /\ markForShutdown \in BOOLEAN

\* The main loop never waits with packets it has not sent, nor after the
\* thread was marked for shutdown: no handler runs after the turn that marks.
QuietWhenWaiting == main[1] = "select" => vec = 0 /\ ~markForShutdown

\* The thread is marked exactly when the last shutdown request said: earlier
\* requests, stopped timers and ticks that wait in the channel do not matter.
ShutdownWhenAsked == markForShutdown <=> (wanted >= 0 /\ elapsed >= wanted)

\* Requests are answered in order, each once, with the result computed for it.
AnswersInOrder ==
    /\ answered = [i \in 1..Len(answered) |-> i]
    /\ main[1] \in {"serve", "answer"} =>
          main[2] = rpcThread[2] /\ main[2].id = Len(answered) + 1

\* Every request is answered, unless the process ends.
RequestsAnswered ==
    \A i \in 1..MaxRequests : asked = i ~> (Len(answered) >= i \/ main[1] = "gone")

\* A shutdown that was requested happens.
ShutdownHappens == wanted >= 0 ~> main[1] = "gone"

\* The main loop answers each request once, sends all it has before it waits, and stops when the
\* last shutdown request said.
LoopSound == QuietWhenWaiting /\ ShutdownWhenAsked /\ AnswersInOrder

\* Requests are answered and shutdowns happen.
LoopLive == RequestsAnswered /\ ShutdownHappens
=============================================================================
