------------------------------- MODULE IpfixUdp -------------------------------
(***************************************************************************)
(* The IPFIX client plugin: its generators, driven by timers of the main   *)
(* thread, write template and data packets to the UDP exporter, whose      *)
(* goroutine takes them from a channel to a socket (emu/plugins/ipfix/     *)
(* ipfix.go, ipfix_udp_exporter.go, emu/core/non_blocking_chan.go).  The   *)
(* exporter pauses the generators while the channel is above its           *)
(* watermark.                                                              *)
(*                                                                         *)
(* The main thread runs one callback at a time.  The work of the callback  *)
(* that runs is "todo"; between the send to the channel and the check of   *)
(* its length ("pending") and between packets the goroutine may move.      *)
(* Timers fire in any order.  A packet is its flow sequence number, as     *)
(* fixPayload set it; the bytes of a template packet are the one buffer of *)
(* its generator.  The enabled flag of the exporter is the one of the      *)
(* plugin whenever something is written.                                   *)
(***************************************************************************)
EXTENDS Naturals, Sequences

-----------------------------------------------------------------------------
(* NonBlockingChan: the main thread writes and must not block, and one      *)
(* goroutine reads.  When the channel gets above its high watermark the     *)
(* observer is told, and a timer of the main thread polls the channel until *)
(* it is below the low watermark.                                           *)

CONSTANTS Capacity, LowThr, HighThr

\* what NewNonBlockingChan accepts
ASSUME ChanAssumption ==
    /\ Capacity \in Nat /\ LowThr \in Nat /\ HighThr \in Nat
    /\ LowThr < HighThr /\ HighThr < Capacity

VARIABLES
    ch,             \* the Go channel, oldest element first
    closed,         \* close(ch) was called
    highWatermark,  \* the observer was last told EvHighWatermark
    chTimer         \* the polling timer is on the wheel

chanVars == <<ch, closed, highWatermark, chTimer>>

ChanInit == ch = <<>> /\ closed = FALSE /\ highWatermark = FALSE /\ chTimer = FALSE

Full == Len(ch) = Capacity

\* the non-blocking send of Write
Push(x) == ~Full /\ ch' = Append(ch, x) /\ UNCHANGED <<closed, highWatermark, chTimer>>

\* the rest of Write reads the length again: the reader may have moved on
Rises == Len(ch) > HighThr /\ ~highWatermark

CheckHigh ==
    /\ highWatermark' = (highWatermark \/ Rises)
    /\ chTimer' = (chTimer \/ Rises)
    /\ UNCHANGED <<ch, closed>>

Falls == Len(ch) < LowThr /\ highWatermark

\* mutation of Poll: the timer is not started again
PollOnce == highWatermark' = (highWatermark /\ ~Falls) /\ chTimer' = FALSE /\ UNCHANGED <<ch, closed>>

\* OnEvent of the timer: tell the observer, or poll again
Poll ==
    /\ highWatermark' = (highWatermark /\ ~Falls)
    /\ chTimer' = ~Falls
    /\ UNCHANGED <<ch, closed>>

\* Read and the receive from GetC
Pop == ch # <<>> /\ ch' = Tail(ch) /\ UNCHANGED <<closed, highWatermark, chTimer>>

Close == closed' = TRUE /\ chTimer' = FALSE /\ UNCHANGED <<ch, highWatermark>>

-----------------------------------------------------------------------------
(* The plugin *)

CONSTANTS
    NumGens,    \* generators
    Burst,      \* dataPktsPerInterval
    MaxData, MaxTemp,   \* maxDataRecordsToSend, maxTempRecordsToSend (0: none)
    HasMaxTime, \* a maximum time is configured
    IpfixVer,   \* 9 or 10
    FlowSeqMod      \* the width of the flow sequence number

ASSUME GenAssumption ==
    /\ NumGens \in Nat /\ Burst \in Nat /\ FlowSeqMod \in Nat \ {0}
    /\ MaxData \in Nat /\ MaxTemp \in Nat /\ HasMaxTime \in BOOLEAN
    /\ IpfixVer \in {9, 10}

VARIABLES
    enabled,    \* the plugin exports
    genEnabled, \* [Gens -> BOOLEAN]
    paused,     \* [Gens -> BOOLEAN]
    running,    \* the timers on the wheel, <<"tmpl" or "data", generator>>
    flowSeq,    \* flowSeqNum
    tempSent, dataSent, \* records sent, kept only if there is a maximum
    tmplBuf,    \* the flow sequence number in the template buffer
    writeErr,   \* exporterWriteError is not 0
    panicked,   \* a running timer was started
    todo, pending,
    life,       \* of the plugin: "up", "closing" or "removed"
    writer,     \* the packet the goroutine writes to the socket, <<>> while it reads
    writerDone, \* the goroutine has returned
    lastOut     \* the flow sequence number of the last packet on the socket

genVars == <<enabled, genEnabled, paused, running>>
countVars == <<flowSeq, tempSent, dataSent, tmplBuf, writeErr>>
mainVars == <<genVars, countVars, panicked, todo, pending, life>>
goVars == <<writer, writerDone, lastOut>>
udpVars == <<chanVars, mainVars, goVars>>

Gens == 1..NumGens    \* in the order of the init JSON
Timers == {"tmpl", "data"} \X Gens
Packet == [kind : {"tmpl", "data"}, gen : Gens, seq : 0..FlowSeqMod - 1]
Item == [op : {"tmpl", "data"}, gen : Gens, left : 0..Burst] \cup [op : {"max"}]

Idle == todo = <<>> /\ life = "up" /\ ~panicked

-----------------------------------------------------------------------------
SendTemplate(g) == [op |-> "tmpl", gen |-> g, left |-> 0]
SendData(g, n) == [op |-> "data", gen |-> g, left |-> n]

ReachedMaxTemp == MaxTemp > 0 /\ tempSent >= MaxTemp
ReachedMaxData == MaxData > 0 /\ dataSent >= MaxData

\* StartTicks at the end of a callback; starting a running timer panics
StartTimer(t) ==
    /\ panicked' = (t \in running)
    /\ running' = running \cup {t}

NoStart == UNCHANGED <<panicked, running>>

\* the callback goes on with the rest of its work
Continue == todo' = Tail(todo) /\ pending' = FALSE

\* Write refused the packet, or it was counted
Refused == writeErr' = TRUE /\ UNCHANGED <<flowSeq, tempSent, dataSent>>

\* version 9 numbers the packets, version 10 the data records
CountTemplate ==
    /\ tempSent' = IF MaxTemp > 0 THEN tempSent + 1 ELSE tempSent
    /\ flowSeq' = IF IpfixVer = 9 THEN (flowSeq + 1) % FlowSeqMod ELSE flowSeq
    /\ UNCHANGED <<dataSent, tmplBuf, writeErr>>

\* the data packets have one record each
CountData ==
    /\ dataSent' = IF MaxData > 0 THEN dataSent + 1 ELSE dataSent
    /\ flowSeq' = (flowSeq + 1) % FlowSeqMod
    /\ UNCHANGED <<tempSent, tmplBuf, writeErr>>

\* mutation of NotifyHigh: only the generator that wrote is paused
NotifyHighOne == paused' = [g \in Gens |-> paused[g] \/ (Rises /\ g = Head(todo).gen)]

\* Notify(EvHighWatermark) pauses every generator of the client
NotifyHigh == paused' = [g \in Gens |-> paused[g] \/ Rises]

-----------------------------------------------------------------------------
(* sendTemplatePkt *)

AtTemplate(g) == todo # <<>> /\ Head(todo) = SendTemplate(g) /\ life = "up" /\ ~panicked

\* no packet: the maximum is reached, or the generator is off or paused
TemplateSkipped(g) ==
    /\ AtTemplate(g) /\ ~pending
    /\ ReachedMaxTemp \/ ~genEnabled[g] \/ paused[g]
    /\ IF ReachedMaxTemp \/ paused[g] THEN NoStart ELSE StartTimer(<<"tmpl", g>>)
    /\ Continue
    /\ UNCHANGED <<chanVars, enabled, genEnabled, paused, countVars, life, goVars>>

\* fixPayload writes into the template buffer, which is then given away
TemplatePush(g) ==
    /\ AtTemplate(g) /\ ~pending
    /\ ~ReachedMaxTemp /\ genEnabled[g] /\ ~paused[g]
    /\ tmplBuf' = [tmplBuf EXCEPT ![g] = flowSeq]
    /\ IF Full THEN Refused /\ StartTimer(<<"tmpl", g>>) /\ Continue /\ UNCHANGED chanVars
       ELSE /\ Push([kind |-> "tmpl", gen |-> g, seq |-> flowSeq])
            /\ pending' = TRUE
            /\ UNCHANGED <<flowSeq, tempSent, dataSent, writeErr, panicked, running, todo>>
    /\ UNCHANGED <<enabled, genEnabled, paused, life, goVars>>

TemplateWritten(g) ==
    /\ AtTemplate(g) /\ pending
    /\ CheckHigh /\ NotifyHigh
    /\ CountTemplate
    /\ IF paused'[g] THEN NoStart ELSE StartTimer(<<"tmpl", g>>)
    /\ Continue
    /\ UNCHANGED <<enabled, genEnabled, life, goVars>>

-----------------------------------------------------------------------------
(* sendDataPkt: a burst *)

AtData(g) == /\ todo # <<>> /\ Head(todo).op = "data" /\ Head(todo).gen = g
             /\ life = "up" /\ ~panicked

GoesOn(g) == genEnabled[g] /\ Head(todo).left > 0

\* the burst is over: the timer is not started again if a pause or the
\* maximum ended it
DataEnds(g) ==
    /\ AtData(g) /\ ~pending
    /\ GoesOn(g) => paused[g] \/ ReachedMaxData
    /\ IF GoesOn(g) THEN NoStart ELSE StartTimer(<<"data", g>>)
    /\ Continue
    /\ UNCHANGED <<chanVars, enabled, genEnabled, paused, countVars, life, goVars>>

NextOfBurst(g) == todo' = <<SendData(g, Head(todo).left - 1)>> \o Tail(todo) /\ pending' = FALSE

\* mutation of DataPush: a pause in the middle of a burst is not looked at
DataPushPaused(g) ==
    /\ AtData(g) /\ ~pending
    /\ GoesOn(g) /\ ~ReachedMaxData
    /\ IF Full THEN Refused /\ NextOfBurst(g) /\ UNCHANGED chanVars
       ELSE /\ Push([kind |-> "data", gen |-> g, seq |-> flowSeq])
            /\ pending' = TRUE
            /\ UNCHANGED <<flowSeq, tempSent, dataSent, writeErr, todo>>
    /\ UNCHANGED <<genVars, tmplBuf, panicked, life, goVars>>

DataPush(g) ==
    /\ AtData(g) /\ ~pending
    /\ GoesOn(g) /\ ~paused[g] /\ ~ReachedMaxData
    /\ IF Full THEN Refused /\ NextOfBurst(g) /\ UNCHANGED chanVars
       ELSE /\ Push([kind |-> "data", gen |-> g, seq |-> flowSeq])
            /\ pending' = TRUE
            /\ UNCHANGED <<flowSeq, tempSent, dataSent, writeErr, todo>>
    /\ UNCHANGED <<genVars, tmplBuf, panicked, life, goVars>>

DataWritten(g) ==
    /\ AtData(g) /\ pending
    /\ CheckHigh /\ NotifyHigh
    /\ CountData
    /\ NextOfBurst(g)
    /\ UNCHANGED <<enabled, genEnabled, running, panicked, life, goVars>>

-----------------------------------------------------------------------------
(* callbacks of the main thread *)

\* the end of IPFixGen.OnEvent: disable when both maxima are reached
CheckMax ==
    /\ todo = <<[op |-> "max"]>> /\ life = "up" /\ ~panicked
    /\ enabled' = (enabled /\ ~(ReachedMaxData /\ ReachedMaxTemp))
    /\ todo' = <<>>
    /\ UNCHANGED <<chanVars, genEnabled, paused, running, countVars, panicked, pending, life, goVars>>

\* IPFixGen.OnEvent
ExportTimer(t) ==
    /\ Idle /\ t \in running
    /\ running' = running \ {t}
    /\ \/ /\ enabled
          /\ todo' = <<IF t[1] = "tmpl" THEN SendTemplate(t[2]) ELSE SendData(t[2], Burst),
                       [op |-> "max"]>>
          /\ UNCHANGED enabled
       \/ /\ ~enabled \/ HasMaxTime
          /\ enabled' = FALSE
          /\ UNCHANGED todo
    /\ UNCHANGED <<chanVars, genEnabled, paused, countVars, panicked, pending, life, goVars>>

\* PluginIPFixClient.Enable, by RPC or by OnResolve
Enable ==
    /\ Idle /\ ~enabled
    /\ enabled' = TRUE
    /\ todo' = [i \in 1..2 * NumGens |->
                  IF i % 2 = 1 THEN SendTemplate((i + 1) \div 2) ELSE SendData(i \div 2, Burst)]
    /\ UNCHANGED <<chanVars, genEnabled, paused, running, countVars, panicked, pending, life, goVars>>

Disable ==
    /\ Idle /\ enabled
    /\ enabled' = FALSE
    /\ UNCHANGED <<chanVars, genEnabled, paused, running, countVars, panicked, todo, pending, life, goVars>>

\* ipfix_c_set_gen_state: a new rate restarts a running timer, which it stays
SetGenState(g) ==
    /\ Idle
    /\ genEnabled' = [genEnabled EXCEPT ![g] = ~@]
    /\ UNCHANGED <<chanVars, enabled, paused, running, countVars, panicked, todo, pending, life, goVars>>

\* the timer of the channel; Notify(EvLowWatermark) resumes the generators,
\* which start again the timers that still run
PollChan ==
    /\ Idle /\ chTimer
    /\ Poll
    /\ paused' = [g \in Gens |-> paused[g] /\ ~Falls]
    /\ UNCHANGED <<enabled, genEnabled, running, countVars, panicked, todo, pending, life, goVars>>

\* OnRemove: stop the timers, close the channel, wait for the goroutine
OnRemove ==
    /\ Idle
    /\ running' = {}
    /\ Close
    /\ life' = "closing"
    /\ UNCHANGED <<enabled, genEnabled, paused, countVars, panicked, todo, pending, goVars>>

Removed ==
    /\ life = "closing" /\ writerDone
    /\ life' = "removed"
    /\ UNCHANGED <<chanVars, genVars, countVars, panicked, todo, pending, goVars>>

-----------------------------------------------------------------------------
(* writerThread *)

WriterReads ==
    /\ writer = <<>> /\ ~writerDone /\ ~panicked
    /\ Pop
    /\ writer' = <<Head(ch)>>
    /\ UNCHANGED <<mainVars, writerDone, lastOut>>

\* the bytes go out as they are in the buffer now
WriterSends ==
    /\ writer # <<>> /\ ~panicked
    /\ lastOut' = IF writer[1].kind = "data" THEN writer[1].seq ELSE tmplBuf[writer[1].gen]
    /\ writer' = <<>>
    /\ UNCHANGED <<chanVars, mainVars, writerDone>>

\* a receive from a closed channel fails only when the channel is empty
WriterExits ==
    /\ writer = <<>> /\ ~writerDone /\ closed /\ ch = <<>> /\ ~panicked
    /\ writerDone' = TRUE
    /\ UNCHANGED <<chanVars, mainVars, writer, lastOut>>

-----------------------------------------------------------------------------
UdpInit ==
    /\ ChanInit
    /\ enabled = FALSE
    /\ genEnabled = [g \in Gens |-> TRUE]
    /\ paused = [g \in Gens |-> FALSE]
    /\ running = {}
    /\ flowSeq = 0 /\ tempSent = 0 /\ dataSent = 0
    /\ tmplBuf = [g \in Gens |-> 0]
    /\ writeErr = FALSE /\ panicked = FALSE
    /\ todo = <<>> /\ pending = FALSE /\ life = "up"
    /\ writer = <<>> /\ writerDone = FALSE /\ lastOut = 0

Works(g) ==
    \/ TemplateSkipped(g) \/ TemplatePush(g) \/ TemplateWritten(g)
    \/ DataPush(g) \/ DataWritten(g) \/ DataEnds(g)

Work == CheckMax \/ \E g \in Gens : Works(g)

Writer == WriterReads \/ WriterSends \/ WriterExits

UdpNext ==
    \/ Work \/ PollChan \/ Writer
    \/ \E t \in Timers : ExportTimer(t)
    \/ \E g \in Gens : SetGenState(g)
    \/ Enable \/ Disable \/ OnRemove \/ Removed

\* The callback that runs comes to its end, the goroutine is scheduled, and
\* the wheel fires the timer of the channel however busy the main thread is.
UdpSpec ==
    /\ UdpInit /\ [][UdpNext]_udpVars
    /\ WF_udpVars(Work) /\ WF_udpVars(Writer) /\ WF_udpVars(Removed)
    /\ SF_udpVars(PollChan)

-----------------------------------------------------------------------------
\* The fields of the channel, the generators and the goroutine keep their ranges;
\* the channel holds at most Capacity packets.
UdpTypeOK ==
    /\ ch \in Seq(Packet) /\ Len(ch) <= Capacity
    /\ closed \in BOOLEAN /\ highWatermark \in BOOLEAN /\ chTimer \in BOOLEAN
    /\ enabled \in BOOLEAN /\ genEnabled \in [Gens -> BOOLEAN] /\ paused \in [Gens -> BOOLEAN]
    /\ running \subseteq Timers
    /\ flowSeq \in 0..FlowSeqMod - 1 /\ tempSent \in Nat /\ dataSent \in Nat
    /\ tmplBuf \in [Gens -> 0..FlowSeqMod - 1]
    /\ writeErr \in BOOLEAN /\ panicked \in BOOLEAN
    /\ todo \in Seq(Item) /\ pending \in BOOLEAN
    /\ life \in {"up", "closing", "removed"}
    /\ writer \in {<<>>} \cup {<<p>> : p \in Packet} /\ writerDone \in BOOLEAN
    /\ lastOut \in 0..FlowSeqMod - 1

\* The exporter never refuses a packet: the pause reaches every generator, in
\* the middle of a burst too, before the channel is full.
NoWriteRefused == ~writeErr

\* The generators are paused, all of them, and the polling timer runs, exactly
\* while the channel has announced its high watermark; so that timer is never
\* started twice and no generator stays paused when the others go on.
PauseFollowsChannel ==
    /\ \A g \in Gens : paused[g] <=> highWatermark
    /\ ~closed => (chTimer <=> highWatermark)

\* OnRemove returns only after the goroutine has sent all that was accepted.
CloseDrains == life = "removed" => ch = <<>> /\ writer = <<>>

\* A pause ends: the channel drains and the low watermark is announced.
PauseEnds == highWatermark ~> (~highWatermark \/ life # "up" \/ panicked)

\* Removing the client comes to its end.
RemoveReturns == life = "closing" ~> life = "removed"
=============================================================================
