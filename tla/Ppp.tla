-------------------------------- MODULE Ppp ---------------------------------
(***************************************************************************)
(* The PPP over Ethernet client (plugins/point2point): discovery (PADI,    *)
(* PADO, PADR, PADS), LCP, PAP and IPCP with one access concentrator, over *)
(* a link that loses and reorders packets.  ppp is the client, pppSrv what *)
(* the concentrator knows, pppNet the packets under way; the concentrator  *)
(* is the environment, a plain server that answers what it gets and        *)
(* repeats its own requests.  Identifiers and session numbers are left     *)
(* out: the client checks none of them.                                    *)
(***************************************************************************)
EXTENDS Naturals, FiniteSets

CONSTANTS PppAssigned,  \* the address the concentrator gives the client
          PppServerIp,  \* its own address
          PppNoIp,      \* the zero address the client starts with
          MaxPadt,      \* PADTs the client sends at most, 2 in the code
          InFlight      \* bound: packets under way, the others are lost

ASSUME PppAssumption == MaxPadt \in Nat

VARIABLES ppp, pppSrv, pppNet
pppvars == <<ppp, pppSrv, pppNet>>

Msg(to, type, ip) == [to |-> to, type |-> type, ip |-> ip]
ToSrv(type) == {Msg("srv", type, PppNoIp)}
ToCli(type) == {Msg("cli", type, PppNoIp)}

(* The link keeps any InFlight of the packets and loses the others.        *)
Link(net) == pppNet' \in {s \in SUBSET net : Cardinality(s) <= InFlight}

---------------------------------------------------------------------------
(* The client.  An operator returns the new client and what it sends; all  *)
(* the send functions but the PAP and discovery ones differ only in the    *)
(* timer's length, so a send that restarts the timer is Sent.              *)

Sent(p, out) == [p |-> [p EXCEPT !.timer = TRUE], out |-> out]
Quietly(p) == [p |-> p, out |-> {}]
Also(r, out) == [r EXCEPT !.out = @ \cup out]

sendPADI(p) == Sent(p, ToSrv("padi"))
sendPADR(p) == Sent([p EXCEPT !.state = "padr"], ToSrv("padr"))

(* sendPADT: after MaxPadt the timer is not armed again.                   *)
sendPADT(p) ==
    IF p.padt >= MaxPadt THEN Quietly(p)
    ELSE Sent([p EXCEPT !.state = "padtSent", !.padt = @ + 1], ToSrv("padt"))

sendLCPConfReq(p, first) ==
    Sent([p EXCEPT !.state = IF first THEN "lcp" ELSE @], ToSrv("lcpReq"))

(* evaluateLCPNegotiationOver: with the Ack received and the peer's        *)
(* request still missing nothing is sent and no timer is armed.            *)
evaluateLCPNegotiationOver(p) ==
    IF p.ackSent /\ p.ackRcvd THEN Quietly([p EXCEPT !.state = "pap", !.timer = TRUE])
    ELSE IF ~p.ackRcvd THEN sendLCPConfReq(p, FALSE)
    ELSE Quietly(p)

(* handleLCPNegotiation: a request brings the peer's magic number and the  *)
(* authentication method, and is acknowledged.                             *)
handleLCPNegotiation(p, type) ==
    LET r == IF type = "lcpReq"
             THEN Sent([p EXCEPT !.magic = TRUE, !.auth = "pap", !.ackSent = TRUE],
                       ToSrv("lcpAck"))
             ELSE sendLCPConfReq([p EXCEPT !.ackRcvd = TRUE], FALSE)
    IN  Also(evaluateLCPNegotiationOver(r.p), r.out)

(* answerLCPEcho: an echo whose magic number is not the peer's panics.     *)
answerLCPEcho(p) ==
    IF p.magic THEN Sent(p, ToSrv("echoReply"))
    ELSE Quietly([p EXCEPT !.panic = TRUE])

sendIPCP(p, type) == Sent(p, {Msg("srv", type, p.neg)})

(* handleIPCPNegotiation: the peer's request carries an address the client *)
(* takes as its candidate until a Nak names the right one; an Ack counts   *)
(* only for the candidate.                                                 *)
handleIPCPNegotiationFast(p, m) ==
    IF m.type = "ipcpReq"
    THEN sendIPCP([p EXCEPT !.neg = IF p.byNak THEN @ ELSE m.ip], "ipcpAck")
    ELSE Quietly([p EXCEPT !.ip = m.ip, !.neg = m.ip, !.state = "up"])
handleIPCPNegotiation(p, m) ==
    CASE m.type = "ipcpReq" ->
           sendIPCP([p EXCEPT !.neg = IF p.byNak THEN @ ELSE m.ip], "ipcpAck")
      [] m.type = "ipcpAck" /\ m.ip = p.neg ->
           Quietly([p EXCEPT !.ip = m.ip, !.state = "up"])
      [] m.type = "ipcpAck" /\ m.ip # p.neg ->
           Quietly([p EXCEPT !.neg = m.ip, !.timer = TRUE])
      [] m.type = "ipcpNak" ->
           sendIPCP([p EXCEPT !.neg = m.ip, !.byNak = TRUE], "ipcpReq")

Ipcp == {"ipcpReq", "ipcpAck", "ipcpNak"}

(* OnRemove: a link that is up is taken down first.                        *)
OnRemovePpp(p) ==
    LET r == IF p.state = "up" THEN sendPADT(p) ELSE Quietly(p)
    IN  [r EXCEPT !.p.timer = FALSE, !.p.alive = FALSE]

handlePADO(p) == Quietly([p EXCEPT !.state = "pado", !.timer = TRUE])
handlePADS(p) == Quietly([p EXCEPT !.state = "pads", !.timer = TRUE])
sendPAPReq(p) == Sent(p, ToSrv("pap"))
handlePAPRes(p) == Quietly([p EXCEPT !.state = "ipcp", !.timer = TRUE])

(* answerLCPTerminate: the peer's request is acknowledged after the PADT.  *)
answerLCPTerminate(p) == Also([sendPADT(p) EXCEPT !.p.state = "padtSent"], ToSrv("termAck"))

(* HandleRxPPPPacket.                                                      *)
HandleRxPPPPacket(p, m) ==
    CASE p.state = "padi" /\ m.type = "pado" -> handlePADO(p)
      [] p.state = "padr" /\ m.type = "pads" -> handlePADS(p)
      [] p.state \in {"pads", "lcp", "pap"} /\ m.type = "lcpReq" ->
           handleLCPNegotiation(p, m.type)
      [] p.state = "lcp" /\ m.type = "lcpAck" -> handleLCPNegotiation(p, m.type)
      [] p.state \in {"pads", "lcp", "pap", "ipcp", "up"} /\ m.type = "echo" ->
           answerLCPEcho(p)
      [] p.state = "pap" /\ m.type = "papAck" -> handlePAPRes(p)
      [] p.state \in {"ipcp", "up"} /\ m.type \in Ipcp -> handleIPCPNegotiation(p, m)
      [] p.state = "up" /\ m.type = "term" -> answerLCPTerminate(p)
      [] p.state = "padtSent" /\ m.type = "padt" ->
           OnRemovePpp([p EXCEPT !.state = "padtRcvd"])
      [] OTHER -> Quietly(p)

(* onTimerEvent.                                                           *)
onTimerEvent(p) ==
    CASE p.state = "padi" -> sendPADI(p)
      [] p.state \in {"pado", "padr"} -> sendPADR(p)
      [] p.state = "pads" -> sendLCPConfReq(p, TRUE)
      [] p.state = "lcp" -> evaluateLCPNegotiationOver(p)
      [] p.state = "pap" /\ p.auth = "pap" -> sendPAPReq(p)
      [] p.state = "pap" /\ p.auth # "pap" -> Quietly([p EXCEPT !.panic = TRUE])
      [] p.state = "ipcp" -> sendIPCP(p, "ipcpReq")
      [] p.state = "padtSent" -> sendPADT(p)
      [] OTHER -> Quietly(p)

Working == ppp.alive /\ ~ppp.panic

Client(r, net) == ppp' = r.p /\ Link(net \cup r.out) /\ UNCHANGED pppSrv

(* OnCreate sends the first PADI.                                          *)
PppInit ==
    /\ ppp = [state |-> "padi", timer |-> TRUE, magic |-> FALSE, auth |-> "none",
              ackSent |-> FALSE, ackRcvd |-> FALSE, neg |-> PppNoIp,
              byNak |-> FALSE, ip |-> PppNoIp, padt |-> 0, alive |-> TRUE,
              panic |-> FALSE]
    /\ pppSrv = [session |-> FALSE, lcpUp |-> FALSE, authed |-> FALSE, gave |-> FALSE]
    /\ pppNet = ToSrv("padi")

PppTimer ==
    /\ Working /\ ppp.timer
    /\ Client(onTimerEvent([ppp EXCEPT !.timer = FALSE]), pppNet)

PppRx(m) ==
    /\ Working /\ m.to = "cli"
    /\ Client(HandleRxPPPPacket(ppp, m), pppNet \ {m})

PppRemove == ppp.alive /\ ~ppp.panic /\ Client(OnRemovePpp(ppp), pppNet)

---------------------------------------------------------------------------
(* The access concentrator: it opens a session on PADR, authenticates once *)
(* its LCP request was acknowledged, and confirms only the address it      *)
(* assigned.                                                               *)

SrvAnswer(s, m) ==
    CASE m.type = "padi" -> [s |-> s, out |-> ToCli("pado")]
      [] m.type = "padr" ->
           [s |-> [s EXCEPT !.session = TRUE], out |-> ToCli("pads") \cup ToCli("lcpReq")]
      [] m.type = "lcpReq" /\ s.session -> [s |-> s, out |-> ToCli("lcpAck")]
      [] m.type = "lcpAck" /\ s.session -> [s |-> [s EXCEPT !.lcpUp = TRUE], out |-> {}]
      [] m.type = "pap" /\ s.lcpUp ->
           [s |-> [s EXCEPT !.authed = TRUE], out |-> ToCli("papAck")]
      [] m.type = "ipcpReq" /\ s.authed /\ m.ip = PppAssigned ->
           [s |-> [s EXCEPT !.gave = TRUE], out |-> {Msg("cli", "ipcpAck", m.ip)}]
      [] m.type = "ipcpReq" /\ s.authed /\ m.ip # PppAssigned ->
           [s |-> s, out |-> {Msg("cli", "ipcpNak", PppAssigned)}]
      [] m.type = "padt" -> [s |-> s, out |-> ToCli("padt")]
      [] OTHER -> [s |-> s, out |-> {}]

PppServe(m) ==
    /\ m.to = "srv"
    /\ \/ LET a == SrvAnswer(pppSrv, m)
          IN  pppSrv' = a.s /\ Link((pppNet \ {m}) \cup a.out)
       \/ /\ m.type = "pap" /\ pppSrv.lcpUp  \* a refusal
          /\ Link((pppNet \ {m}) \cup ToCli("papNak")) /\ UNCHANGED pppSrv
    /\ UNCHANGED ppp

PppSrvSends ==
    /\ \E out \in {ToCli("lcpReq"), ToCli("echo"), ToCli("term"),
                   {Msg("cli", "ipcpReq", PppServerIp)}} :
         /\ out = ToCli("lcpReq") => pppSrv.session /\ ~pppSrv.lcpUp
         /\ out = ToCli("echo") => pppSrv.lcpUp
         /\ out = ToCli("term") => pppSrv.gave
         /\ out = {Msg("cli", "ipcpReq", PppServerIp)} => pppSrv.authed
         /\ Link(pppNet \cup out)
    /\ UNCHANGED <<ppp, pppSrv>>

PppNext ==
    \/ PppTimer \/ PppRemove \/ PppSrvSends
    \/ \E m \in pppNet : PppRx(m) \/ PppServe(m)

PppSpec == PppInit /\ [][PppNext]_pppvars

---------------------------------------------------------------------------
(* A link that is up has the address the concentrator assigned and         *)
(* confirmed, although the peer's own request and late answers change the  *)
(* candidate meanwhile (handleIPCPNegotiation), and the concentrator has   *)
(* authenticated the client.                                               *)
PppAddressAgreed ==
    ppp.state = "up" => ppp.ip = PppAssigned /\ pppSrv.authed /\ pppSrv.gave

(* Until the link is up or the client is taken down its timer runs, so it  *)
(* asks again whatever packet was lost.  The one exception is the LCP      *)
(* exchange with its own request acknowledged and the peer's not seen:     *)
(* evaluateLCPNegotiationOver then leaves the next move to the peer.       *)
PppKeepsAsking ==
    /\ Working /\ ~ppp.timer =>
         \/ ppp.state \in {"up", "padtSent"}
         \/ ppp.state = "lcp" /\ ppp.ackRcvd /\ ~ppp.ackSent
    /\ Working /\ ~ppp.timer /\ ppp.state = "padtSent" => ppp.padt = MaxPadt

(* The two panics of the plugin, an echo from an unknown peer and a method *)
(* other than PAP, are not reached with a concentrator that asks for PAP   *)
(* and echoes only once its LCP request is acknowledged.                   *)
PppNoPanic == ~ppp.panic

\* PPP agrees on an address, asks until it has one, and meets no panic with a regular peer.
PppSound == PppAddressAgreed /\ PppKeepsAsking /\ PppNoPanic
=============================================================================
