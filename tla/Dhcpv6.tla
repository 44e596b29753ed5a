------------------------------- MODULE Dhcpv6 -------------------------------
(***************************************************************************)
(* The DHCPv6 client of one emulated client (plugins/dhcpv6).  The network *)
(* is D6Msgs: any message of it may arrive at any time, so messages are    *)
(* lost, repeated, delayed and answered by several servers.  A message     *)
(* names its server (server-id option and source address), its status, its *)
(* IANA option ("none", "bad" when it does not decode, "bare" without an   *)
(* address, "addr"), the address in it and T1, T2.                         *)
(***************************************************************************)
EXTENDS Naturals, Sequences

CONSTANTS
    D6Msgs,         \* [type, srv, ok, iana, addr, t1, t2]: what the servers send
    ReqMaxRc,       \* REQ_MAX_RC
    DefT1, DefT2,   \* DEFAULT_TIMEOUT_T1_SEC, DEFAULT_TIMEOUT_T2_SEC
    T2Slack,        \* what is added to T1 when T2 is below it
    None6d,         \* no server, no address (all zero)
    MaxRounds       \* bound: Solicit rounds

ASSUME D6Assumption ==
    /\ \A m \in D6Msgs : m.t1 \in Nat /\ m.t2 \in Nat
    /\ DefT1 \in Nat \ {0} /\ DefT2 \in Nat \ {0} /\ T2Slack \in Nat

VARIABLES
    d6,             \* PluginDhcpClient
    d6adv,          \* history: the server whose Advertise was taken last
    d6from,         \* history: the server of the Reply that bound and the address in it, if any
    d6rounds        \* history: Advertises taken

d6vars == <<d6, d6adv, d6from, d6rounds>>

NoTx == [type |-> "none", sid |-> <<>>]

SendDhcpPacket(c, type, serverOption) ==
    [c EXCEPT !.tx = [type |-> type, sid |-> IF serverOption THEN c.sidOption ELSE <<>>]]

\* restartTimer(0) leaves the timer as it is
D6RestartTimer(c, sec) == IF sec > 0 THEN [c EXCEPT !.timer = TRUE] ELSE c

D6SendDiscover(c) ==
    SendDhcpPacket(D6RestartTimer([c EXCEPT !.state = "INIT", !.cnt = 0], 1), "solicit", FALSE)

D6SendReq(c) == SendDhcpPacket(D6RestartTimer(c, 1), "request", TRUE)

D6SendRenewRebind(c, type, sec) == SendDhcpPacket(D6RestartTimer(c, sec), type, TRUE)

NormTime(t, default) == IF t = 0 THEN default ELSE t

D6OnCreate ==
    D6SendDiscover([up |-> TRUE, state |-> "INIT", cnt |-> 0, timer |-> FALSE, sid |-> <<>>,
                  sidOption |-> <<>>, sip |-> None6d, t1 |-> 0, t2 |-> 0, dip |-> None6d, iana |-> None6d,
                  tx |-> NoTx])

D6Init ==
    /\ d6 = D6OnCreate
    /\ d6adv = None6d
    /\ d6from = <<None6d, None6d>>
    /\ d6rounds = 0

-----------------------------------------------------------------------------
\* T1 and T2 of a Reply: never 0, and T2 not below T1
LeaseTimes(m) ==
    LET t1 == NormTime(m.t1, DefT1)
        t2 == NormTime(m.t2, DefT2)
    IN <<t1, IF t2 < t1 THEN t1 + T2Slack ELSE t2>>

\* DHCPv6OptionIANA.Decode into pktIana, which lives as long as the plugin and
\* is written before the packet is verified: the address is the one decoded
\* last.  A decoded option always has T1 and T2.
Decoded(c, m) == IF m.iana = "addr" THEN [c EXCEPT !.iana = m.addr] ELSE c
IanaAddr(m) == IF m.iana = "addr" THEN m.addr ELSE None6d

D6HandleAckNak(c, m) ==
    IF ~m.ok THEN D6SendDiscover(c)
    ELSE IF m.type # "reply" THEN c
    ELSE LET t == LeaseTimes(m)
         IN D6RestartTimer([c EXCEPT !.state = "BOUND", !.dip = c.iana, !.t1 = t[1], !.t2 = t[2],
                                     !.cnt = 0], t[1])

VerifyAnyServer(c, m) == m.iana \in {"bare", "addr"}

\* verifyPkt: transaction, client id and destination are those of D6Msgs.  The
\* checks of the IANA's id and of its address stand behind a return.
VerifyPkt(c, m) ==
    /\ m.iana \in {"bare", "addr"}
    /\ c.state # "INIT" => c.sid = <<m.srv>> /\ c.sip = m.srv

TakeAdvertise(c, m) ==
    LET sid == Append(c.sid, m.srv)
    IN D6SendReq([c EXCEPT !.sid = sid, !.sidOption = sid, !.sip = m.srv, !.state = "REQUESTING"])

Accepts(c, m) == c.state = "INIT" /\ VerifyPkt(c, m) /\ m.type = "advertise" /\ m.ok
Answers(c, m) == c.state \in {"REQUESTING", "RENEWING", "REBINDING"} /\ VerifyPkt(c, m)

D6HandleRxDhcpPacket(m) ==
    /\ d6.up
    /\ LET c == Decoded(d6, m)
       IN  \/ /\ Accepts(c, m) /\ d6rounds < MaxRounds
              /\ d6' = TakeAdvertise(c, m)
              /\ d6adv' = m.srv /\ d6rounds' = d6rounds + 1
              /\ UNCHANGED d6from
           \/ /\ Answers(c, m)
              /\ d6' = D6HandleAckNak(c, m)
              /\ d6from' = IF d6'.state = "BOUND" THEN <<m.srv, IanaAddr(m)>> ELSE d6from
              /\ UNCHANGED <<d6adv, d6rounds>>
           \/ /\ ~Accepts(c, m) /\ ~Answers(c, m)
              /\ d6' = c
              /\ UNCHANGED <<d6adv, d6from, d6rounds>>

\* REBINDING has no case: its timer is not started again
D6TimerStep(c) ==
    CASE c.state = "INIT" -> D6SendDiscover(c)
      [] c.state = "REQUESTING" -> D6SendReq(c)
      [] c.state = "BOUND" -> D6SendRenewRebind([c EXCEPT !.state = "RENEWING"], "renew", c.t2 - c.t1)
      [] c.state = "RENEWING" -> D6SendRenewRebind([c EXCEPT !.state = "REBINDING"], "rebind", 1)
      [] OTHER -> c

D6OnTimerEvent ==
    /\ d6.up /\ d6.timer
    /\ LET c == [d6 EXCEPT !.cnt = @ + 1, !.timer = FALSE]
       IN d6' = IF c.cnt > ReqMaxRc THEN D6SendDiscover(c) ELSE D6TimerStep(c)
    /\ UNCHANGED <<d6adv, d6from, d6rounds>>

\* a Release goes out in every state, with the last server-id option
D6OnRemove ==
    /\ d6.up
    /\ d6' = [D6SendRenewRebind(d6, "release", 0) EXCEPT !.up = FALSE, !.timer = FALSE]
    /\ UNCHANGED <<d6adv, d6from, d6rounds>>

D6NewClient ==
    /\ ~d6.up
    /\ d6' = D6OnCreate /\ d6adv' = None6d /\ d6from' = <<None6d, None6d>> /\ d6rounds' = 0

D6Next == D6OnTimerEvent \/ D6OnRemove \/ D6NewClient \/ \E m \in D6Msgs : D6HandleRxDhcpPacket(m)

D6Spec == D6Init /\ [][D6Next]_d6vars

-----------------------------------------------------------------------------
\* A client that holds a lease got it from a Reply of the server whose
\* Advertise it took last, however many servers answer and however late
\* (verifyPkt's checks of the server-id and of the source), and its address is
\* the one in that Reply if there was one in it.  A Reply whose IANA has no
\* address also binds, and then the address is the one decoded last, be it from
\* a packet that was refused (Decoded).
D6OneServer ==
    d6.up /\ d6.state \in {"BOUND", "RENEWING", "REBINDING"} =>
        /\ d6from[1] = d6adv /\ d6.sip = d6adv
        /\ d6from[2] # None6d => d6.dip = d6from[2]

\* A client waits with no timer running in two states only: REBINDING, which
\* onTimerEvent has no case for, and RENEWING with T1 = T2, where restartTimer
\* is called with 0.  In every other state it will act by itself.
D6Armed ==
    d6.up /\ ~d6.timer => d6.state = "REBINDING" \/ (d6.state = "RENEWING" /\ d6.t1 = d6.t2)

\* A DHCPv6 client has its lease from a Reply of the server it chose, with the address in it, and
\* is never left without a timer where onTimerEvent would have something to do.
D6Sound == D6OneServer /\ D6Armed
=============================================================================
