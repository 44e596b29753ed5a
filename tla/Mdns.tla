--------------------------------- MODULE Mdns ---------------------------------
(***************************************************************************)
(* The host names of mDNS clients and the table of the namespace that      *)
(* finds the client of a name (emu/plugins/mdns/mdns.go).  A multicast     *)
(* question reaches the clients that the table names for at least one of   *)
(* its names; each answers all the names it has itself, as far as it has   *)
(* what the type of the question asks for.  The cache of the namespace is  *)
(* module DnsCache, its queries are module DnsAutoPlay.                    *)
(***************************************************************************)
EXTENDS Integers, Sequences, FiniteSets

CONSTANTS
    MdClients,  \* plugins, one for every client that is ever created
    MdHosts,
    MdPackets,  \* the sets of questions of the packets that arrive
    MdDataSets, \* what a client may have at its creation
    Nobody

\* the types BuildAnswers knows, and one that it does not
MdTypes == {"A", "AAAA", "PTR", "TXT", "SRV"}
MdQuestions == [host : MdHosts, type : MdTypes]

MdData == {"socket6", "AAAA", "PTR", "TXT"}

ASSUME MdAssumption == /\ Nobody \notin MdClients
                       /\ MdPackets \subseteq SUBSET MdQuestions
                       /\ MdDataSets \subseteq SUBSET MdData

VARIABLES
    mdMap,    \* mapHostClient
    mdInit,   \* params.Hosts of a client
    mdHosts,  \* hosts of a client
    mdState,  \* "new", "up", "failed", "removed"
    mdHas,    \* what a client has: "socket6", the IPv6 socket; "AAAA", an IPv6 address to answer
              \* with; "PTR", a domain name; "TXT", texts
    mdReply   \* the packet in hand: its questions whose name the table has for a client that is
              \* up and has the answer, and the answers

mdvars == <<mdMap, mdInit, mdHosts, mdState, mdHas, mdReply>>

NoQuestion == [owned |-> {}, answers |-> {}]

MdnsInit ==
    /\ mdMap = [h \in MdHosts |-> Nobody]
    /\ mdInit = [c \in MdClients |-> {}] /\ mdHosts = [c \in MdClients |-> {}]
    /\ mdState = [c \in MdClients |-> "new"] /\ mdHas = [c \in MdClients |-> {}]
    /\ mdReply = NoQuestion

Up(c) == mdState[c] = "up"

\* a name that is taken stays with its client
RegisterClientHosts(hs, c) == [h \in MdHosts |-> IF h \in hs /\ mdMap[h] = Nobody THEN c ELSE mdMap[h]]

UnregisterHosts(hs) == [h \in MdHosts |-> IF h \in hs THEN Nobody ELSE mdMap[h]]

\* OnCreate: the names are registered first; then an IPv4 socket, which may fail, and an IPv6 one
\* when the client has an address (always in a simulation).  Its own set of names does not look
\* at what was registered.
MdCreate(c, hs, data) ==
    /\ mdState[c] = "new" /\ ("AAAA" \in data => "socket6" \in data)
    /\ mdMap' = RegisterClientHosts(hs, c)
    /\ mdInit' = [mdInit EXCEPT ![c] = hs]
    /\ \/ /\ mdState' = [mdState EXCEPT ![c] = "up"]
          /\ mdHosts' = [mdHosts EXCEPT ![c] = hs] /\ mdHas' = [mdHas EXCEPT ![c] = data]
       \/ /\ mdState' = [mdState EXCEPT ![c] = "failed"]
          /\ UNCHANGED <<mdHosts, mdHas>>
    /\ mdReply' = NoQuestion

\* the client gets or loses its IPv6 address later; the sockets stay as they were created
MdAddress(c) ==
    /\ Up(c)
    /\ mdHas' = [mdHas EXCEPT ![c] = IF "AAAA" \in @ THEN @ \ {"AAAA"} ELSE @ \cup {"AAAA"}]
    /\ UNCHANGED <<mdMap, mdInit, mdHosts, mdState>> /\ mdReply' = NoQuestion

\* OnRemove
MdRemove(c) ==
    /\ Up(c)
    /\ mdMap' = UnregisterHosts(mdInit[c])
    /\ mdState' = [mdState EXCEPT ![c] = "removed"]
    /\ UNCHANGED <<mdInit, mdHosts, mdHas>> /\ mdReply' = NoQuestion

\* AddHosts
MdAddHosts(c, hs) ==
    /\ Up(c)
    /\ mdMap' = RegisterClientHosts(hs, c)
    /\ mdHosts' = [mdHosts EXCEPT ![c] = @ \cup {h \in hs : mdMap[h] = Nobody}]
    /\ UNCHANGED <<mdInit, mdState, mdHas>> /\ mdReply' = NoQuestion

\* mutation of MdRemoveHosts: only the client forgets the names
MdRemoveHostsOwn(c, hs) ==
    /\ Up(c)
    /\ mdHosts' = [mdHosts EXCEPT ![c] = @ \ hs]
    /\ UNCHANGED <<mdMap, mdInit, mdState, mdHas>> /\ mdReply' = NoQuestion

\* RemoveHosts: the names leave the table whoever has them
MdRemoveHosts(c, hs) ==
    /\ Up(c)
    /\ mdHosts' = [mdHosts EXCEPT ![c] = @ \ hs]
    /\ mdMap' = UnregisterHosts(hs)
    /\ UNCHANGED <<mdInit, mdState, mdHas>> /\ mdReply' = NoQuestion

\* BuildAnswers: the questions a client cannot answer are skipped
MdBuildAnswers(c, qs) == {q \in qs : q.type \in {"A"} \cup (mdHas[c] \cap MdTypes)}

\* HandleRxMDnsQuestions of a client: it answers for its own names.  Reply needs a socket of the
\* family and sends nothing when there are no answers.
HasSocket(c, v6) == v6 => "socket6" \in mdHas[c]
MdAnswers(c, qs, v6) ==
    IF HasSocket(c, v6) THEN {c} \X MdBuildAnswers(c, {q \in qs : q.host \in mdHosts[c]}) ELSE {}

\* HandleRxMDnsQuestions of the namespace: the clients that have one of the names get them all
MdQuestion(qs, v6) ==
    /\ LET relevant == {c \in MdClients : \E q \in qs : mdMap[q.host] = c}
           Can(c, q) == Up(c) /\ HasSocket(c, v6) /\ q \in MdBuildAnswers(c, qs)
       IN  mdReply' = [owned |-> {q \in qs : mdMap[q.host] # Nobody /\ Can(mdMap[q.host], q)},
                       answers |-> UNION {MdAnswers(c, qs, v6) : c \in relevant}]
    /\ UNCHANGED <<mdMap, mdInit, mdHosts, mdState, mdHas>>

MdnsNext ==
    \/ \E c \in MdClients :
         \/ MdRemove(c)
         \/ MdAddress(c)
         \/ \E hs \in SUBSET MdHosts, data \in MdDataSets : MdCreate(c, hs, data)
         \/ \E hs \in (SUBSET MdHosts) \ {{}} : MdAddHosts(c, hs) \/ MdRemoveHosts(c, hs)
    \/ \E qs \in MdPackets, v6 \in BOOLEAN : MdQuestion(qs, v6)

MdSpec == MdnsInit /\ [][MdnsNext]_mdvars

-----------------------------------------------------------------------------
\* The namespace's table and the clients' own sets are changed by different calls, but every name
\* that the table has for a client that is up is answered by that client when it is asked for, if
\* it has the address, domain name or texts that the type asks for and a socket of the family.
\* Other questions for the name, as those of a type it does not know, are not answered.
MdAnswered == \A q \in mdReply.owned : <<mdMap[q.host], q>> \in mdReply.answers
=============================================================================
