# A verification of trex-emu

trex-emu emulates many network clients on one port of a traffic generator. A
namespace is a VLAN tunnel; it holds clients, each with a MAC and with IPv4 and
IPv6 addresses; plugins (ARP, DHCP, IGMP, IPFIX, TCP, ...) are attached to clients,
to namespaces and to the thread. One goroutine, the main loop, does all the
protocol work. Around it run a goroutine that makes ticks, one that receives
batches of frames over ZMQ, one that serves JSON-RPC requests and, where a plugin
exports data, one or two that write it.

These modules model the core and most of the plugins, check them with TLC on small
instances, and prove the main invariants with TLAPS for every value of the
constants. `PROJECT.json` lists the parts of the system with their sources, the
runs, the source lines of every definition, the hazards of the code at the lines
where they are, and the theorems.

## How the parts meet

The main loop calls the timer wheel on a tick, the virtual port on a batch of
frames, and the RPC handlers on a request. Handlers change the tables of
namespaces and clients, whose updates are broadcast to the plugins; plugins send
through the port and start timers. What runs on the main loop is one step for
everybody else. So a handler is one action, with all the calls it makes, except
where a goroutine can see it half done (the channels of the IPFIX exporters, the
ring of the proxy) or where it calls back (the wheel, TCP).

## Modules

| module | code | state and actions |
|---|---|---|
| TimerWheel | `core/timerw.go` | levels of buckets; Start, Stop, and OnTick in steps: the tick of level 0, one callback, one share of an upper level, the re-hashing of a timer. The order within a bucket is left open |
| MainLoop | `core/thread_ctx.go`, `rpc.go`, `timer_ctx.go` | the goroutines and channels of the process; requests, ticks, flush, shutdown now or later |
| EpocIter, NsTables, ThreadCtx | `core/ns_ctx.go`, `thread_ctx.go` | tables by MAC, IPv4 and IPv6, lists with counters, and the iterators of the RPC interface, which an epoch invalidates |
| ClientCtx | `core/client_ctx.go`, `plugin_ctx.go` | the plugins of a client, its event bus, the poll for the MACs of its gateways |
| PacketFifo, VethPipe, ProxyRing | `core/veth_zmq.go`, `cmd-proxy` | the transmit vector, batches and the parser with its 16-bit offset; the ring of buffers two goroutines share. Both implement PacketFifo |
| ArpTable | `plugins/arp` | flows with state, reference count, clients, retry index and timer; the iterator; queries on the wire, which may be lost |
| IpfixUdp | `core/non_blocking_chan.go`, `plugins/ipfix` | generators, the bounded channel with two watermarks, the writer goroutine. Each packet is two steps, since the writer runs between the send and the look at the length |
| HttpExporter, IpfixGen | `plugins/ipfix` | the file exporter with rotation and the goroutine that posts; acceptance of generators, template and data packets, record lengths, sequence numbers; the ramp of devices |
| Dhcp, Dhcpv6 | `plugins/dhcpv4`, `dhcpv4srv`, `dhcpv6` | pools that grow in chunks, leases, handlers; the clients' states and timers |
| Dot1x, Ppp | `plugins/dot1x`, `point2point` | the supplicant with both methods; discovery, LCP, PAP and IPCP against a regular concentrator |
| McReport, Igmp, Ipv6 | `plugins/igmp`, `ipv6` | group tables, answers to queries in slices under an iterator, delayed joins and leaves, the neighbour cache |
| Tcp, TxQueue, ByteFifo | `plugins/transport` | two sockets with callbacks that call back into the socket; the transmit queue in blocks, which implements ByteFifo |
| Flows | `plugins/transport` | flow table, source ports, server callbacks, close |
| AppSim | `plugins/appsim` | the interpreter of two programs over a socket; streams of flows |
| Dns, Mdns, Ping | `plugins/dns`, `dns_utils`, `mdns`, `icmp`, `ping` | cache with epochs and expiry, name server, auto-play; names; echo with sequence numbers that wrap |
| Tdl, FieldEngine | `plugins/tdl`, `plugins/field_engine` | types, encoding and life of the connection; integer, list, time and histogram engines |

A panic of the code is a variable or a field (`failed`, `panic`, `ftpanic`).
Bytes of packets, counters and texts are left out. Integers keep their width where
overflow is in reach: ticks, offsets, `smCnt`, ports, sequence numbers; the modulus
is a constant, small in the runs.

The modules named MC... instantiate these for TLC (the wheel needs none: its own
module is checked). Several parts share one MC
module and one run. They have no state in common, so a variable `focus`, chosen in
the initial state, says which of them moves: the state space is the sum of theirs
and not the product.

## Runs

| run | parts | what it checks |
|---|---|---|
| `wheel_burst` | TimerWheel, 3 timers, 2 levels of 4 buckets | NoTimerLeftBehind, FiresOnTime |
| `wheel_time` | TimerWheel, 2 timers, 3 levels, durations beyond the last wheel, ticks that wrap | TimeGoesOn: timers expire, OnTick returns |
| `tables` | NsTables, ThreadCtx, ArpTable | TablesExact, IterSound, NamespacesSound; FlowsExact, IterComplete, MacKept |
| `io` | ProxyRing, VethPipe, MainLoop | RingIsFifo, IsFifo (refinements of PacketFifo with its liveness); LoopSound, LoopLive |
| `live` | ArpTable, IpfixUdp, HttpExporter | EventuallyResolved; ExportersEnd: pauses end, removal and Close return, all accepted packets are sent |
| `client_plugins` | Dhcp (with a network, and against any messages), Dhcpv6, Dot1x, Flows | PoolExact, LeaseSound, D6Sound, X1Sound, FlowSound |
| `transport` | Tcp, TxQueue | TcpStreamSound, TcpRexmtArmed, TcpEndSound; TxqFifo (refinement of ByteFifo) |
| `multicast` | Igmp, Ipv6 | IgmpSound, MldSound, NdSound |
| `ipfix` | IpfixUdp, HttpExporter, IpfixGen | NoWriteRefused, PauseFollowsChannel, FilesSound, ExportSound |
| `services` | Dns, Mdns, Ping, AppSim, Ppp, ClientCtx, Tdl, FieldEngine | DnsCacheSound, DnsServes, MdAnswered, PingSound, AppSound, PppSound, ClientSound, TdlSound, EnginesSound |
| `arp_force` | ArpTable | **violated** NoPanic: see findings |
| `dhcp_pool` | Dhcp | **violated** NoPoolPanic: see findings |

The definition of every property says in words what it claims; most are
conjunctions of two or three named parts.

**Bounds.** The wheels have enough timers for a bucket that takes several ticks and
enough levels for a timer that goes down through all of them. Five epochs let an
iteration be cut by an addition and a removal and begun again. Three sizes of
packets make the vector flush by count and by size, and the modulus makes the
offset wrap. A channel of three with thresholds one and two is the smallest in
which a burst goes past the high watermark. Two clients and two gateways give every
sharing of an ARP flow; a retry table of four passes the index after which a MAC is
dropped (eight, as in the code, in `live`). The DHCP pool needs a second chunk and
has an excluded address inside; three MACs compete for its addresses. Two sockets
and two ports exhaust the pool of ports. A TCP connection carries three segments,
more than the window at start, with one expiry of a timer. Slices of two groups of
three leave the iterator in the middle; the response time of a query is fixed to
1000 ms (`MaxResps`, `Resps6`), since it only scales the tick. Bounds on operations
(`MaxIgOps`, `Max6`, `MaxAdds`, `MaxWrites`, `MaxCreates`, ...) are named in the
modules that declare them.

**Symmetry and view.** Timers, ARP gateways, and multicast groups and gateways are
symmetric in the runs without liveness that say so. The view of `tables` leaves out
the retry index of an ARP flow that is not being queried: the code reads it only in
the incomplete and refresh states, and sets it when a flow that was learned,
complete or new enters them.

**Deadlock** is not checked where a part may rest: when the bound on requests or
operations is reached, after shutdown or close, or when a program has ended.

**Fairness.** The wheel: ticks keep coming and OnTick runs on. Callbacks of
`wheel_time` ask for at least one tick: with 0 the timer goes back into the bucket
being emptied and OnTick does not return (`wheel_burst`, which has no liveness,
includes it). MainLoop: goroutines are scheduled, and a case of a select that is
ready again and again is taken at some time, since Go chooses at random (strong
fairness). IpfixUdp: the callback that runs ends, the writer is scheduled, the wheel
fires the polling timer. HttpExporter: both goroutines are scheduled, a request is
answered or fails (the client has a timeout), and the select takes `done` in the
end. ArpTable: the wheel fires timers, and a gateway that is asked for ever answers
at some time. No other action is fair.

## Proofs

All theorems hold for every value of the constants that satisfies the named
ASSUMEs of the modules, bounds on operations included: a bound appears only as a
guard, which the proofs do not use.

| module | theorems | inductive invariant, and why it is needed |
|---|---|---|
| TimerWheelProofs | TypeCorrect, ActiveTimersExact, BurstsSuffice, NothingLeftBehind | types, the counter of active timers and BurstCovers together: what is left in the bucket being emptied is at most what its remaining ticks handle; only Start and the re-hashing add to a bucket, and never to the active one of an upper level. |
| TimerTimeProofs | CallbacksAreOnTime | the ticks a timer still has to wait in its bucket, with its age, its hops and what is left for the next turn, stay within the grain of its wheel of what was asked |
| CoreTableProofs | TablesTyped, Ipv4Exact, Ipv6Exact, TablesAreExact, ClientIterIsSound, NamespacesAreSound | the address tables exact in both directions: an update may delete the entry of the old address only because it is the client's own. ListOK for the two lists and iterators: while the epoch is that of the reset, the iterator's node is the item behind those it gave out; after any change the epoch has moved past the iterator's for good. For namespaces also the counters, by which RemoveNs decides |
| IoProofs | RingTyped, RingImplementsFifo, VethImplementsFifo, LoopIsSound | the ring: the buffer handed over is not the one being filled and still has its frame; from at least two buffers. The veth: every batch is shorter than the offset's modulus, so the offset of the parser never wraps; offsets grow along a batch, so each is that of one packet, and the parser stands at a packet that is there. The loop: requests are numbered through from the answered ones over the one at work to those in the socket; ticks handled and ticks left in the shutdown timer add up to the delay |
| ServiceProofs | NeverRefused, PauseExact, PingCountsRight, PluginsStartOnce | IPFIX: while the watermark is not announced the channel is at or below it, one packet more between the send and the check; all generators are paused exactly while it is announced. Ping: a sequence number under way is that of its request modulo 2^16, and the next one expected that of the replies in order. Client: what a plugin has started for is what the announced mask and the forced gateways say |
| DhcpProofs | AddressesAreConserved | for each pool, the addresses with the contexts are inside what the pool has come to hold, disjoint from the free list and the excluded ones, and the three together are all of it; no two contexts of a pool have the same address; the free list has no repetition |
| ArpTableProofs | LinksAlwaysExact, TimersAlwaysExact, NeverPanics, FlowsAlwaysExact, MacIsKept, IterationIsComplete | links, counts, states and timers together: the code decides by the count and asserts on the list. For the MAC: the index of a flow being refreshed is bounded by its unanswered queries. For the iteration: the list is the table, without repetition, and the flows still due are not before the iterator |
| ClientPluginProofs | X1IsSound, D6IsSound, FlowIsSound, MdIsAnswered, PppIsSound | 802.1X: `smCnt` is the number of timeouts until it wraps, and a finished MSCHAPv2 exchange was proved. DHCPv6: outside INIT one server passes verifyPkt, what is decoded from a packet changes the kept address only, and T1 <= T2. Flows: table and sockets are inverse, and the owners of ports are the dialled sockets. mDNS: the table's names for clients that are up are in their own sets. PPP: what every packet under way says of its sender, what each end knows of the other, and that the timer runs unless the next move is the peer's |

Hypotheses beyond the ASSUMEs are part of the statements. FlowsAlwaysExact,
LinksAlwaysExact and NeverPanics assume `Benign`: no client with a forced gateway is
created with a gateway (the case of `arp_force`), and none with a gateway is given
an address in use. MacIsKept and IterationIsComplete do not need it. FlowIsSound
assumes that packets come only for the client's own address (`~Strays`); with
others the table meets its own "flow table is corrupted" panic.

Assumptions on the constants that matter: CallbacksAreOnTime takes wheels whose
levels divide each other as in the code, with a divisor below the wheel size, and a
bound on ages above the largest time (TimingAssumption); PingCountsRight takes
amounts below the modulus of the 16-bit sequence number (the amount is a uint32; with
more requests two have the same number, and a reply to the later one passes for the
earlier); VethImplementsFifo takes a burst and a buffer that fit the uint16 offset of
OnRxStream with all headers, and packets that do so one by one (VethAssumption: 64
packets, 32 KiB and packets of at most 9 KiB are far below 64 KiB);
AddressesAreConserved takes pools whose range lies in their subnet,
as CreateIpv4Pool enforces, and any chunk size.

Each step lemma has a case per action. The iterators rest on lemmas about appending
to and removing from a list, proved in the same modules (CoreTableProofs,
ArpTableProofs). The loop of enlargePool is a recursive function of the number of
addresses, and so are the bytes and the packets of a batch; what these compute is
proved by taking the least counterexample (SetInduction in DhcpProofs and IoProofs),
which needs no induction rule with an operator as its parameter. The two refinements
of PacketFifo map the initial state to an initial state, the send to a Put, the
delivery to a Get and every other step to a stutter, one lemma for each.

**Only model-checked.**
- Liveness (TimeGoesOn, LoopLive, EventuallyResolved, ExportersEnd, the liveness of
  the two FIFOs): fairness and ENABLED are beyond the prover.
- What a fold of the community modules computes, over a set or a function in an
  order that is chosen: FilesSound, ExportSound, EnginesSound, DnsCacheSound.
- LeaseSound: it speaks of the clients and the network of Dhcp together with the
  server, and an invariant would have to follow every message under way. The
  server's part of it is AddressesAreConserved.
- Everything in modules with RECURSIVE operators (AppSim, McReport with Igmp and
  Ipv6, Tcp, Tdl, TxQueue), where the prover has no SMT backend.
- DnsServes, whose lockstep is nonlinear modular arithmetic.

## Findings

- `arp_force`: a client with a forced gateway is not linked to the flow of its
  gateway when it is created, but unlinked when it is removed; the assertions in
  DisassociateClient fail if the gateway is in the table.
- `dhcp_pool`: a pool whose size is a multiple of the chunk of 256 is not marked as
  exhausted with its last address; the next request panics in removeEntry where
  GetFirst promises an error.

## Observations

Met while modelling. The models have this behaviour; no run states the opposite.

- IPFIX: a generator whose timer fires while it is paused does not start it again,
  and the resume restarts only timers that run, so it is silent until the client is
  disabled and enabled, though the comment on the flag calls the pause temporary
  (`ipfix.go:839` and `:104`). Disable and Enable start timers that still run
  (`:1414`). The buffer of a template is rewritten while the channel holds it
  (`:455`). UnregisterObserver never finds its observer. After maxPosts the file of
  an earlier post is removed in place of the one of the event. The 5xx retry state
  is never entered. Close drops queued commands. A template longer than a packet is
  found in OnResolve, whose result is not looked at: the first template packet then
  has no payload and fixPayload panics (`:1468`, `dead` in IpfixGen).
- ARP: a client with a gateway that is given an address in use loses its address
  without an event (`ns_ctx.go:463`), so its link stays.
- DHCPv6: REBINDING never re-arms its timer (`D6Armed` says where a client waits
  without one). The IANA option is decoded before the packet is verified, into a
  buffer that is kept, and verifyPkt's check for an address stands behind a return
  (`dhcpv6.go:727`): a Reply whose IANA has no address binds the address decoded
  last, whoever sent it. So D6Sound says whose Reply bound the client, and speaks of
  the address only if that Reply had one.
- DHCPv4: a client in REBINDING has no timer; leases below 4 s give timers of 0. The
  ACK to a client after its reboot names the whole lease, but binds nothing: the
  timer of the context, that of the offer even, runs on, and the address may be given
  to another client before that lease is over (`dhcpsrv.go:1579`). PromiseKept, a part
  of LeaseSound, is about the ACKs that bind. Clients of the emulator never send this
  request.
- 802.1X: `smCnt` is a uint8, so the 256th timeout in a row starts the count again.
  Before the first MSCHAPv2 challenge the kept response is empty, and a success with
  an empty text matches it: X1Mutual is about clients that have answered a challenge.
- MLD: flushRemoveCache can meet its own panic for a group of management
  (`mld.go:980`); MldSound leaves out the counts of groups whose leave failed. ND: the
  removal of a client with a forced gateway is the case of `arp_force`; a solicitation
  for an address with the EUI-48 pattern is decided by the MAC and the prefix in it
  alone, so one that a client owns outside the router's prefix is not answered for
  (`nd.go:1627`); NdAnswersOwned is about the others.
- TCP: a repeated SYN-ACK resets the connection (`tcp_input.go`, about 605);
  SocketClosed may be told twice; FIN_WAIT_2 has no timer.
- Ports: dialCmn keeps the port when the flow is refused; `srcPort++` is not
  wrapped before it is tried.
- DNS: the one socket field answers a second open flow to the first one's peer, so
  `DnsFirstToAsker` speaks of first packets. With bursts more than query_amount
  queries may be sent. mDNS: OnRemove unregisters only the names of the init JSON, and
  a client whose creation fails leaves its names in the table. A question is answered
  only if the client has what its type asks for, and a socket of the family.
- Client: polling for the gateway stops after six polls; an IPv6 gateway that was
  found without a MAC counts as resolved.
- Field engine: an unsigned histogram range over the full width divides by zero;
  the leftover of a distribution is not distributed by distributeLeftoverRelatively.
  The longest URL is taken to be that of the longest strings, before they are escaped:
  others may grow past it, are refused when they are drawn and, with random queries,
  make the size of the query wrap; one size makes rand.Intn panic. HistExact allows
  errors and panics for such entries (`Grows`) only.
- TDL: a type that contains itself recurses; SocketClosed after a reset leaves the
  timer running. An engine whose offset and size lie outside the field panics on the
  first tick (`TdlTickDies`); float and double fields take only engines of their own
  size. AppSim: streams of the server plugin never start their program.

## Not modelled

The MTU that igmp_ns_set_cfg changes, packet formats, parser, packet buffers, counters, JSON and command-line parsing,
cryptographic functions, CDP and LLDP (a packet and a periodic timer), the
simulation used by the tests, and the vendored libraries. Of TCP: timestamps,
round-trip estimation, window scaling, urgent data, keep-alive. Of the field
engines: floating-point arithmetic. `PROJECT.json` gives the reason for each part.
