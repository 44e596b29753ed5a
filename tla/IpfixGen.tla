--------------------------------- MODULE IpfixGen ---------------------------------
EXTENDS Integers, Sequences, FiniteSets, SequencesExt, Naturals

-----------------------------------------------------------------------------
(***************************************************************************)
(* How an IPFIX client is built from its init JSON and how its generators  *)
(* send templates and fill data packets (emu/plugins/ipfix/ipfix.go:       *)
(* NewIPFixClient, NewIPFixGen, OnResolve, getDataSets, fixPayload,        *)
(* sendTemplatePktInt, sendDataPktInt).                                    *)
(* Sizes are in bytes, small: a header of Header bytes, which stands for   *)
(* the 16 or 20 of the two versions with the 4 of the set, and lengths of  *)
(* variable-length elements below 255, that need one octet.                *)
(* A field of length 0 has variable length; the size of its engine is the  *)
(* longest value it makes.  When packets leave, and the pauses, are in     *)
(* module IpfixUdp; here a packet is one step that the exporter accepts or *)
(* refuses.                                                                *)
(***************************************************************************)
CONSTANTS
    GenJsons,   \* the generators an init JSON may list
    Versions,   \* subset of {9, 10}
    Header,
    PktSizes,   \* what GetMaxSize of the exporter may be
    SpecLen,    \* bytes that describe a template, or a field in it: 4
    MaxRecs,    \* maxDataRecordsToSend (0: none)
    MaxTmpls,   \* maxTempRecordsToSend (0: none)
    SeqSpace,   \* 2^32 for the sequence number
    RecSpace,   \* 2^32 for the number of records of a packet
    MaxPkts     \* bound: packets of a behaviour

VARIABLES
    ipc,     \* the client: "new", "failed", "up" or "dead"; ver, size, gens, in order
    recsOut, \* recordsDataSent
    seqNum,  \* flowSeqNum
    pkts     \* the packets the exporter accepted: kind, gen, seq, recs, len

genvars == <<ipc, recsOut, seqNum, pkts>>

-----------------------------------------------------------------------------
(* NewIPFixGen *)

IsVar(f) == f.len = 0
Named(fields, x) == \E i \in DOMAIN fields : fields[i].name = x

FieldOk(f, j, ver) ==
    /\ ver = 9 => ~f.ent /\ ~IsVar(f)
    /\ ~IsVar(f) => f.data = f.len
    /\ IsVar(f) => f.data = 0 /\ f.name \in DOMAIN j.engines

GenOk(j, gens, ver) ==
    /\ \A i \in DOMAIN gens : gens[i].name # j.name /\ gens[i].tid # j.tid
    /\ j.tid > 255
    /\ j.opt => j.scope > 0
    /\ \A i \in DOMAIN j.fields : FieldOk(j.fields[i], j, ver)
    /\ \A x \in DOMAIN j.engines : Named(j.fields, x)

-----------------------------------------------------------------------------
(* lengths of records *)

SumFields(j, Len1(_)) == FoldFunction(LAMBDA f, n : Len1(f) + n, 0, j.fields)

calcShortestRecord(j) == SumFields(j, LAMBDA f : IF IsVar(f) THEN 1 ELSE f.len)

\* the size of the engine of a variable-length field, without the octet of its length
calcLongestRecord(j) == SumFields(j, LAMBDA f : IF IsVar(f) THEN j.engines[f.name] ELSE f.len)

\* getDataRecord: the lengths a record may have
EncodedLens(j) ==
    {SumFields(j, LAMBDA f : IF IsVar(f) THEN 1 + n[f.name] ELSE f.len) :
       n \in {m \in [DOMAIN j.engines -> 0..Max({0} \cup {j.engines[x] : x \in DOMAIN j.engines})] :
                \A x \in DOMAIN j.engines : m[x] <= j.engines[x]}}

\* OnResolve: uint32 of an int that may be negative; Go divides towards zero
calcMaxRecords(j, avail) ==
    LET d == calcShortestRecord(j)
    IN  (IF avail >= 0 THEN avail \div d ELSE 0 - ((0 - avail) \div d)) % RecSpace

recordsNumToSent(j, avail) ==
    LET m == calcMaxRecords(j, avail) IN IF j.recs = 0 \/ j.recs > m THEN m ELSE j.recs

\* getDataSets
ToSend(j, avail) ==
    IF MaxRecs > 0 THEN Min({recordsNumToSent(j, avail), MaxRecs - recsOut})
    ELSE recordsNumToSent(j, avail)

\* the records of a packet: as many as asked for while the longest one fits
Fills(j, avail, lens) ==
    LET Used(k) == FoldFunction(LAMBDA a, b : a + b, 0, SubSeq(lens, 1, k))
        Room(k) == avail - Used(k) >= calcLongestRecord(j)
    IN  /\ \A k \in 0..Len(lens) - 1 : Room(k)
        /\ Len(lens) <= ToSend(j, avail)
        /\ Len(lens) < ToSend(j, avail) => ~Room(Len(lens))

-----------------------------------------------------------------------------
(* the client *)

GenInit ==
    /\ ipc = [st |-> "new", ver |-> 10, size |-> 0, gens |-> <<>>]
    /\ recsOut = 0 /\ seqNum = 0 /\ pkts = <<>>

\* NewIPFixClient up to its exporter
GenOpen ==
    /\ ipc.st = "new" /\ ipc.size = 0
    /\ \E v \in Versions, n \in PktSizes : ipc' = [ipc EXCEPT !.ver = v, !.size = n]
    /\ UNCHANGED <<recsOut, seqNum, pkts>>

\* one generator of the list: the first that is refused makes the whole client fail
GenAdd(j) ==
    /\ ipc.st = "new" /\ ipc.size # 0 /\ Len(ipc.gens) < 2
    /\ ipc' = IF GenOk(j, ipc.gens, ipc.ver) THEN [ipc EXCEPT !.gens = Append(@, j)]
              ELSE [ipc EXCEPT !.st = "failed"]
    /\ UNCHANGED <<recsOut, seqNum, pkts>>

GenUp ==
    /\ ipc.st = "new" /\ ipc.gens # <<>>
    /\ ipc' = [ipc EXCEPT !.st = "up"]
    /\ UNCHANGED <<recsOut, seqNum, pkts>>

\* calcAvailableRecordPayload
Avail == ipc.size - Header

\* prepareTemplatePayload: the field of an enterprise has its number too
templateLen(j) == Header + SpecLen * (1 + SumFields(j, LAMBDA f : IF f.ent THEN 2 ELSE 1))

Templates == {i \in DOMAIN pkts : pkts[i].kind = "tmpl"}

\* sendTemplatePktInt, which is not called once the maximum is reached.  That a
\* template does not fit is found in OnResolve, whose result is not looked at:
\* there is no payload, and fixPayload panics.
GenTemplate(j) ==
    /\ ipc.st = "up" /\ Len(pkts) < MaxPkts
    /\ MaxTmpls > 0 => Cardinality(Templates) < MaxTmpls
    /\ IF templateLen(j) > ipc.size
       THEN ipc' = [ipc EXCEPT !.st = "dead"] /\ UNCHANGED <<seqNum, pkts>>
       ELSE /\ pkts' = Append(pkts, [kind |-> "tmpl", gen |-> j.name, seq |-> seqNum, recs |-> 0,
                                     len |-> templateLen(j)])
            /\ seqNum' = (IF ipc.ver = 9 THEN seqNum + 1 ELSE seqNum) % SeqSpace
            /\ UNCHANGED ipc
    /\ UNCHANGED recsOut

\* mutation of GenSent: the sequence number counts the records that were asked for
GenSentAsked(j, lens) ==
    /\ pkts' = Append(pkts, [kind |-> "data", gen |-> j.name, seq |-> seqNum, recs |-> Len(lens),
                             len |-> Header + FoldFunction(LAMBDA a, b : a + b, 0, lens)])
    /\ recsOut' = recsOut + Len(lens)
    /\ seqNum' = (seqNum + (IF ipc.ver = 9 THEN 1 ELSE recordsNumToSent(j, Avail))) % SeqSpace

\* the exporter accepts: version 9 counts packets, version 10 records
GenSent(j, lens) ==
    /\ pkts' = Append(pkts, [kind |-> "data", gen |-> j.name, seq |-> seqNum, recs |-> Len(lens),
                             len |-> Header + FoldFunction(LAMBDA a, b : a + b, 0, lens)])
    /\ recsOut' = recsOut + Len(lens)
    /\ seqNum' = (seqNum + (IF ipc.ver = 9 THEN 1 ELSE Len(lens))) % SeqSpace

\* sendDataPktInt, which is not called once the maximum is reached
GenSend(j) ==
    /\ ipc.st = "up" /\ Len(pkts) < MaxPkts
    /\ MaxRecs > 0 => recsOut < MaxRecs
    /\ \E k \in 0..Max({0, Avail}) :
         \E lens \in [1..k -> EncodedLens(j)] :
            /\ Fills(j, Avail, lens)
            /\ GenSent(j, lens)
    /\ UNCHANGED ipc

GenNext ==
    \/ GenOpen \/ GenUp
    \/ \E j \in GenJsons : GenAdd(j)
    \/ \E i \in DOMAIN ipc.gens : GenTemplate(ipc.gens[i]) \/ GenSend(ipc.gens[i])

-----------------------------------------------------------------------------
\* The generators of a client can be told apart by name and by template ID, and a NetFlow 9
\* client has no field that version 9 cannot describe.
GenDistinct ==
    /\ \A i, k \in DOMAIN ipc.gens : i # k =>
         ipc.gens[i].name # ipc.gens[k].name /\ ipc.gens[i].tid # ipc.gens[k].tid
    /\ ipc.ver = 9 => \A i \in DOMAIN ipc.gens : \A f \in Range(ipc.gens[i].fields) : ~f.ent /\ ~IsVar(f)

HasVar(j) == \E f \in Range(j.fields) : IsVar(f)

\* A data packet is never longer than the exporter allows, whatever data_records_num and
\* max_size say, as long as its records have a fixed length.
GenFixedFits ==
    \A p \in Range(pkts) : \A j \in Range(ipc.gens) :
        p.kind = "data" /\ p.gen = j.name /\ ~HasVar(j) => p.recs = 0 \/ p.len <= ipc.size

\* A collector can tell from the sequence numbers that nothing is missing: the number of a packet
\* is the one before plus 1 in version 9, which counts template and data packets alike, and plus
\* the data records of the one before in version 10, none for a template; across generators and
\* across the wrap; and no client sends more records than max_data_records.
GenSequence ==
    /\ \A i \in 2..Len(pkts) :
         pkts[i].seq = (pkts[i - 1].seq + (IF ipc.ver = 9 THEN 1 ELSE pkts[i - 1].recs)) % SeqSpace
    /\ MaxRecs > 0 => recsOut <= MaxRecs

-----------------------------------------------------------------------------
(***************************************************************************)
(* The devices that the namespace plugin of IPFIX creates by itself        *)
(* (emu/plugins/ipfix/ipfix_devices_auto_trigger.go, with the generators   *)
(* of client addresses and of device ids).  A timer of the main thread     *)
(* ticks every 100 ms; on some ticks it creates devices, each with its own *)
(* MAC, address, domain, range of client addresses and ids.  The rate is   *)
(* computed in floating point; the model divides exactly.                  *)
(***************************************************************************)
CONSTANTS
    DeviceCounts,     \* devicesNum
    Rampups,          \* rampupTime in ticks; at least 10, a second
    IpSpace,          \* 2^32
    FirstIp, FirstMac, FirstClient, FirstDomain,
    ClientsPerDevice, \* addresses the clients generator gives a device
    SitesPerTenant, DevicesPerSite,
    RepeatsPerDevice, \* ids a device uses, one for each repeat of a file
    TakenMacs         \* clients that the namespace already has

VARIABLES
    trg,      \* [init, devices, rampup, tick, timer]
    devs,     \* the devices in the order of their creation, triggeredDevicesDb
    nsMacs    \* the clients of the namespace

trgvars == <<trg, devs, nsMacs>>

-----------------------------------------------------------------------------
\* NewDevicesAutoTrigger: a device every few ticks, or some on every tick
TicksTriggerPeriod == IF trg.devices < trg.rampup THEN trg.rampup \div trg.devices ELSE 1
TriggersPerTick == IF trg.devices < trg.rampup THEN 1 ELSE trg.devices \div trg.rampup

\* getTenantSiteDeviceIds
IdsOf(i) ==
    IF DevicesPerSite = 0 THEN [tenant |-> 0, site |-> 0, device |-> i]
    ELSE [tenant |-> IF SitesPerTenant = 0 THEN 0 ELSE (i \div DevicesPerSite) \div SitesPerTenant,
          site |-> IF SitesPerTenant = 0 THEN 0 ELSE (i \div DevicesPerSite) % SitesPerTenant,
          device |-> i % DevicesPerSite]

\* getUuids: a generator of the device makes a UUID for a tenant when it meets it first
TenantUuid(k, i) == [gen |-> k, tenant |-> IdsOf(i).tenant]

\* NewClientsGen: the addresses from min to max
ClientRange(first) == {(first + n) % IpSpace : n \in 0..ClientsPerDevice - 1}

\* triggerDevice for the device of index k, with what sendFileRepeated makes of its ids
NewDevice(k) ==
    [index |-> k, mac |-> FirstMac + k, ipv4 |-> (FirstIp + k) % IpSpace,
     domain |-> IF FirstDomain > 0 THEN FirstDomain + k ELSE 0,
     clients |-> ClientRange((FirstClient + k * ClientsPerDevice) % IpSpace),
     ids |-> [r \in 0..RepeatsPerDevice - 1 |-> IdsOf(k * RepeatsPerDevice + r)],
     uuids |-> [r \in 0..RepeatsPerDevice - 1 |-> TenantUuid(k, k * RepeatsPerDevice + r)]]

\* triggerDevices stops at devicesNum
Triggered ==
    LET n == Len(devs) + TriggersPerTick IN IF n > trg.devices THEN trg.devices ELSE n

-----------------------------------------------------------------------------
TrgInit ==
    /\ \E n \in DeviceCounts, t \in Rampups :
         trg = [init |-> TRUE, devices |-> n, rampup |-> IF t < 10 THEN 10 ELSE t,
                tick |-> 0, timer |-> TRUE]
    /\ devs = <<>> /\ nsMacs = TakenMacs

\* OnEvent; AddClient refuses a MAC that is taken, which is not looked at
TrgTick ==
    /\ trg.timer
    /\ IF ~trg.init
       THEN trg' = [trg EXCEPT !.timer = FALSE] /\ UNCHANGED <<devs, nsMacs>>
       ELSE LET n == IF trg.tick % TicksTriggerPeriod = 0 THEN Triggered ELSE Len(devs)
                new == [k \in 1..n - Len(devs) |-> NewDevice(Len(devs) + k - 1)]
            IN  /\ devs' = devs \o new
                /\ nsMacs' = nsMacs \cup {new[k].mac : k \in DOMAIN new}
                /\ trg' = [trg EXCEPT !.tick = @ + 1, !.timer = n < trg.devices]

\* OnRemove of the namespace plugin: the timer is left to run out
TrgDelete ==
    /\ trg.init
    /\ trg' = [trg EXCEPT !.init = FALSE]
    /\ UNCHANGED <<devs, nsMacs>>

TrgNext == TrgTick \/ TrgDelete

-----------------------------------------------------------------------------
\* Devices can be told apart: MACs, addresses, domains and the ranges of client addresses of any
\* two differ, across the wrap of the address space too, there are never more than asked for, and
\* with both site parameters set no two (device, repeat) pairs have the same ids.
TrgUnique ==
    /\ Len(devs) <= trg.devices
    /\ \A i, k \in DOMAIN devs : i # k =>
         /\ devs[i].mac # devs[k].mac /\ devs[i].ipv4 # devs[k].ipv4
         /\ FirstDomain > 0 => devs[i].domain # devs[k].domain
         /\ devs[i].clients \cap devs[k].clients = {}
         /\ SitesPerTenant > 0 /\ DevicesPerSite > 0 =>
              \A r, q \in DOMAIN devs[i].ids : devs[i].ids[r] # devs[k].ids[q]

\* The ramp ends: all devices exist after at most twice the ramp-up time, unless the plugin is removed.
TrgRampEnds == trg.tick >= 2 * trg.rampup /\ trg.init => Len(devs) = trg.devices

\* The generators of a client and the devices of a namespace: distinct ids, packets within the
\* MTU, sequence numbers that count what went out, distinct devices, and a ramp that ends.
ExportSound == GenDistinct /\ GenFixedFits /\ GenSequence /\ TrgUnique /\ TrgRampEnds
=============================================================================
