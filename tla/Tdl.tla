-------------------------------- MODULE Tdl --------------------------------
(***************************************************************************)
(* The TDL client (plugins/tdl): an object of a type the user defines,     *)
(* encoded after a fixed header, updated by field engines and sent on      *)
(* every tick of a timer while the connection is up.                       *)
(*                                                                         *)
(* A type is a primitive, an enum, a set of flags or a structure of named  *)
(* entries.  An object is a record with its type and either its value, for *)
(* the unconstructed types, or the sequence of its entries.  Bytes have    *)
(* TdlBits bits (8 in the code), so that all widths fit the checker.       *)
(***************************************************************************)
EXTENDS Integers, Sequences, SequencesExt, FiniteSets, Functions

CONSTANTS TdlBits,        \* bits of a byte
          MetaMap,        \* the user's type definitions, by name
          TdlParams,      \* what the user may ask for: [root, init, engines, udp], where
                          \* init gives values and engines give [offset, size] or [offset, names],
                          \* both by path, and udp is udp_debug
          MaxTicks        \* bound on the ticks

VARIABLE tdl

TdlByte == 2 ^ TdlBits
TdlHeader == <<1, 2, 3>>        \* encoded once

---------------------------------------------------------------------------
(* Primitive types: their length and how their bits are read.              *)

TdlChar == [k |-> "uint", len |-> 1]
TdlUint8 == [k |-> "uint", len |-> 1]
TdlUint16 == [k |-> "uint", len |-> 2]
TdlUint32 == [k |-> "uint", len |-> 4]
TdlUint64 == [k |-> "uint", len |-> 8]
TdlInt8 == [k |-> "int", len |-> 1]
TdlInt16 == [k |-> "int", len |-> 2]
TdlInt32 == [k |-> "int", len |-> 4]
TdlInt64 == [k |-> "int", len |-> 8]
TdlFloat == [k |-> "float", len |-> 4]      \* a float is its bits
TdlDouble == [k |-> "float", len |-> 8]
TdlCounter64 == [k |-> "pair", len |-> 16]  \* counter, then residual

CreatePrimitiveTdlType(name) ==
    CASE name = "char" -> TdlChar
      [] name = "uint8" -> TdlUint8
      [] name = "uint16" -> TdlUint16
      [] name = "uint32" -> TdlUint32
      [] name = "uint64" -> TdlUint64
      [] name = "int8" -> TdlInt8
      [] name = "int16" -> TdlInt16
      [] name = "int32" -> TdlInt32
      [] name = "int64" -> TdlInt64
      [] name = "float" -> TdlFloat
      [] name = "double" -> TdlDouble
      [] OTHER -> TdlCounter64

PutUint(n, v) == [i \in 1..n |-> (v \div (TdlByte ^ (n - i))) % TdlByte]
GetUint(b) == FoldSeq(LAMBDA i, acc : acc + (b[i] * (TdlByte ^ (Len(b) - i))), 0,
                      [i \in 1..Len(b) |-> i])
GetInt(b) == LET u == GetUint(b)
             IN  IF u >= (TdlByte ^ Len(b)) \div 2 THEN u - (TdlByte ^ Len(b)) ELSE u

EncodePrimitive(t, v) ==
    IF t.k = "pair" THEN PutUint(t.len \div 2, v.counter) \o PutUint(t.len \div 2, v.residual)
    ELSE PutUint(t.len, v)
DecodePrimitive(t, b) ==
    CASE t.k \in {"uint", "float"} -> GetUint(b)
      [] t.k = "int" -> GetInt(b)
      [] OTHER -> [counter |-> GetInt(SubSeq(b, 1, t.len \div 2)),
                   residual |-> GetInt(SubSeq(b, 1 + (t.len \div 2), t.len))]

---------------------------------------------------------------------------
(* Enums and flags.                                                        *)

(* TdlEnumDef: names and values are unique.                                *)
NameToValue(t) == [n \in {e.name : e \in Range(t.entries)} |->
                     (CHOOSE e \in Range(t.entries) : e.name = n).value]

EncodeEnum(v) == <<0>> \o PutUint(4, v)
DecodeEnum(b) == GetInt(SubSeq(b, 2, 5))

(* TdlFlagDef: the bit array has as many bytes as the flags need.          *)
bitArrayLen(t) == (Len(t.entries) - 1) \div TdlBits + 1
FlagIndex(t, f) == CHOOSE i \in 1..Len(t.entries) : t.entries[i] = f
HasBit(byte, n) == (byte \div (2 ^ n)) % 2 = 1

GetFlagSet(t, bits, f) ==
    LET v == FlagIndex(t, f) - 1 IN HasBit(bits[1 + (v \div TdlBits)], v % TdlBits)
SetFlag(t, bits, f) ==
    LET v == FlagIndex(t, f) - 1
        at == 1 + (v \div TdlBits)
        mask == 2 ^ (v % TdlBits)
    IN  [bits EXCEPT ![at] = IF HasBit(@, v % TdlBits) THEN @ ELSE @ + mask]

NoFlags(t) == [i \in 1..bitArrayLen(t) |-> 0]
EncodeFlags(bits) == <<0>> \o PutUint(4, 0) \o bits
DecodeFlags(t, b) == SubSeq(b, 6, 5 + bitArrayLen(t))

---------------------------------------------------------------------------
(* Objects.                                                                *)

Constructed(o) == o.t.k = "type"

RECURSIVE buildType(_)
buildType(name) ==
    IF name \notin DOMAIN MetaMap
    THEN LET t == CreatePrimitiveTdlType(name)
         IN  [t |-> t, v |-> IF t.k = "pair" THEN [counter |-> 0, residual |-> 0] ELSE 0]
    ELSE LET t == MetaMap[name]
         IN  CASE t.k = "enum" -> [t |-> t, v |-> 0]
               [] t.k = "flag" -> [t |-> t, v |-> NoFlags(t)]
               [] OTHER -> [t |-> t, v |-> [i \in DOMAIN t.entries |->
                                              buildType(t.entries[i].type)]]

RECURSIVE GetLength(_)
GetLength(o) ==
    CASE o.t.k = "enum" -> 5
      [] o.t.k = "flag" -> 5 + bitArrayLen(o.t)
      [] Constructed(o) -> 6 + FoldSeq(LAMBDA e, acc : GetLength(e) + acc, 0, o.v)
      [] OTHER -> o.t.len

RECURSIVE Encode(_)
Encode(o) ==
    CASE o.t.k = "enum" -> EncodeEnum(o.v)
      [] o.t.k = "flag" -> EncodeFlags(o.v)
      [] Constructed(o) -> <<0, 0>> \o PutUint(4, 0)
                           \o FlattenSeq([i \in DOMAIN o.v |-> Encode(o.v[i])])
      [] OTHER -> EncodePrimitive(o.t, o.v)

(* Decode walks the bytes with the lengths of the entries.                 *)
RECURSIVE Decode(_, _)
Decode(o, b) ==
    CASE o.t.k = "enum" -> [o EXCEPT !.v = DecodeEnum(b)]
      [] o.t.k = "flag" -> [o EXCEPT !.v = DecodeFlags(o.t, b)]
      [] Constructed(o) ->
           LET start(i) == 7 + FoldSeq(LAMBDA e, acc : GetLength(e) + acc, 0, SubSeq(o.v, 1, i - 1))
           IN  [o EXCEPT !.v = [i \in DOMAIN o.v |->
                    Decode(o.v[i], SubSeq(b, start(i), start(i) + GetLength(o.v[i]) - 1))]]
      [] OTHER -> [o EXCEPT !.v = DecodePrimitive(o.t, b)]

(* GetUnconstructedTypes: an entry is reached by the names on its path.    *)
EntryNamed(o, name) == CHOOSE i \in DOMAIN o.v : o.t.entries[i].name = name
RECURSIVE Leaf(_, _)
Leaf(o, path) == IF path = <<>> THEN o ELSE Leaf(o.v[EntryNamed(o, Head(path))], Tail(path))
RECURSIVE PutLeaf(_, _, _)
PutLeaf(o, path, leaf) ==
    IF path = <<>> THEN leaf
    ELSE [o EXCEPT !.v[EntryNamed(o, Head(path))] = PutLeaf(@, Tail(path), leaf)]

(* SetValue of an unconstructed type.                                      *)
SetValue(o, x) ==
    CASE o.t.k = "enum" -> [o EXCEPT !.v = NameToValue(o.t)[x]]
      [] o.t.k = "flag" -> [o EXCEPT !.v = FoldSet(LAMBDA f, bits : SetFlag(o.t, bits, f),
                                                   NoFlags(o.t), x)]
      [] OTHER -> [o EXCEPT !.v = x]

setInitialValues(obj, init) ==
    FoldSet(LAMBDA p, acc : PutLeaf(acc, p, SetValue(Leaf(acc, p), init[p])), obj, DOMAIN init)

---------------------------------------------------------------------------
(* Updates.                                                                *)

(* BaseUpdate: the engine writes into a window of the encoded value, which *)
(* is decoded again.  An engine for a float must have its size.  An enum   *)
(* takes a name, unless there is no such entry; a flag has no engines.     *)
(* What is refused leaves the value as it was.                             *)
Window(e) == e.offset + 1..e.offset + e.size
BaseUpdate(leaf, e, out) ==
    Decode(leaf, [i \in 1..GetLength(leaf) |->
                    IF i \in Window(e) THEN out[i - e.offset] ELSE Encode(leaf)[i]])

UpdateLeaf(leaf, e, out) ==
    CASE leaf.t.k = "flag" -> leaf
      [] leaf.t.k = "enum" ->
           IF out \in DOMAIN NameToValue(leaf.t) THEN SetValue(leaf, out) ELSE leaf
      [] leaf.t.k = "float" ->
           IF e.size = GetLength(leaf) THEN BaseUpdate(leaf, e, out) ELSE leaf
      [] OTHER -> BaseUpdate(leaf, e, out)

(* The window is cut out of a buffer of the length of the value, or of the *)
(* name for an enum.  Nothing compares the two before: a window that does  *)
(* not lie inside the buffer ends the program.                             *)
WindowFits(leaf, e) ==
    CASE leaf.t.k = "flag" -> TRUE
      [] leaf.t.k = "enum" -> e.offset = 0
      [] leaf.t.k = "float" -> e.size = GetLength(leaf) => e.offset = 0
      [] OTHER -> e.offset + e.size <= GetLength(leaf)
EnginesFit(o, engines) == \A p \in DOMAIN engines : WindowFits(Leaf(o, p), engines[p])

EngineOut(e) == IF e.k = "names" THEN e.names ELSE [1..e.size -> {0, TdlByte - 1}]

(* The objects the engines can leave: each updates its own leaf.           *)
RunEngines(o, engines) ==
    FoldSet(LAMBDA p, objs :
              UNION {{PutLeaf(x, p, UpdateLeaf(Leaf(x, p), engines[p], out)) :
                        out \in EngineOut(engines[p])} : x \in objs},
            {o}, DOMAIN engines)

(* updatePayload cuts the old object off, runs the engines and appends the *)
(* new encoding.                                                           *)
updatePayloadGrow(old, o) == old \o Encode(o)
updatePayload(old, o) == SubSeq(old, 1, Len(TdlHeader)) \o Encode(o)

---------------------------------------------------------------------------
(* The client.  sock: none before the gateway is resolved, dialing, open,  *)
(* closing (closed on our side) and gone (the pointer is nil).             *)

TdlInit ==
    \E params \in TdlParams :
      tdl = [obj |-> setInitialValues(buildType(params.root), params.init),
             p |-> params, sock |-> "none", timer |-> FALSE, payload |-> TdlHeader,
             ticks |-> 0, reset |-> FALSE, crashed |-> FALSE]

TdlUp == ~tdl.crashed

(* OnResolve: a datagram socket can send at once.                          *)
TdlResolve ==
    /\ TdlUp /\ tdl.sock = "none"
    /\ tdl' = IF tdl.p.udp THEN [tdl EXCEPT !.sock = "open", !.timer = TRUE]
              ELSE [tdl EXCEPT !.sock = "dialing"]

(* OnRxEvent.                                                              *)
TdlConnected ==
    /\ TdlUp /\ tdl.sock = "dialing"
    /\ tdl' = [tdl EXCEPT !.sock = "open", !.timer = TRUE]

TdlRemoteDisconnect ==
    /\ TdlUp /\ tdl.sock \in {"dialing", "open"} /\ ~tdl.p.udp
    /\ tdl' = [tdl EXCEPT !.sock = "closing", !.timer = FALSE]

(* SocketClosed, after our own close or after a reset by the peer.  The    *)
(* timer is left as it is.                                                 *)
TdlClosed ==
    /\ TdlUp /\ tdl.sock = "closing"
    /\ tdl' = [tdl EXCEPT !.sock = "gone"]
TdlReset ==
    /\ TdlUp /\ tdl.sock \in {"dialing", "open"} /\ ~tdl.p.udp
    /\ tdl' = [tdl EXCEPT !.sock = "gone", !.reset = TRUE]

(* TdlTimerCallback.OnEvent: the payload is updated and written; a nil     *)
(* socket ends the program.                                                *)
TdlTick ==
    /\ TdlUp /\ tdl.timer /\ tdl.ticks < MaxTicks
    /\ EnginesFit(tdl.obj, tdl.p.engines)
    /\ \E o \in RunEngines(tdl.obj, tdl.p.engines) :
           tdl' = [tdl EXCEPT !.obj = o, !.payload = updatePayload(@, o), !.ticks = @ + 1,
                              !.crashed = (tdl.sock = "gone")]

TdlTickDies ==
    /\ TdlUp /\ tdl.timer /\ tdl.ticks < MaxTicks
    /\ ~EnginesFit(tdl.obj, tdl.p.engines)
    /\ tdl' = [tdl EXCEPT !.ticks = @ + 1, !.crashed = TRUE]

(* OnRemove.                                                               *)
TdlRemove ==
    /\ TdlUp /\ (tdl.timer \/ tdl.sock \in {"dialing", "open"})
    /\ tdl' = [tdl EXCEPT !.timer = FALSE, !.sock = IF @ = "gone" THEN "gone" ELSE "closing"]

TdlNext == TdlResolve \/ TdlConnected \/ TdlRemoteDisconnect \/ TdlClosed \/ TdlReset
           \/ TdlTick \/ TdlTickDies \/ TdlRemove

---------------------------------------------------------------------------
(* Every packet is the header followed by the object as it is now: a       *)
(* receiver with the same definitions that decodes it gets every value     *)
(* back, over nested structures, signs and flags, however many packets     *)
(* went before.                                                            *)
TdlWire ==
    tdl.ticks > 0 /\ EnginesFit(tdl.obj, tdl.p.engines) =>
      LET b == SubSeq(tdl.payload, 1 + Len(TdlHeader), Len(tdl.payload))
      IN  /\ SubSeq(tdl.payload, 1, Len(TdlHeader)) = TdlHeader
          /\ Len(b) = GetLength(tdl.obj)
          /\ Decode(buildType(tdl.p.root), b) = tdl.obj

(* A flag reads as set exactly when init_values listed it: no flag         *)
(* disturbs another, within a byte or across the bytes of the bit array.   *)
TdlFlagsSet ==
    \A p \in DOMAIN tdl.p.init :
      LET o == Leaf(tdl.obj, p)
      IN  o.t.k = "flag" => {f \in Range(o.t.entries) : GetFlagSet(o.t, o.v, f)} = tdl.p.init[p]

(* The timer never fires on a socket that was closed in order: only a      *)
(* reset by the peer, whose event does not stop the timer, leaves a tick   *)
(* without a socket, and apart from that the program ends only on an       *)
(* engine whose window is not inside its field (TdlTickDies).              *)
TdlSendsOpen ==
    /\ tdl.timer /\ ~tdl.reset => tdl.sock = "open"
    /\ tdl.crashed => tdl.reset \/ ~EnginesFit(tdl.obj, tdl.p.engines)

\* A TDL packet decodes to the object, flags are the ones set, and nothing is sent after the end.
TdlSound == TdlWire /\ TdlFlagsSet /\ TdlSendsOpen
=============================================================================
