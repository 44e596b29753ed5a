-------------------------------- MODULE FieldEngine --------------------------------
EXTENDS Integers, Sequences, FiniteSets, SequencesExt, FiniteSetsExt

-----------------------------------------------------------------------------
(***************************************************************************)
(* The field engines of field_engine/engine.go that write a number, a      *)
(* string of a list or a time into a packet.                               *)
(*                                                                         *)
(* fe is one engine: its parameters as the user gave them (par), the       *)
(* state of the engine and, for the properties, the number of updates and  *)
(* the last value written.  The word of the machine is FeMod wide (2^64 in *)
(* the code) and FeSizeMod gives the modulus of each field size, so that   *)
(* all parameters, the wrapping ones included, can be tried.               *)
(*                                                                         *)
(* ft is a pair of time engines: time_start and time_end of one flow       *)
(* record, each telling the other what it wrote.                           *)
(***************************************************************************)
CONSTANTS FeMod,          \* one more than the largest uint64
          FeSizeMod,      \* size in bytes -> one more than its largest uint
          FeRepeats,      \* values of "repeat"
          FeLists,        \* the lists of the list engines with their types
          FePad,          \* the padding value
          MaxUpdates,     \* bound on the updates
          FtParams,       \* parameters of the two time engines
          FtMod           \* one more than the largest time

VARIABLES fe, ft
fevars == <<fe, ft>>

Sizes == DOMAIN FeSizeMod
Ops == {"inc", "dec", "rand"}

Uint64(x) == x % FeMod
Int64(x) == LET u == x % FeMod IN IF u >= FeMod \div 2 THEN u - FeMod ELSE u

(* PutValue keeps the low bytes; a reader of the packet sees an unsigned   *)
(* or a signed number of that size.                                        *)
PutValue(size, value) == value % FeSizeMod[size]
ReadUint(size, w) == w
ReadInt(size, w) == IF w >= FeSizeMod[size] \div 2 THEN w - FeSizeMod[size] ELSE w

---------------------------------------------------------------------------
(* The uint engine.                                                        *)

UintParams == [kind : {"uint"}, size : Sizes, op : Ops, repeat : FeRepeats,
               step : 0..(FeMod - 1), min : 0..(FeMod - 1), max : 0..(FeMod - 1),
               init : 0..(FeMod - 1)]

validateUint(p) ==
    /\ p.min <= p.max
    /\ p.init = 0 \/ p.init \in p.min..p.max
    /\ p.max < FeSizeMod[p.size]

(* The length of the full domain does not fit and is taken one short.      *)
NewUIntEngine(p) ==
    LET len == IF Uint64(p.max - p.min + 1) = 0 THEN FeMod - 1 ELSE Uint64(p.max - p.min + 1)
    IN  [step |-> IF p.step > len THEN p.step % len ELSE p.step,
         len |-> len, count |-> 0,
         curr |-> IF p.min >= p.init THEN p.min ELSE p.init]

UIncValueShort(p, s) ==
    LET left == Uint64(p.max - s.curr)
    IN  IF s.step <= left THEN Uint64(s.curr + s.step)
        ELSE Uint64(p.min + Uint64(s.step - left))
UIncValue(p, s) ==
    LET left == Uint64(p.max - s.curr)
    IN  IF s.step <= left THEN Uint64(s.curr + s.step)
        ELSE Uint64(p.min + Uint64(s.step - left - 1))

UDecValue(p, s) ==
    LET left == Uint64(s.curr - p.min)
    IN  IF s.step <= left THEN Uint64(s.curr - s.step)
        ELSE Uint64(p.max - Uint64(s.step - left - 1))

URandValues(p, s) == {Uint64(p.min + (g % s.len)) : g \in 0..(FeMod - 1)}

---------------------------------------------------------------------------
(* The int engine: the same on signed words.                               *)

Ints == -(FeMod \div 2)..(FeMod \div 2 - 1)
MinInt64 == -(FeMod \div 2)
MaxInt64 == FeMod \div 2 - 1

IntParams == [kind : {"int"}, size : Sizes, op : Ops, repeat : FeRepeats,
              step : 0..(FeMod - 1), min : Ints, max : Ints, init : Ints]

validateInt(p) ==
    /\ p.min <= p.max
    /\ p.init = MinInt64 \/ p.init \in p.min..p.max
    /\ p.max < FeSizeMod[p.size] \div 2
    /\ p.min >= -(FeSizeMod[p.size] \div 2)

(* calcDomainLenInt: each branch avoids an overflow of int64.              *)
calcDomainLenInt(min, max) ==
    IF min = MinInt64 /\ max = MaxInt64 THEN FeMod - 1
    ELSE IF min > 0 THEN Uint64(Int64(Int64(max - min) + 1))
    ELSE IF max > 0 THEN Uint64(max + Uint64(Int64(min * (-1))) + 1)
    ELSE Uint64(Uint64(Int64(min * (-1))) - Uint64(Int64(max * (-1))) + 1)

NewIntEngine(p) ==
    LET len == calcDomainLenInt(p.min, p.max)
    IN  [step |-> IF p.step > len THEN p.step % len ELSE p.step,
         len |-> len, count |-> 0,
         curr |-> IF p.min >= p.init THEN p.min ELSE p.init]

IIncValue(p, s) ==
    LET left == Uint64(Int64(p.max - s.curr))
    IN  IF s.step <= left THEN Int64(s.curr + Int64(s.step))
        ELSE Int64(p.min + Int64(Uint64(s.step - left - 1)))

IDecValue(p, s) ==
    LET left == Uint64(Int64(s.curr - p.min))
    IN  IF s.step <= left THEN Int64(s.curr - Int64(s.step))
        ELSE Int64(p.max - Int64(Uint64(s.step - left - 1)))

IRandValues(p, s) == {Int64(p.min + Int64(g % s.len)) : g \in 0..(FeMod - 1)}

---------------------------------------------------------------------------
(* Update of a numeric engine: the value is written, and every "repeat"    *)
(* updates the operation makes the next one.                               *)

Numeric(p, s) ==
    IF p.kind = "uint"
    THEN CASE p.op = "inc" -> {UIncValue(p, s)}
           [] p.op = "dec" -> {UDecValue(p, s)}
           [] OTHER -> URandValues(p, s)
    ELSE CASE p.op = "inc" -> {IIncValue(p, s)}
           [] p.op = "dec" -> {IDecValue(p, s)}
           [] OTHER -> IRandValues(p, s)

UpdateNumber(p, s) ==
    IF s.count + 1 >= p.repeat
    THEN {[s EXCEPT !.curr = v, !.count = 0] : v \in Numeric(p, s)}
    ELSE {[s EXCEPT !.count = @ + 1]}

---------------------------------------------------------------------------
(* The list engines: of unsigned and signed numbers, of floats, taken as   *)
(* their bits, and of strings.  A step or an index of 2^63 and more turns  *)
(* negative when it is converted to int; the lists are tried below that.   *)

ListParams == UNION {[kind : {"list"}, type : {l.type}, list : {l.list}, size : Sizes, op : Ops,
                      step : 0..MaxInt64, init : 0..MaxInt64] : l \in FeLists}

(* What an entry of each type must satisfy, and what is written for it.    *)
UIntList(size, x) == x \in 0..(FeSizeMod[size] - 1)
IntList(size, x) == x \in -(FeSizeMod[size] \div 2)..(FeSizeMod[size] \div 2 - 1)
FloatBits(size, x) == IF size \in {4, 8} THEN PutValue(size, x) ELSE 0
StringList(size, str) == Len(str) <= size
processStrings(size, str) == str \o [i \in 1..(size - Len(str)) |-> FePad]

ItemFits(p, x) ==
    CASE p.type = "uint" -> UIntList(p.size, x)
      [] p.type = "int" -> IntList(p.size, x)
      [] p.type = "float" -> TRUE
      [] OTHER -> StringList(p.size, x)
Item(p, x) ==
    CASE p.type = "string" -> processStrings(p.size, x)
      [] p.type = "float" -> FloatBits(p.size, x)
      [] OTHER -> PutValue(p.size, x)

validateList(p) ==
    /\ Len(p.list) > 0
    /\ p.init < Len(p.list)
    /\ \A i \in 1..Len(p.list) : ItemFits(p, p.list[i])

NewListEngine(p) ==
    [step |-> IF p.step > Len(p.list) THEN p.step % Len(p.list) ELSE p.step,
     len |-> Len(p.list), curr |-> p.init]

LDecValue(s) ==
    IF s.curr < s.step THEN s.len - (s.step - s.curr) ELSE s.curr - s.step

UpdateList(p, s) ==
    CASE p.op = "inc" -> {[s EXCEPT !.curr = (@ + s.step) % s.len]}
      [] p.op = "dec" -> {[s EXCEPT !.curr = LDecValue(s)]}
      [] OTHER -> {[s EXCEPT !.curr = i] : i \in 0..(s.len - 1)}

---------------------------------------------------------------------------
(* The life of an engine: built from parameters that validate, then        *)
(* updated once per packet.                                                *)

NoEngine == [par |-> [kind |-> "none"], st |-> <<>>, n |-> 0, out |-> <<>>]

Valid(p) == CASE p.kind = "uint" -> validateUint(p)
              [] p.kind = "int" -> validateInt(p)
              [] OTHER -> validateList(p)

NewEngine(p) == CASE p.kind = "uint" -> NewUIntEngine(p)
                  [] p.kind = "int" -> NewIntEngine(p)
                  [] OTHER -> NewListEngine(p)

FeCreate ==
    /\ fe = NoEngine
    /\ \E p \in UintParams \cup IntParams \cup ListParams :
         Valid(p) /\ fe' = [NoEngine EXCEPT !.par = p, !.st = NewEngine(p)]
    /\ UNCHANGED ft

FeUpdate ==
    /\ fe.par.kind # "none"
    /\ fe.n < MaxUpdates
    /\ \E s \in IF fe.par.kind = "list" THEN UpdateList(fe.par, fe.st)
                ELSE UpdateNumber(fe.par, fe.st) :
         fe' = [fe EXCEPT !.st = s, !.n = @ + 1,
                          !.out = IF fe.par.kind = "list" THEN Item(fe.par, fe.par.list[fe.st.curr + 1])
                                  ELSE PutValue(fe.par.size, fe.st.curr)]
    /\ UNCHANGED ft

---------------------------------------------------------------------------
(* The time engines, updated in the order of the record's fields.  Values  *)
(* are words of 64 bits, written whole (size 8).                           *)

FtWord(x) == x % FtMod

NewTimeEngines(p) ==
    [par |-> p, first |-> TRUE, prevEnd |-> 0, flowStart |-> 0,
     at |-> "start", rec |-> [start |-> 0, end |-> 0], last |-> [start |-> 0, end |-> 0],
     n |-> 0]

(* TimeStartEngine.Update: the first value is the offset, the next ones    *)
(* lie one gap after what the end engine reported.                         *)
TimeStartUpdate ==
    /\ ft.at = "start" /\ ft.n < MaxUpdates
    /\ \E ipg \in ft.par.ipgMin..ft.par.ipgMax :
         LET v == IF ft.first THEN ft.par.offset ELSE FtWord(ft.prevEnd + ipg)
         IN  ft' = [ft EXCEPT !.first = FALSE, !.flowStart = v, !.at = "end",
                              !.last = ft.rec, !.rec = [start |-> v, end |-> 0]]
    /\ UNCHANGED fe

TimeEndUpdate ==
    /\ ft.at = "end"
    /\ \E d \in ft.par.durMin..ft.par.durMax :
         LET v == FtWord(ft.flowStart + d)
         IN  ft' = [ft EXCEPT !.prevEnd = v, !.rec.end = v, !.at = "start", !.n = @ + 1]
    /\ UNCHANGED fe

FeInit == fe = NoEngine /\ ft \in {NewTimeEngines(p) : p \in FtParams}

FeNext == FeCreate \/ FeUpdate
FtNext == TimeStartUpdate \/ TimeEndUpdate

---------------------------------------------------------------------------
(* What an engine must have written at its n-th update, from its           *)
(* parameters alone: an arithmetic progression in the cyclic domain        *)
(* min..max, each value repeat times.                                      *)
FeStart(p) == IF p.min >= p.init THEN p.min ELSE p.init
FeTurns(p, n) == IF p.repeat = 0 THEN n - 1 ELSE (n - 1) \div p.repeat
FeExpected(p, n) ==
    LET size == p.max - p.min + 1
        move == FeTurns(p, n) * p.step
        k == FeStart(p) - p.min
    IN  IF p.op = "inc" THEN p.min + ((k + move) % size)
        ELSE p.min + ((k - move) % size)

(* A reader of the packet sees the value a numeric engine is defined to    *)
(* write: the progression of the step for inc and dec, whatever wraps in   *)
(* 64 bits on the way and although the step was reduced at creation, and   *)
(* a number of the domain for rand.                                        *)
FeExact ==
    fe.par.kind \in {"uint", "int"} /\ fe.n > 0 =>
      LET p == fe.par
          seen == IF p.kind = "uint" THEN ReadUint(p.size, fe.out) ELSE ReadInt(p.size, fe.out)
      IN  IF p.op = "rand" THEN seen \in p.min..p.max ELSE seen = FeExpected(p, fe.n)

(* A list engine writes, at its n-th update, the entry n - 1 steps from    *)
(* the first one around the list, and a reader of the field sees that      *)
(* entry: the number, or the string and its padding.                       *)
FeListExact ==
    fe.par.kind = "list" /\ fe.n > 0 =>
      LET p == fe.par
          move == (fe.n - 1) * p.step
          at == CASE p.op = "inc" -> {(p.init + move) % Len(p.list)}
                  [] p.op = "dec" -> {(p.init - move) % Len(p.list)}
                  [] OTHER -> 0..(Len(p.list) - 1)
      IN  \E i \in at :
            LET x == p.list[i + 1]
            IN  CASE p.type = "uint" -> ReadUint(p.size, fe.out) = x
                  [] p.type = "int" -> ReadInt(p.size, fe.out) = x
                  [] p.type = "float" -> p.size \in {4, 8} => fe.out = PutValue(p.size, x)
                  [] OTHER -> Len(fe.out) = p.size /\ SubSeq(fe.out, 1, Len(x)) = x

(* The flow records two time engines write follow each other: each lasts   *)
(* between the configured durations and starts a configured gap after the  *)
(* end of the one before, when the start field comes first in the record.  *)
FtFollows ==
    /\ ft.at = "start" /\ ft.n > 0 =>
         ft.rec.end - ft.rec.start \in ft.par.durMin..ft.par.durMax
    /\ ft.at = "end" /\ ft.n > 0 =>
         ft.rec.start - ft.last.end \in ft.par.ipgMin..ft.par.ipgMax

-----------------------------------------------------------------------------
(***************************************************************************)
(* The histogram engines of field_engine/engine.go and the non uniform     *)
(* generator below them (non_uni_rand_gen.go).                             *)
(*                                                                         *)
(* gen builds the generator: the probabilities are scaled to GenUnit and   *)
(* decomposed, one binary distribution at a time, so that a draw takes     *)
(* constant time.  hist is a histogram engine whose entries write into a   *)
(* buffer that is used again for every packet.                             *)
(***************************************************************************)
CONSTANTS GenUnit,        \* math.MaxUint32, the probability 1
          GenPart,        \* 1000: one part in GenPart is not noticed
          GenDists,       \* the lists of probabilities tried
          HistByte,       \* values of a byte, 256
          HistSizes,      \* the field sizes tried
          HistEntries,    \* the entries tried
          SizeMod,        \* one more than the largest uint16
          MaxDraws

VARIABLES gen, hist
histvars == <<gen, hist>>

U32(x) == x % (GenUnit + 1)
Total(d) == FoldSeq(LAMBDA x, acc : x + acc, 0, d)
NonZero(d) == Cardinality({i \in DOMAIN d : d[i] # 0})

---------------------------------------------------------------------------
(* Normalisation.                                                          *)

(* scale: floatToUInt(dist / sum) is the product of two rounded floats,    *)
(* which may fall just below a result that is exact.                       *)
Exact(d) == {i \in DOMAIN d : d[i] # 0 /\ (d[i] * GenUnit) % Total(d) = 0}
scale(d) ==
    {[i \in DOMAIN d |-> ((d[i] * GenUnit) \div Total(d)) - (IF i \in low THEN 1 ELSE 0)] :
       low \in SUBSET Exact(d)}

MaxId(d) == CHOOSE i \in DOMAIN d :
              /\ \A j \in DOMAIN d : d[j] <= d[i]
              /\ \A j \in 1..(i - 1) : d[j] < d[i]

Leftover(d) == U32(GenUnit - U32(Total(d)))
FitsMax(d) == Leftover(d) <= d[MaxId(d)] \div GenPart
tryDistributingLeftoverToMax(d) == [d EXCEPT ![MaxId(d)] = U32(@ + Leftover(d))]

(* The factor uint32(UIntToFloat(dist)) is 0 unless dist is the whole unit.*)
distributeLeftoverRelatively(d) ==
    [i \in DOMAIN d |-> U32(d[i] + (IF d[i] = GenUnit THEN Leftover(d) ELSE 0))]

distributeLeftoverAsOnes(d) ==
    [i \in DOMAIN d |-> U32(d[i] + (IF i <= Leftover(d) THEN 1 ELSE 0))]

distributeLeftover(d) ==
    IF FitsMax(d) THEN tryDistributingLeftoverToMax(d)
    ELSE LET r == distributeLeftoverRelatively(d)
         IN  IF FitsMax(r) THEN tryDistributingLeftoverToMax(r)
             ELSE IF Leftover(r) > Len(r) THEN r
             ELSE distributeLeftoverAsOnes(r)

(* NewNonUniformRandGen up to decompose.  The refusals: only zeros, a sum  *)
(* above the unit, and a normalisation that does not add up.               *)
normalizeTo(d) ==
    IF NonZero(d) = 1
    THEN {[i \in DOMAIN d |-> IF d[i] # 0 THEN GenUnit ELSE 0]}
    ELSE {distributeLeftover(s) : s \in scale(d)}

GenNormalize ==
    /\ gen.pc = "new"
    /\ IF NonZero(gen.input) = 0 \/ (NonZero(gen.input) > 1 /\ Total(gen.input) > GenUnit)
       THEN gen' = [gen EXCEPT !.pc = "refused"]
       ELSE \E d \in normalizeTo(gen.input) :
              gen' = IF Total(d) # GenUnit THEN [gen EXCEPT !.pc = "failed"]
                     ELSE [gen EXCEPT !.pc = "decompose", !.norm = d, !.dist = d,
                                      !.nz = NonZero(gen.input)]
    /\ UNCHANGED hist

---------------------------------------------------------------------------
(* Decomposition.  Indices start at 1 here, at 0 in the code, where an     *)
(* index that is not found stays 0.                                        *)

Threshold(nz) == GenUnit \div (nz - 1)

FirstIndex(d, P(_)) ==
    IF \E i \in DOMAIN d : P(i) THEN Min({i \in DOMAIN d : P(i)}) ELSE 1

findSmall(d, t) == FirstIndex(d, LAMBDA i : d[i] <= t /\ d[i] # 0)
findBig(d, t, small) == FirstIndex(d, LAMBDA i : i # small /\ U32(d[i] + d[small]) >= t)

(* computeNewBinDist.                                                      *)
computeNewBinDist(g, small, big, nz, t) ==
    [g EXCEPT !.bins = Append(@, [a |-> small, b |-> big, prob |-> U32(g.dist[small] * (nz - 1))]),
              !.dist = [@ EXCEPT ![big] = U32(@ - (t - g.dist[small])), ![small] = 0]]

(* The one and two element lists are special cases.                        *)
decomposeShort ==
    /\ gen.pc = "decompose" /\ Len(gen.dist) <= 2
    /\ gen' = [gen EXCEPT !.pc = "done",
                 !.bins = IF Len(gen.dist) = 1 THEN <<[a |-> 1, b |-> 1, prob |-> 0]>>
                          ELSE <<[a |-> 1, b |-> 2, prob |-> gen.dist[1]]>>]
    /\ UNCHANGED hist

(* One turn of the loop: it ends when neither index is found, and once     *)
(* all binary distributions are made the rest is cleared.                  *)
decompose ==
    /\ gen.pc = "decompose" /\ Len(gen.dist) > 2
    /\ LET nz == IF gen.nz < 2 THEN 2 ELSE gen.nz
           t == Threshold(nz)
           small == findSmall(gen.dist, t)
           big == findBig(gen.dist, t, small)
       IN  IF small = 1 /\ big = 1
           THEN gen' = [gen EXCEPT !.pc = IF Len(gen.bins) = nz - 1 THEN "done" ELSE "failed"]
           ELSE IF small = big THEN gen' = [gen EXCEPT !.pc = "failed"]
           ELSE LET g == computeNewBinDist(gen, small, big, nz, t)
                IN  gen' = IF Len(g.bins) = nz - 1
                           THEN [g EXCEPT !.dist = [i \in DOMAIN g.dist |-> 0]]
                           ELSE g
    /\ UNCHANGED hist

---------------------------------------------------------------------------
(* The types of numeric entries: a single value, a range or a list, of     *)
(* either sign, in words of 4 or of 8 bytes.                               *)

HistogramUInt32 == [k |-> "value", signed |-> FALSE, sizes |-> {1, 2, 4}, word |-> 4]
HistogramInt32 == [k |-> "value", signed |-> TRUE, sizes |-> {1, 2, 4}, word |-> 4]
HistogramUInt32Range == [k |-> "range", signed |-> FALSE, sizes |-> {1, 2, 4}, word |-> 4]
HistogramInt32Range == [k |-> "range", signed |-> TRUE, sizes |-> {1, 2, 4}, word |-> 4]
HistogramUInt32List == [k |-> "list", signed |-> FALSE, sizes |-> {1, 2, 4}, word |-> 4]
HistogramInt32List == [k |-> "list", signed |-> TRUE, sizes |-> {1, 2, 4}, word |-> 4]
HistogramUInt64 == [k |-> "value", signed |-> FALSE, sizes |-> {8}, word |-> 8]
HistogramInt64 == [k |-> "value", signed |-> TRUE, sizes |-> {8}, word |-> 8]
HistogramUInt64Range == [k |-> "range", signed |-> FALSE, sizes |-> {8}, word |-> 8]
HistogramInt64Range == [k |-> "range", signed |-> TRUE, sizes |-> {8}, word |-> 8]
HistogramUInt64List == [k |-> "list", signed |-> FALSE, sizes |-> {8}, word |-> 8]
HistogramInt64List == [k |-> "list", signed |-> TRUE, sizes |-> {8}, word |-> 8]
HistogramString == [k |-> "string"]
HistogramURL == [k |-> "url"]

Capacity(n) == HistByte ^ n
Uint(n, x) == x % Capacity(n)
Sint(n, x) == LET u == Uint(n, x) IN IF u >= Capacity(n) \div 2 THEN u - Capacity(n) ELSE u

(* The length of a signed range is computed in 8 bytes, where only the     *)
(* range of all values does not fit.                                       *)
SDomain(e) == IF e.hi - e.lo + 1 = Capacity(8) THEN Capacity(8) - 1 ELSE e.hi - e.lo + 1

(* GetValue of the numeric entries: the possible values.  An unsigned      *)
(* range divides by max - min + 1 in its own word, which is 0 for a range  *)
(* as wide as the word: there is no value, the program panics.             *)
FullRange(e) == e.t.k = "range" /\ ~e.t.signed /\ Uint(e.t.word, e.hi - e.lo + 1) = 0
GetNumbers(e) ==
    LET w == e.t.word
    IN  CASE e.t.k = "value" -> {e.v}
          [] e.t.k = "list" -> Range(e.list)
          [] e.t.k = "range" /\ ~e.t.signed ->
               IF FullRange(e) THEN {}
               ELSE {Uint(w, e.lo + (g % Uint(w, e.hi - e.lo + 1))) : g \in 0..(Capacity(w) - 1)}
          [] OTHER -> {Sint(w, e.lo + Sint(w, g % SDomain(e))) : g \in 0..(Capacity(8) - 1)}

(* The Create functions accept only what fits the size.                    *)
FitsSize(e, v) ==
    IF e.t.signed THEN v \in -(Capacity(e.size) \div 2)..(Capacity(e.size) \div 2 - 1)
    ELSE v \in 0..(Capacity(e.size) - 1)
ValidNumbers(e) ==
    /\ e.size \in e.t.sizes
    /\ CASE e.t.k = "value" -> FitsSize(e, e.v)
         [] e.t.k = "list" -> e.list # <<>> /\ \A i \in DOMAIN e.list : FitsSize(e, e.list[i])
         [] OTHER -> e.lo <= e.hi /\ FitsSize(e, e.lo) /\ FitsSize(e, e.hi)

(* putValueInBuffer: the low bytes, most significant first.                *)
putValueInBuffer(e, v) ==
    [i \in 1..e.size |-> (Uint(e.size, v) \div Capacity(e.size - i)) % HistByte]
ReadNumber(e, b) ==
    LET w == FoldSeq(LAMBDA i, acc : acc + (b[i] * Capacity(e.size - i)), 0, [i \in 1..e.size |-> i])
    IN  IF e.t.signed THEN Sint(e.size, w) ELSE w

(* String entries, padded at creation when asked for.                      *)
processString(e) ==
    IF e.pad THEN e.str \o [i \in 1..(e.size - Len(e.str)) |-> e.padding] ELSE e.str

(* URL entries: only lengths matter.  A part of an URL has the length of   *)
(* the user's string (raw) and the one url.String makes of it (enc), which *)
(* escapes hosts and paths and puts a / before a path that has none.       *)
(* Schemes and hosts are taken as non-empty strings.                       *)
NoPart == [raw |-> 0, enc |-> 0]
longestString(list) ==
    IF \A i \in DOMAIN list : list[i].raw = 0 THEN NoPart
    ELSE list[Min({i \in DOMAIN list : \A j \in DOMAIN list : list[j].raw <= list[i].raw})]

UrlLen(s, h, p) == s.enc + 3 + h.enc + p.enc
QueryLen(q) == IF q.enc = 0 THEN 0 ELSE 1 + q.enc

(* The URL of the longest strings must fit, as it is written.              *)
validateURL(e) ==
    /\ e.schemes # <<>> /\ e.hosts # <<>>
    /\ ~(e.queries # <<>> /\ e.random)
    /\ LET base == UrlLen(longestString(e.schemes), longestString(e.hosts), longestString(e.paths))
       IN  base + (IF e.random THEN 3 ELSE QueryLen(longestString(e.queries))) <= e.size

(* What comes before the query, and the space left for a random one, which *)
(* wraps around when another choice than the longest strings is longer     *)
(* once it is written.  rand.Intn panics when its argument wraps to 0.     *)
UrlBases(e) == {UrlLen(s, h, p) : s \in Range(e.schemes), h \in Range(e.hosts),
                                  p \in Range(e.paths) \cup {NoPart}}
queryMaxSize(e, base) == (e.size - base - 3) % SizeMod
QueryPanics(e, base) == e.random /\ (queryMaxSize(e, base) + 1) % SizeMod = 0

(* The lengths of the URLs.  Random queries longer than the field are      *)
(* refused all alike and one length stands for them.                       *)
generateURL(e) ==
    UNION {IF e.random THEN {base + 3 + q : q \in 0..Min({queryMaxSize(e, base), e.size})}
           ELSE {base + QueryLen(q) : q \in Range(e.queries) \cup {NoPart}} :
             base \in {b \in UrlBases(e) : ~QueryPanics(e, b)}}

ValidEntry(e) ==
    CASE e.t.k = "string" -> Len(e.str) <= e.size
      [] e.t.k = "url" -> validateURL(e)
      [] OTHER -> ValidNumbers(e)

(* What an entry may hand to the engine.                                   *)
GetValues(e) ==
    CASE e.t.k = "string" -> {processString(e)}
      [] e.t.k = "url" -> {[i \in 1..n |-> 1] : n \in generateURL(e)}
      [] OTHER -> {putValueInBuffer(e, v) : v \in GetNumbers(e)}

(* HistogramEngine.Update: the field is cleared, then the value is copied  *)
(* to its beginning.  A value that is too long is refused.                 *)
OverWrite(buf, v) == [i \in DOMAIN buf |-> IF i <= Len(v) THEN v[i] ELSE buf[i]]
HistWrite(buf, v) == OverWrite([i \in DOMAIN buf |-> 0], v)

(* NewHistogramEngine: the entries fit the field of the engine.            *)
Entries == {e \in HistEntries : e.size = Len(hist.buf) /\ ValidEntry(e)}

(* The entries whose GetValue may panic.                                   *)
MayPanic(e) == CASE e.t.k = "url" -> \E base \in UrlBases(e) : QueryPanics(e, base)
                 [] OTHER -> FullRange(e)
HistDies ==
    /\ ~hist.panic
    /\ \E e \in Entries : MayPanic(e) /\ hist' = [hist EXCEPT !.panic = TRUE, !.of = e]
    /\ UNCHANGED gen

HistUpdate ==
    /\ hist.n < MaxDraws /\ ~hist.panic
    /\ \E e \in Entries : \E v \in GetValues(e) :
         hist' = IF Len(v) > e.size
                 THEN [hist EXCEPT !.n = @ + 1, !.err = TRUE, !.of = e,
                                   !.buf = [i \in DOMAIN hist.buf |-> 0]]
                 ELSE [hist EXCEPT !.n = @ + 1, !.err = FALSE, !.of = e, !.len = Len(v),
                                   !.buf = HistWrite(@, v)]
    /\ UNCHANGED gen

NewGen(d) == [pc |-> "new", input |-> d, norm |-> d, dist |-> d, nz |-> 0, bins |-> <<>>]
NewHistogramEngine(size) ==
    [n |-> 0, err |-> FALSE, panic |-> FALSE, len |-> 0, of |-> [t |-> [k |-> "none"]],
     buf |-> [i \in 1..size |-> 0]]

GenInit == gen \in {NewGen(d) : d \in GenDists}
HistInit == \E size \in HistSizes : hist = NewHistogramEngine(size)

GenNext == GenNormalize \/ decomposeShort \/ decompose
HistNext == HistUpdate \/ HistDies

---------------------------------------------------------------------------
(* The weight the finished generator gives to index i, in units of         *)
(* 1 / (GenUnit * number of binary distributions).                         *)
Weight(i) ==
    Total([k \in DOMAIN gen.bins |->
             (IF gen.bins[k].a = i THEN gen.bins[k].prob ELSE 0)
           + (IF gen.bins[k].b = i THEN GenUnit - gen.bins[k].prob ELSE 0)])

(* A list short enough for what the scaling loses, less than one per       *)
(* entry, to be one part in GenPart of the largest probability: up to      *)
(* 2072 entries in the code.  In a longer one the loss is handed out as    *)
(* ones, to entries of probability 0 too, which are not counted.           *)
ShortList == Len(gen.input) * Len(gen.input) * GenPart <= GenUnit

(* The generator draws every index with its probability: the weights of    *)
(* the binary distributions add up to the normalised probabilities, up to  *)
(* the remainder of dividing the unit among them.                          *)
GenFaithful ==
    gen.pc = "done" /\ ShortList =>
      LET k == Len(gen.bins)
      IN  \A i \in DOMAIN gen.norm :
            LET off == Weight(i) - (k * gen.norm[i])
            IN  -(k * (GenUnit % k)) <= off /\ off <= k * (GenUnit % k)

(* No short list of probabilities that has a positive one and adds up to   *)
(* at most the unit fails to normalise or to decompose.                    *)
GenSucceeds == gen.pc = "failed" => ~ShortList

(* An URL entry with a part that is longer once it is written: validation  *)
(* looks for the longest strings before they are escaped.                  *)
Grows(e) == e.t.k = "url" /\ \E part \in Range(e.hosts) \cup Range(e.paths) : part.enc > part.raw

(* A packet shows one value of the picked entry and nothing of the packet  *)
(* before: a number reads back as a value of its entry, a shorter string   *)
(* is followed by zeros, and a valid entry fits its field.  The exceptions *)
(* are the URL entries of Grows, whose value may be too long or, with a    *)
(* random query, end the program, and the unsigned range of a whole word,  *)
(* which ends it.                                                          *)
HistExact ==
    /\ hist.panic => Grows(hist.of) \/ FullRange(hist.of)
    /\ hist.n > 0 /\ ~hist.panic =>
      LET e == hist.of
      IN  /\ hist.err => Grows(e)
          /\ \A i \in (hist.len + 1)..Len(hist.buf) : hist.buf[i] = 0
          /\ e.t.k = "value" => ReadNumber(e, hist.buf) = e.v
          /\ e.t.k = "range" => ReadNumber(e, hist.buf) \in e.lo..e.hi
          /\ e.t.k = "list" => ReadNumber(e, hist.buf) \in Range(e.list)
          /\ e.t.k = "string" => SubSeq(hist.buf, 1, Len(e.str)) = e.str

\* Every engine writes a value of its domain, in the order its operation promises, and the
\* histogram engines draw as their probabilities say.
EnginesSound == FeExact /\ FeListExact /\ FtFollows /\ GenFaithful /\ GenSucceeds /\ HistExact
=============================================================================
