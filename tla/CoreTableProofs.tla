---------------------------- MODULE CoreTableProofs ----------------------------
(***************************************************************************)
(* The tables and lists of the core (NsTables, ThreadCtx and the iterators *)
(* of EpocIter), for any sets of clients, addresses and namespaces.        *)
(*                                                                         *)
(* The address tables agree with the addresses of the clients: an update   *)
(* may delete the entry of the old address only because that entry is the  *)
(* client's own, and may give the client no address only because the old   *)
(* entry is already gone.                                                  *)
(*                                                                         *)
(* A list and its iterator are sound because of ListOK: while the epoc is  *)
(* the one of the reset, the iterator's node is the item behind those it   *)
(* gave out; once a node is linked or unlinked the epoc has moved past the *)
(* iterator's and never meets it again.                                    *)
(***************************************************************************)
EXTENDS NsTables, ThreadCtx, SequenceTheorems, TLAPS

-----------------------------------------------------------------------------
(* The lists of the core and their iterators *)

ListType(S) ==
    [items : Seq(S), epoc : Nat, iterEpoc : Nat, ready : BOOLEAN,
     cur : S \cup {Head_}, seen : Seq(S)]

\* what is known of a list over S: its items differ, and as long as it has not
\* changed since the reset the iterator points behind what it has given out
ListOK(l, S) ==
    /\ l \in ListType(S)
    /\ IsInjective(l.items)
    /\ l.iterEpoc <= l.epoc
    /\ l.iterEpoc = l.epoc =>
          /\ Len(l.seen) <= Len(l.items)
          /\ \A i \in 1..Len(l.seen) : l.seen[i] = l.items[i]
          /\ l.ready => Len(l.seen) < Len(l.items) /\ l.cur = l.items[Len(l.seen) + 1]
          /\ ~l.ready => Len(l.seen) = Len(l.items)

NewItems(l, t, e) == [l EXCEPT !.items = t, !.epoc = e]
MovedTo(l, t, c) == [l EXCEPT !.seen = t, !.cur = c, !.ready = TRUE]
MovedToEnd(l, t) == [l EXCEPT !.seen = t, !.cur = Head_, !.ready = FALSE]

\* The fields of a list with new items, and of one whose iterator has moved.
LEMMA NewItemsFields ==
    ASSUME NEW S, NEW l \in ListType(S), NEW t \in Seq(S), NEW e \in Nat
    PROVE  /\ NewItems(l, t, e) \in ListType(S)
           /\ NewItems(l, t, e).items = t /\ NewItems(l, t, e).epoc = e
           /\ NewItems(l, t, e).iterEpoc = l.iterEpoc
BY DEF ListType, NewItems

LEMMA MovedFields ==
    ASSUME NEW S, NEW l \in ListType(S), NEW t \in Seq(S), NEW c \in S
    PROVE  /\ MovedTo(l, t, c) \in ListType(S) /\ MovedTo(l, t, c).ready
           /\ MovedTo(l, t, c).seen = t /\ MovedTo(l, t, c).cur = c
           /\ MovedTo(l, t, c).items = l.items /\ MovedTo(l, t, c).epoc = l.epoc
           /\ MovedTo(l, t, c).iterEpoc = l.iterEpoc
BY DEF ListType, MovedTo

LEMMA EndFields ==
    ASSUME NEW S, NEW l \in ListType(S), NEW t \in Seq(S)
    PROVE  /\ MovedToEnd(l, t) \in ListType(S) /\ ~MovedToEnd(l, t).ready
           /\ MovedToEnd(l, t).seen = t
           /\ MovedToEnd(l, t).items = l.items /\ MovedToEnd(l, t).epoc = l.epoc
           /\ MovedToEnd(l, t).iterEpoc = l.iterEpoc
BY DEF ListType, MovedToEnd

\* Sequences of the same length with the same elements are the same.
LEMMA SameSequence ==
    ASSUME NEW S, NEW s \in Seq(S), NEW t \in Seq(S), Len(s) = Len(t),
           \A i \in 1..Len(s) : s[i] = t[i]
    PROVE  s = t
OBVIOUS

\* What ListOK says of the answers is what the RPC client relies on.
LEMMA AnswersFollow ==
    ASSUME NEW S, NEW l, ListOK(l, S)
    PROVE  AnswersSound(l)
<1> SUFFICES ASSUME l.iterEpoc = l.epoc
             PROVE  IsPrefix(l.seen, l.items) /\ (~l.ready => l.seen = l.items)
  BY DEF AnswersSound
<1>1. /\ l.seen \in Seq(S) /\ l.items \in Seq(S) /\ Len(l.seen) <= Len(l.items)
      /\ \A i \in 1..Len(l.seen) : l.seen[i] = l.items[i]
  BY DEF ListOK, ListType
<1>2. IsPrefix(l.seen, l.items)
  <2> DEFINE a == SubSeq(l.seen, 1, Len(l.seen))
             b == SubSeq(l.items, 1, Len(l.seen))
  <2>1. a \in Seq(S) /\ b \in Seq(S) /\ Len(a) = Len(l.seen) /\ Len(b) = Len(l.seen)
    BY <1>1
  <2>2. \A i \in 1..Len(a) : a[i] = b[i]
    BY <1>1, <2>1
  <2>3. a = b
    BY <2>1, <2>2, SameSequence
  <2> QED BY <1>1, <2>3 DEF IsPrefix
<1>3. ASSUME ~l.ready PROVE l.seen = l.items
  BY <1>1, <1>3, SameSequence DEF ListOK, ListType
<1> QED BY <1>2, <1>3

\* RemoveAt of a sequence, element by element.
LEMMA RemovedAt ==
    ASSUME NEW S, NEW s \in Seq(S), NEW i \in 1..Len(s)
    PROVE  /\ RemoveAt(s, i) \in Seq(S)
           /\ Len(RemoveAt(s, i)) = Len(s) - 1
           /\ \A j \in 1..Len(s) - 1 : RemoveAt(s, i)[j] = IF j < i THEN s[j] ELSE s[j + 1]
<1> DEFINE a == SubSeq(s, 1, i - 1)
           b == SubSeq(s, i + 1, Len(s))
<1>1. a \in Seq(S) /\ Len(a) = i - 1 /\ \A j \in 1..i - 1 : a[j] = s[j]
  OBVIOUS
<1>2. b \in Seq(S) /\ Len(b) = Len(s) - i /\ \A j \in 1..Len(s) - i : b[j] = s[j + i]
  OBVIOUS
<1> HIDE DEF a, b
<1>3. a \o b \in Seq(S) /\ Len(a \o b) = Len(s) - 1
  <2>1. a \in Seq(S) /\ b \in Seq(S)
    BY <1>1, <1>2
  <2>2. a \o b \in Seq(S) /\ Len(a \o b) = Len(a) + Len(b)
    BY <2>1
  <2> QED BY <1>1, <1>2, <2>2
<1>5. \A j \in 1..Len(a) + Len(b) : (a \o b)[j] = IF j <= Len(a) THEN a[j] ELSE b[j - Len(a)]
  BY <1>1, <1>2
<1>4. \A j \in 1..Len(s) - 1 : (a \o b)[j] = IF j < i THEN s[j] ELSE s[j + 1]
  <2> SUFFICES ASSUME NEW j \in 1..Len(s) - 1
               PROVE  (a \o b)[j] = IF j < i THEN s[j] ELSE s[j + 1]
    OBVIOUS
  <2>1. CASE j < i
    BY <1>1, <1>2, <1>5, <2>1
  <2>2. CASE ~(j < i)
    <3>1. j - Len(a) \in 1..Len(s) - i /\ j - Len(a) + i = j + 1 /\ ~(j <= Len(a))
      BY <1>1, <2>2
    <3>2. (a \o b)[j] = b[j - Len(a)]
      BY <1>1, <1>2, <1>5, <3>1
    <3>3. b[j - Len(a)] = s[(j - Len(a)) + i]
      BY <1>2, <3>1
    <3> QED BY <2>2, <3>1, <3>2, <3>3
  <2> QED BY <2>1, <2>2
<1> QED BY <1>3, <1>4 DEF RemoveAt, a, b

\* The position of an item of a list is where it is.
LEMMA PositionOf ==
    ASSUME NEW S, NEW s \in Seq(S), IsInjective(s), NEW i \in 1..Len(s)
    PROVE  Position(s, s[i]) = i
<1>1. DOMAIN s = 1..Len(s)
  OBVIOUS
<1>2. PICK j \in DOMAIN s : j = Position(s, s[i]) /\ s[j] = s[i]
  BY <1>1 DEF Position
<1> QED BY <1>1, <1>2 DEF IsInjective

\* AddLast of an item that is not in the list.
LEMMA AppendedOK ==
    ASSUME NEW S, NEW l, ListOK(l, S), NEW x \in S, x \notin Range(l.items)
    PROVE  /\ ListOK(Appended(l, x), S)
           /\ Range(Appended(l, x).items) = Range(l.items) \cup {x}
           /\ Len(Appended(l, x).items) = Len(l.items) + 1
<1> DEFINE t == Append(l.items, x)
           L == Appended(l, x)
<1>1. l.items \in Seq(S) /\ l.epoc \in Nat /\ l.iterEpoc \in Nat /\ l.iterEpoc <= l.epoc
  BY DEF ListOK, ListType
<1>2. /\ t \in Seq(S) /\ Len(t) = Len(l.items) + 1 /\ t[Len(l.items) + 1] = x
      /\ \A i \in 1..Len(l.items) : t[i] = l.items[i]
  BY <1>1
<1>3. /\ L.items = t /\ L.epoc = l.epoc + 1 /\ L.iterEpoc = l.iterEpoc
      /\ L \in ListType(S)
  <2>1. l \in ListType(S) BY DEF ListOK
  <2>2. l.epoc + 1 \in Nat BY <1>1
  <2>3. L = NewItems(l, t, l.epoc + 1) BY DEF Appended, NewItems
  <2>4. t \in Seq(S) BY <1>2
  <2> DEFINE e == l.epoc + 1
  <2> HIDE DEF L, t, e
  <2>5. /\ NewItems(l, t, e) \in ListType(S)
        /\ NewItems(l, t, e).items = t /\ NewItems(l, t, e).epoc = e
        /\ NewItems(l, t, e).iterEpoc = l.iterEpoc
    BY <2>1, <2>2, <2>4, NewItemsFields DEF e
  <2> QED BY <2>3, <2>5 DEF e
<1> HIDE DEF t, L
<1>4. DOMAIN t = 1..Len(l.items) + 1 /\ DOMAIN l.items = 1..Len(l.items)
  BY <1>1, <1>2
<1>5. IsInjective(t)
  <2>1. IsInjective(l.items) /\ \A i \in 1..Len(l.items) : l.items[i] # x
    BY <1>4 DEF ListOK, Range
  <2> SUFFICES ASSUME NEW i \in DOMAIN t, NEW j \in DOMAIN t, t[i] = t[j] PROVE i = j
    BY DEF IsInjective
  <2>2. /\ i \in 1..Len(l.items) \/ i = Len(l.items) + 1
        /\ j \in 1..Len(l.items) \/ j = Len(l.items) + 1
    BY <1>1, <1>4
  <2>3. CASE i \in 1..Len(l.items) /\ j \in 1..Len(l.items)
    BY <1>2, <1>4, <2>1, <2>3 DEF IsInjective
  <2>4. CASE ~(i \in 1..Len(l.items) /\ j \in 1..Len(l.items))
    BY <1>2, <2>1, <2>2, <2>4
  <2> QED BY <2>3, <2>4
<1>6. Range(t) = Range(l.items) \cup {x}
  BY <1>1, <1>2, <1>4 DEF Range
<1>7. ListOK(L, S)
  BY <1>1, <1>3, <1>5 DEF ListOK
<1> QED BY <1>2, <1>3, <1>6, <1>7 DEF L

\* RemoveNode of an item of the list.
LEMMA UnlinkedOK ==
    ASSUME NEW S, NEW l, ListOK(l, S), NEW x \in Range(l.items)
    PROVE  /\ ListOK(Unlinked(l, x), S)
           /\ Range(Unlinked(l, x).items) = Range(l.items) \ {x}
           /\ Len(Unlinked(l, x).items) = Len(l.items) - 1
<1> DEFINE s == l.items
           L == Unlinked(l, x)
<1>1. s \in Seq(S) /\ IsInjective(s) /\ l.epoc \in Nat /\ l.iterEpoc \in Nat /\ l.iterEpoc <= l.epoc
  BY DEF ListOK, ListType
<1>2. DOMAIN s = 1..Len(s)
  BY <1>1
<1> DEFINE p == Position(s, x)
<1>3. p \in 1..Len(s) /\ s[p] = x
  BY <1>1, <1>2 DEF Position, Range
<1> HIDE DEF p
<1> DEFINE t == RemoveAt(s, p)
<1>5. /\ t \in Seq(S) /\ Len(t) = Len(s) - 1
      /\ \A j \in 1..Len(s) - 1 : t[j] = IF j < p THEN s[j] ELSE s[j + 1]
  BY <1>1, <1>3, RemovedAt
<1>6. /\ L.items = t /\ L.epoc = l.epoc + 1 /\ L.iterEpoc = l.iterEpoc
      /\ L \in ListType(S)
  <2>1. l \in ListType(S) BY DEF ListOK
  <2>2. l.epoc + 1 \in Nat BY <1>1
  <2>3. L = NewItems(l, t, l.epoc + 1) BY DEF Unlinked, NewItems, p
  <2>4. t \in Seq(S) BY <1>5
  <2> HIDE DEF L, t
  <2> QED BY <2>1, <2>2, <2>3, <2>4, NewItemsFields
<1>7. DOMAIN t = 1..Len(s) - 1
  BY <1>1, <1>5
<1> HIDE DEF t, L
<1>8. IsInjective(t)
  <2> SUFFICES ASSUME NEW a \in 1..Len(s) - 1, NEW b \in 1..Len(s) - 1, t[a] = t[b] PROVE a = b
    BY <1>7 DEF IsInjective
  <2> DEFINE up(j) == IF j < p THEN j ELSE j + 1
  <2>1. up(a) \in 1..Len(s) /\ up(b) \in 1..Len(s) /\ t[a] = s[up(a)] /\ t[b] = s[up(b)]
    BY <1>1, <1>5
  <2>2. up(a) = up(b)
    BY <1>1, <1>2, <2>1 DEF IsInjective
  <2> QED BY <1>3, <2>2
<1>9. Range(t) = Range(s) \ {x}
  <2>1. ASSUME NEW y \in Range(t) PROVE y \in Range(s) \ {x}
    <3>1. PICK j \in 1..Len(s) - 1 : t[j] = y
      BY <1>7, <2>1 DEF Range
    <3>2. PICK k \in 1..Len(s) : k # p /\ y = s[k]
      <4>1. CASE j < p BY <1>1, <1>3, <1>5, <3>1, <4>1
      <4>2. CASE ~(j < p)
        <5>1. j + 1 \in 1..Len(s) /\ j + 1 # p /\ y = s[j + 1]
          BY <1>1, <1>3, <1>5, <3>1, <4>2
        <5> QED BY <5>1
      <4> QED BY <4>1, <4>2
    <3> QED BY <1>1, <1>2, <1>3, <3>2 DEF IsInjective, Range
  <2>2. ASSUME NEW y \in Range(s) \ {x} PROVE y \in Range(t)
    <3>1. PICK k \in 1..Len(s) : s[k] = y
      BY <1>2, <2>2 DEF Range
    <3>2. k # p
      BY <1>3, <3>1, <2>2
    <3>3. PICK j \in 1..Len(s) - 1 : t[j] = y
      <4>1. CASE k < p
        <5>1. k \in 1..Len(s) - 1
          BY <4>1, <1>1, <1>3
        <5> QED BY <1>5, <3>1, <4>1, <5>1
      <4>2. CASE k > p
        <5>1. k - 1 \in 1..Len(s) - 1 /\ ~(k - 1 < p) /\ (k - 1) + 1 = k
          BY <1>1, <1>3, <4>2
        <5> QED BY <1>5, <3>1, <5>1
      <4> QED BY <1>1, <1>3, <3>2, <4>1, <4>2
    <3> QED BY <1>7, <3>3 DEF Range
  <2> QED BY <2>1, <2>2
<1>10. ListOK(L, S)
  BY <1>1, <1>6, <1>8 DEF ListOK
<1> QED BY <1>5, <1>6, <1>9, <1>10 DEF L

GivenOut(l, before) ==
    Len(before) <= Len(l.items) /\ \A i \in 1..Len(before) : before[i] = l.items[i]

\* GetNext of an iterator at pos that has given out the items before pos.
LEMMA GetNextOK ==
    ASSUME NEW S, NEW l \in ListType(S), IsInjective(l.items), l.iterEpoc = l.epoc, NEW n \in Nat,
           NEW before \in Seq(S), GivenOut(l, before), NEW pos, pos = Len(before) + 1
    PROVE  ListOK(GetNext(l, pos, before, n), S) /\ GetNext(l, pos, before, n).items = l.items
<1> DEFINE s == l.items
           L == GetNext(l, pos, before, n)
           stop == IF pos + n <= Len(s) + 1 THEN pos + n ELSE Len(s) + 1
           part == SubSeq(s, pos, stop - 1)
           out == before \o part
<1>1. s \in Seq(S) /\ l.epoc \in Nat /\ l.iterEpoc \in Nat
  BY DEF ListType
<1>2. pos \in 1..Len(s) + 1 /\ stop \in pos..Len(s) + 1
  BY <1>1 DEF GivenOut
<1> HIDE DEF stop
<1>3. part \in Seq(S) /\ Len(part) = stop - pos /\ \A j \in 1..stop - pos : part[j] = s[j + pos - 1]
  BY <1>1, <1>2, SMTT(30)
<1> HIDE DEF part
<1>4. out \in Seq(S) /\ Len(out) = stop - 1
  BY <1>2, <1>3
<1>5. \A i \in 1..Len(out) : out[i] = s[i]
  BY <1>1, <1>2, <1>3, <1>4 DEF GivenOut
<1>6. /\ L.items = s /\ L.epoc = l.epoc /\ L.iterEpoc = l.iterEpoc
      /\ L.seen = out /\ (L.ready <=> stop <= Len(s))
      /\ stop <= Len(s) => L.cur = s[stop]
      /\ L \in ListType(S)
  <2>1. out \in Seq(S)
    BY <1>4
  <2>2. CASE stop <= Len(s)
    <3>1. s[stop] \in S
      BY <1>1, <1>2, <2>2
    <3>2. L = MovedTo(l, out, s[stop])
      BY <1>1, <1>2, <2>2 DEF GetNext, MovedTo, stop, part, out
    <3> HIDE DEF L, out
    <3> QED BY <2>1, <2>2, <3>1, <3>2, MovedFields
  <2>3. CASE stop > Len(s)
    <3>1. L = MovedToEnd(l, out)
      BY <1>1, <1>2, <2>3 DEF GetNext, MovedToEnd, stop, part, out
    <3> HIDE DEF L, out
    <3>2. /\ L.items = s /\ L.epoc = l.epoc /\ L.iterEpoc = l.iterEpoc
          /\ L.seen = out /\ ~L.ready /\ L \in ListType(S)
      BY <2>1, <3>1, EndFields
    <3> QED BY <1>1, <1>2, <2>3, <3>2
  <2> QED BY <1>1, <1>2, <2>2, <2>3
<1> HIDE DEF L, out
<1>7. ListOK(L, S)
  BY <1>1, <1>2, <1>4, <1>5, <1>6 DEF ListOK
<1> QED BY <1>6, <1>7 DEF L

\* GetNext of an iterator that was reset.
LEMMA FromTheStart ==
    ASSUME NEW S, NEW l \in ListType(S), IsInjective(l.items), l.iterEpoc = l.epoc, NEW n \in Nat
    PROVE  ListOK(GetNext(l, 1, <<>>, n), S) /\ GetNext(l, 1, <<>>, n).items = l.items
<1>1. \A before \in Seq(S), pos \in Nat : pos = Len(before) + 1 /\ GivenOut(l, before) =>
          ListOK(GetNext(l, pos, before, n), S) /\ GetNext(l, pos, before, n).items = l.items
  BY GetNextOK
<1>2. <<>> \in Seq(S) /\ 1 \in Nat /\ 1 = Len(<<>>) + 1 /\ GivenOut(l, <<>>)
  BY DEF GivenOut, ListType
<1> QED BY <1>1, <1>2, Zenon

\* An iteration request keeps what is known of the list and leaves its items.
LEMMA IterRpcOK ==
    ASSUME NEW S, NEW l, NEW l2, ListOK(l, S), IterRpc(l, l2)
    PROVE  ListOK(l2, S) /\ l2.items = l.items
<1>1. PICK n \in Counts : l2 = IterReset(l, n) \/ (CanGoOn(l) /\ l2 = IterNext(l, n))
  BY DEF IterRpc
<1>2. n \in Nat
  BY CountsAssumption
<1>3. CASE l2 = IterReset(l, n)
  <2> DEFINE r == [l EXCEPT !.iterEpoc = l.epoc]
  <2>1. r \in ListType(S) /\ r.items = l.items /\ r.iterEpoc = r.epoc /\ IsInjective(r.items)
    BY DEF ListOK, ListType
  <2> HIDE DEF r
  <2>2. ListOK(GetNext(r, 1, <<>>, n), S) /\ GetNext(r, 1, <<>>, n).items = r.items
    BY <1>2, <2>1, FromTheStart
  <2> QED BY <1>3, <2>1, <2>2 DEF IterReset, r
<1>4. CASE CanGoOn(l) /\ l2 = IterNext(l, n)
  <2>1. /\ l.iterEpoc = l.epoc /\ l.seen \in Seq(S) /\ l.items \in Seq(S) /\ IsInjective(l.items)
        /\ Len(l.seen) < Len(l.items) /\ l.cur = l.items[Len(l.seen) + 1]
        /\ \A i \in 1..Len(l.seen) : l.seen[i] = l.items[i]
    BY <1>4 DEF CanGoOn, ListOK, ListType
  <2>2. Len(l.seen) + 1 \in 1..Len(l.items)
    BY <2>1
  <2>3. Position(l.items, l.cur) = Len(l.seen) + 1
    BY <2>1, <2>2, PositionOf
  <2>4. l \in ListType(S) /\ GivenOut(l, l.seen)
    BY <2>1 DEF ListOK, GivenOut
  <2>5. ListOK(IterNext(l, n), S) /\ IterNext(l, n).items = l.items
    BY <1>2, <2>1, <2>3, <2>4, GetNextOK DEF IterNext
  <2> QED BY <1>4, <2>5
<1> QED BY <1>1, <1>3, <1>4

-----------------------------------------------------------------------------
(* The address tables *)

TablesInv == TypeOK /\ Ipv4TableExact /\ Ipv6TableExact

\* Every table is empty at start.
LEMMA InitTables == Init => TablesInv
BY TableAssumption DEF Init, TablesInv, TypeOK, Ipv4TableExact, Ipv6TableExact, Addr4, Addr6

\* Writing an entry keeps the type of a table.
LEMMA PutType ==
    ASSUME NEW A, NEW map \in [A -> Macs \cup {NoClient}], NEW a, NEW m \in Macs \cup {NoClient}
    PROVE  /\ Put(map, a, m) \in [A -> Macs \cup {NoClient}]
           /\ \A x \in A : Put(map, a, m)[x] = IF x = a THEN m ELSE map[x]
           /\ Del(map, a) \in [A -> Macs \cup {NoClient}]
           /\ \A x \in A : Del(map, a)[x] = IF x = a THEN NoClient ELSE map[x]
BY DEF Put, Del

\* AddClient gives the new client entries nobody had.
LEMMA AddTables ==
    ASSUME TablesInv, NEW m \in Macs, NEW a4 \in Addr4, NEW a6 \in Addr6, AddClient(m, a4, a6)
    PROVE  TablesInv'
<1> USE DEF TablesInv, TypeOK
<1>1. TypeOK'
  <2>1. mapIpv4' \in [Ipv4s -> Macs \cup {NoClient}]
    BY PutType DEF AddClient
  <2>2. mapIpv6' \in [Ipv6s -> Macs \cup {NoClient}]
    BY PutType DEF AddClient
  <2> QED BY <2>1, <2>2 DEF AddClient, Addr6
<1>2. Ipv4TableExact'
  BY <1>1, TableAssumption DEF AddClient, Ipv4TableExact, Put, Has, Addr4
<1>3. Ipv6TableExact'
  BY <1>1, TableAssumption DEF AddClient, Ipv6TableExact, Put, Has, Addr6
<1> QED BY <1>1, <1>2, <1>3

\* RemoveClient deletes the entries of the client and no other.
LEMMA RemoveTables ==
    ASSUME TablesInv, NEW m \in Macs, RemoveClient(m)
    PROVE  TablesInv'
<1> USE DEF TablesInv, TypeOK
<1>1. TypeOK'
  <2>1. mapIpv6' \in [Ipv6s -> Macs \cup {NoClient}]
    BY PutType DEF RemoveClient
  <2>2. mapIpv4' \in [Ipv4s -> Macs \cup {NoClient}]
    BY PutType DEF RemoveClient
  <2> QED BY <2>1, <2>2 DEF RemoveClient
<1>2. Ipv4TableExact'
  BY <1>1, TableAssumption DEF RemoveClient, Ipv4TableExact, Put, Del, Addr4
<1>3. Ipv6TableExact'
  BY <1>1, TableAssumption DEF RemoveClient, Ipv6TableExact, Put, Del, Addr6
<1> QED BY <1>1, <1>2, <1>3

\* UpdateClientIpv4: the table still has the old address, so it is the
\* client's own entry that goes.
LEMMA UpdateIpv4Tables ==
    ASSUME TablesInv, NEW m \in Macs, NEW new \in Addr4, UpdateClientIpv4(m, new)
    PROVE  TablesInv'
<1> USE DEF TablesInv, TypeOK
<1> DEFINE old == ipv4[m]
           dropped == Del(mapIpv4, old)
<1>0. dropped \in [Ipv4s -> Macs \cup {NoClient}]
  BY PutType
<1>1. ~(old # Zero /\ ~Has(mapIpv4, old))
  BY TableAssumption DEF UpdateClientIpv4, Ipv4TableExact, Has, Addr4
<1>2. CASE Has(dropped, new)
  <2>1. mapIpv4' = dropped /\ ipv4' = [ipv4 EXCEPT ![m] = Zero]
    BY <1>1, <1>2 DEF UpdateClientIpv4
  <2>2. TypeOK'
    BY <1>0, <2>1 DEF UpdateClientIpv4, Addr4
  <2>3. Ipv4TableExact' /\ Ipv6TableExact'
    BY <2>1, TableAssumption DEF UpdateClientIpv4, Ipv4TableExact, Ipv6TableExact, Put, Del, Addr4
  <2> QED BY <2>2, <2>3
<1>3. CASE ~Has(dropped, new)
  <2>1. mapIpv4' = Put(dropped, new, m) /\ ipv4' = [ipv4 EXCEPT ![m] = new]
    BY <1>1, <1>3 DEF UpdateClientIpv4
  <2>2. TypeOK'
    <3>1. Put(dropped, new, m) \in [Ipv4s -> Macs \cup {NoClient}]
      BY <1>0, PutType
    <3> QED BY <3>1, <2>1 DEF UpdateClientIpv4, Addr4
  <2>3. Ipv4TableExact' /\ Ipv6TableExact'
    BY <2>1, <1>3, TableAssumption
    DEF UpdateClientIpv4, Ipv4TableExact, Ipv6TableExact, Put, Del, Has, Addr4
  <2> QED BY <2>2, <2>3
<1> QED BY <1>2, <1>3

\* What both IPv6 updates compute, given that the old address is the client's.
LEMMA Update6Result ==
    ASSUME TablesInv, NEW m \in mapMAC, NEW old \in {ipv6[m], dhcpv6[m]}, NEW new \in Addr6
    PROVE  LET u == Update6(m, old, new)
           IN  /\ u.addr \in {Zero, new}
               /\ u.map \in [Ipv6s -> Macs \cup {NoClient}]
               /\ \A a \in Ipv6s : u.map[a] = IF a = u.addr THEN m
                                              ELSE IF a = old THEN NoClient
                                              ELSE mapIpv6[a]
               /\ u.addr # Zero => (u.addr = old \/ mapIpv6[u.addr] = NoClient)
<1> USE DEF TablesInv, TypeOK
<1> DEFINE dropped == Del(mapIpv6, old)
<1>0. m \in Macs /\ dropped \in [Ipv6s -> Macs \cup {NoClient}]
  BY PutType
<1>1. ~(old # Zero /\ ~Has(mapIpv6, old))
  BY TableAssumption DEF Ipv6TableExact, Has, Addr6
<1>2. CASE Has(dropped, new)
  <2>1. Update6(m, old, new) = [addr |-> Zero, map |-> dropped]
    BY <1>1, <1>2 DEF Update6
  <2> QED BY <1>0, <2>1, TableAssumption DEF Del, Put
<1>3. CASE ~Has(dropped, new)
  <2>1. Update6(m, old, new) = [addr |-> new, map |-> Put(dropped, new, m)]
    BY <1>1, <1>3 DEF Update6
  <2>2. Put(dropped, new, m) \in [Ipv6s -> Macs \cup {NoClient}]
    BY <1>0, PutType
  <2> QED BY <1>0, <1>3, <2>1, <2>2, TableAssumption DEF Put, Del, Has, Addr6
<1> QED BY <1>2, <1>3

\* UpdateClientIpv6 keeps the tables exact.
LEMMA UpdateIpv6Tables ==
    ASSUME TablesInv, NEW m \in Macs, NEW new \in Addr6, UpdateClientIpv6(m, new)
    PROVE  TablesInv'
<1> USE DEF TablesInv, TypeOK
<1> DEFINE u == Update6(m, ipv6[m], new)
<1>1. m \in mapMAC /\ ipv6' = [ipv6 EXCEPT ![m] = u.addr] /\ mapIpv6' = u.map
  BY DEF UpdateClientIpv6
<1>2. /\ u.addr \in {Zero, new}
      /\ u.map \in [Ipv6s -> Macs \cup {NoClient}]
      /\ \A a \in Ipv6s : u.map[a] = IF a = u.addr THEN m
                                     ELSE IF a = ipv6[m] THEN NoClient
                                     ELSE mapIpv6[a]
      /\ u.addr # Zero => (u.addr = ipv6[m] \/ mapIpv6[u.addr] = NoClient)
  BY <1>1, Update6Result, SMTT(30)
<1> HIDE DEF u
<1>3. TypeOK'
  BY <1>1, <1>2, SMTT(30) DEF UpdateClientIpv6, Addr6
<1>4. Ipv4TableExact'
  BY DEF UpdateClientIpv6, Ipv4TableExact
<1>5. Ipv6TableExact'
  BY <1>1, <1>2, <1>3, TableAssumption DEF UpdateClientIpv6, Ipv6TableExact, Addr6
<1> QED BY <1>3, <1>4, <1>5

\* UpdateClientDIpv6 keeps the tables exact.
LEMMA UpdateDIpv6Tables ==
    ASSUME TablesInv, NEW m \in Macs, NEW new \in Addr6, UpdateClientDIpv6(m, new)
    PROVE  TablesInv'
<1> USE DEF TablesInv, TypeOK
<1> DEFINE u == Update6(m, dhcpv6[m], new)
<1>1. m \in mapMAC /\ dhcpv6' = [dhcpv6 EXCEPT ![m] = u.addr] /\ mapIpv6' = u.map
  BY DEF UpdateClientDIpv6
<1>2. /\ u.addr \in {Zero, new}
      /\ u.map \in [Ipv6s -> Macs \cup {NoClient}]
      /\ \A a \in Ipv6s : u.map[a] = IF a = u.addr THEN m
                                     ELSE IF a = dhcpv6[m] THEN NoClient
                                     ELSE mapIpv6[a]
      /\ u.addr # Zero => (u.addr = dhcpv6[m] \/ mapIpv6[u.addr] = NoClient)
  BY <1>1, Update6Result, SMTT(30)
<1> HIDE DEF u
<1>3. TypeOK'
  BY <1>1, <1>2, SMTT(30) DEF UpdateClientDIpv6, Addr6
<1>4. Ipv4TableExact'
  BY DEF UpdateClientDIpv6, Ipv4TableExact
<1>5. Ipv6TableExact'
  BY <1>1, <1>2, <1>3, TableAssumption DEF UpdateClientDIpv6, Ipv6TableExact, Addr6
<1> QED BY <1>3, <1>4, <1>5

\* Every step of the namespace keeps the tables exact.
LEMMA NextTables == TablesInv /\ [Next]_vars => TablesInv'
<1> SUFFICES ASSUME TablesInv, [Next]_vars PROVE TablesInv'
  OBVIOUS
<1>1. CASE ClientIter \/ UNCHANGED vars
  BY <1>1 DEF ClientIter, vars, tableVars, TablesInv, TypeOK, Ipv4TableExact, Ipv6TableExact
<1>2. CASE \E m \in Macs : \E a4 \in Addr4, a6 \in Addr6 : AddClient(m, a4, a6)
  BY <1>2, AddTables
<1>3. CASE \E m \in Macs : RemoveClient(m)
  BY <1>3, RemoveTables
<1>4. CASE \E m \in Macs : \E a \in Addr4 : UpdateClientIpv4(m, a)
  BY <1>4, UpdateIpv4Tables
<1>5. CASE \E m \in Macs : \E a \in Addr6 : UpdateClientIpv6(m, a)
  BY <1>5, UpdateIpv6Tables
<1>6. CASE \E m \in Macs : \E a \in Addr6 : UpdateClientDIpv6(m, a)
  BY <1>6, UpdateDIpv6Tables
<1> QED BY <1>1, <1>2, <1>3, <1>4, <1>5, <1>6 DEF Next

\* The tables of ns_ctx.go are exact in every reachable state.
THEOREM TablesInvariant == Spec => []TablesInv
BY InitTables, NextTables, PTL DEF Spec

\* mapIpv4 holds the IPv4 addresses of the live clients, each with its owner.
THEOREM Ipv4Exact == Spec => []Ipv4TableExact
<1>1. TablesInv => Ipv4TableExact BY DEF TablesInv
<1> QED BY <1>1, TablesInvariant, PTL

\* mapIpv6 holds the static and DHCPv6 addresses of the live clients.
THEOREM Ipv6Exact == Spec => []Ipv6TableExact
<1>1. TablesInv => Ipv6TableExact BY DEF TablesInv
<1> QED BY <1>1, TablesInvariant, PTL

\* The tables and the address fields keep their types.
THEOREM TablesTyped == Spec => []TypeOK
<1>1. TablesInv => TypeOK BY DEF TablesInv
<1> QED BY <1>1, TablesInvariant, PTL

-----------------------------------------------------------------------------
(* The list of clients *)

\* the list of clients with what makes it exact and its iterator sound
ClientListInv ==
    /\ ListOK(clientList, Macs)
    /\ Range(clientList.items) = mapMAC
    /\ addClient \in Int /\ removeClient \in Int
    /\ addClient - removeClient = Len(clientList.items)

\* An empty list is sound.
LEMMA EmptyOK ==
    ASSUME NEW S
    PROVE  ListOK(EmptyList, S) /\ EmptyList.items = <<>>
<1>1. EmptyList \in ListType(S)
  BY DEF EmptyList, ListType
<1>2. IsInjective(EmptyList.items)
  BY DEF EmptyList, IsInjective
<1> QED BY <1>1, <1>2 DEF EmptyList, ListOK

\* A new namespace has an empty list.
LEMMA InitClientList == Init => ClientListInv
<1> SUFFICES ASSUME Init PROVE ClientListInv
  OBVIOUS
<1>1. ListOK(clientList, Macs) /\ clientList.items = <<>>
  BY EmptyOK DEF Init
<1>2. Range(clientList.items) = {}
  BY <1>1 DEF Range
<1> QED BY <1>1, <1>2 DEF Init, ClientListInv

\* AddClient and RemoveClient change list, table and counter together, the
\* updates of addresses touch none of them, and an iteration leaves the items.
LEMMA NextClientList == ClientListInv /\ [Next]_vars => ClientListInv'
<1> SUFFICES ASSUME ClientListInv, [Next]_vars PROVE ClientListInv'
  OBVIOUS
<1>0. clientList.items \in Seq(Macs)
  BY DEF ClientListInv, ListOK, ListType
<1>1. CASE UNCHANGED vars
  BY <1>1 DEF vars, tableVars, ClientListInv
<1>2. ASSUME NEW m \in Macs, NEW a4 \in Addr4, NEW a6 \in Addr6, AddClient(m, a4, a6)
      PROVE  ClientListInv'
  <2>1. m \notin Range(clientList.items) /\ clientList' = Appended(clientList, m)
    BY <1>2 DEF AddClient, ClientListInv
  <2>0. ListOK(clientList, Macs) /\ Range(clientList.items) = mapMAC
    BY <1>0 DEF ClientListInv
  <2>a. /\ ListOK(Appended(clientList, m), Macs)
        /\ Range(Appended(clientList, m).items) = Range(clientList.items) \cup {m}
        /\ Len(Appended(clientList, m).items) = Len(clientList.items) + 1
    BY <2>0, <2>1, AppendedOK
  <2>2. /\ ListOK(clientList', Macs) /\ Range(clientList'.items) = mapMAC \cup {m}
        /\ Len(clientList'.items) = Len(clientList.items) + 1
    BY <2>0, <2>1, <2>a
  <2> QED BY <1>0, <1>2, <2>2 DEF AddClient, ClientListInv
<1>3. ASSUME NEW m \in Macs, RemoveClient(m)
      PROVE  ClientListInv'
  <2>1. m \in Range(clientList.items) /\ clientList' = Unlinked(clientList, m)
    BY <1>3 DEF RemoveClient, ClientListInv
  <2>0. ListOK(clientList, Macs) /\ Range(clientList.items) = mapMAC
    BY <1>0 DEF ClientListInv
  <2>a. /\ ListOK(Unlinked(clientList, m), Macs)
        /\ Range(Unlinked(clientList, m).items) = Range(clientList.items) \ {m}
        /\ Len(Unlinked(clientList, m).items) = Len(clientList.items) - 1
    BY <2>0, <2>1, UnlinkedOK
  <2>2. /\ ListOK(clientList', Macs) /\ Range(clientList'.items) = mapMAC \ {m}
        /\ Len(clientList'.items) = Len(clientList.items) - 1
    BY <2>0, <2>1, <2>a
  <2> QED BY <1>0, <1>3, <2>2 DEF RemoveClient, ClientListInv
<1>4. ASSUME NEW m \in Macs, NEW a,
             UpdateClientIpv4(m, a) \/ UpdateClientIpv6(m, a) \/ UpdateClientDIpv6(m, a)
      PROVE  ClientListInv'
  <2>1. UNCHANGED <<clientList, mapMAC, addClient, removeClient>>
    BY <1>4 DEF UpdateClientIpv4, UpdateClientIpv6, UpdateClientDIpv6
  <2> QED BY <2>1 DEF ClientListInv
<1>5. CASE ClientIter
  <2>1. ListOK(clientList', Macs) /\ clientList'.items = clientList.items
    BY <1>5, IterRpcOK DEF ClientIter, ClientListInv
  <2> QED BY <1>5, <2>1 DEF ClientIter, tableVars, ClientListInv
<1> QED BY <1>1, <1>2, <1>3, <1>4, <1>5 DEF Next

\* The list of clients stays exact and its iterator sound.
THEOREM ClientListInvariant == Spec => []ClientListInv
BY InitClientList, NextClientList, PTL DEF Spec

\* The tables by MAC, IPv4 and IPv6, the list and the counters of ns_ctx.go
\* agree with the clients of the namespace.
THEOREM TablesAreExact == Spec => []TablesExact
<1>1. TablesInv /\ ClientListInv => TablesExact
  BY DEF TablesInv, ClientListInv, ListOK, TablesExact, ListIsTable
<1> QED BY <1>1, TablesInvariant, ClientListInvariant, PTL

\* ctx_client_iter gives every client of the namespace once, or is refused.
THEOREM ClientIterIsSound == Spec => []IterSound
<1>1. ClientListInv => IterSound
  BY AnswersFollow DEF ClientListInv, IterSound
<1> QED BY <1>1, ClientListInvariant, PTL

-----------------------------------------------------------------------------
(* The namespaces of a thread *)

\* The counters of a namespace of the table count its clients, and a tunnel
\* without a namespace has none: RemoveNs looks at the counters only.
CountersInv ==
    /\ mapNs \subseteq Tunnels
    /\ added \in [Tunnels -> Nat] /\ removed \in [Tunnels -> Nat] /\ clients \in [Tunnels -> Nat]
    /\ \A t \in Tunnels : clients[t] = IF t \in mapNs THEN added[t] - removed[t] ELSE 0

NsListInv ==
    /\ ListOK(nsList, Tunnels)
    /\ Range(nsList.items) = mapNs
    /\ addNs \in Int /\ removeNs \in Int
    /\ addNs - removeNs = Len(nsList.items)

ThreadInv == CountersInv /\ NsListInv

\* A new thread has no namespaces.
LEMMA InitThread == ThreadInit => ThreadInv
<1> SUFFICES ASSUME ThreadInit PROVE ThreadInv
  OBVIOUS
<1>1. ListOK(nsList, Tunnels) /\ nsList.items = <<>>
  BY EmptyOK DEF ThreadInit
<1>2. Range(nsList.items) = {}
  BY <1>1 DEF Range
<1>3. NsListInv
  BY <1>1, <1>2 DEF ThreadInit, NsListInv
<1>4. CountersInv
  BY DEF ThreadInit, CountersInv
<1> QED BY <1>3, <1>4 DEF ThreadInv

\* Every step of the thread keeps counters, list and table in agreement.
LEMMA NextThread == ThreadInv /\ [ThreadNext]_threadVars => ThreadInv'
<1> SUFFICES ASSUME ThreadInv, [ThreadNext]_threadVars PROVE ThreadInv'
  OBVIOUS
<1>0. CountersInv /\ NsListInv /\ nsList.items \in Seq(Tunnels)
  BY DEF ThreadInv, NsListInv, ListOK, ListType
<1>1. CASE UNCHANGED threadVars
  BY <1>0, <1>1 DEF threadVars, nsVars, ThreadInv, CountersInv, NsListInv
<1>2. ASSUME NEW t \in Tunnels, AddNs(t)
      PROVE  ThreadInv'
  <2>1. t \notin Range(nsList.items) /\ nsList' = Appended(nsList, t)
    BY <1>0, <1>2 DEF AddNs, NsListInv
  <2>0. ListOK(nsList, Tunnels) /\ Range(nsList.items) = mapNs
    BY <1>0 DEF NsListInv
  <2>a. /\ ListOK(Appended(nsList, t), Tunnels)
        /\ Range(Appended(nsList, t).items) = Range(nsList.items) \cup {t}
        /\ Len(Appended(nsList, t).items) = Len(nsList.items) + 1
    BY <2>0, <2>1, AppendedOK
  <2>2. /\ ListOK(nsList', Tunnels) /\ Range(nsList'.items) = mapNs \cup {t}
        /\ Len(nsList'.items) = Len(nsList.items) + 1
    BY <2>0, <2>1, <2>a
  <2>3. NsListInv'
    BY <1>0, <1>2, <2>2 DEF AddNs, NsListInv
  <2>4. CountersInv'
    BY <1>0, <1>2 DEF AddNs, CountersInv
  <2> QED BY <2>3, <2>4 DEF ThreadInv
<1>3. ASSUME NEW t \in Tunnels, RemoveNs(t)
      PROVE  ThreadInv'
  <2>1. t \in Range(nsList.items) /\ nsList' = Unlinked(nsList, t)
    BY <1>0, <1>3 DEF RemoveNs, NsListInv
  <2>0. ListOK(nsList, Tunnels) /\ Range(nsList.items) = mapNs
    BY <1>0 DEF NsListInv
  <2>a. /\ ListOK(Unlinked(nsList, t), Tunnels)
        /\ Range(Unlinked(nsList, t).items) = Range(nsList.items) \ {t}
        /\ Len(Unlinked(nsList, t).items) = Len(nsList.items) - 1
    BY <2>0, <2>1, UnlinkedOK
  <2>2. /\ ListOK(nsList', Tunnels) /\ Range(nsList'.items) = mapNs \ {t}
        /\ Len(nsList'.items) = Len(nsList.items) - 1
    BY <2>0, <2>1, <2>a
  <2>3. NsListInv'
    BY <1>0, <1>3, <2>2 DEF RemoveNs, NsListInv
  <2>4. CountersInv'
    BY <1>0, <1>3 DEF RemoveNs, CountersInv
  <2> QED BY <2>3, <2>4 DEF ThreadInv
<1>4. ASSUME NEW t \in Tunnels, AddNsClient(t) \/ RemoveNsClient(t)
      PROVE  ThreadInv'
  <2>1. NsListInv'
    BY <1>0, <1>4 DEF AddNsClient, RemoveNsClient, NsListInv
  <2>2. CASE AddNsClient(t)
    <3>1. /\ t \in mapNs /\ added \in [Tunnels -> Nat] /\ removed \in [Tunnels -> Nat]
          /\ clients \in [Tunnels -> Nat] /\ clients[t] = added[t] - removed[t]
      BY <1>0, <2>2 DEF AddNsClient, CountersInv
    <3>2. added'[t] = added[t] + 1 /\ clients'[t] = clients[t] + 1 /\ clients'[t] \in Nat
      BY <2>2, <3>1 DEF AddNsClient
    <3>3. added' \in [Tunnels -> Nat] /\ clients' \in [Tunnels -> Nat]
      BY <2>2, <3>1, <3>2 DEF AddNsClient
    <3>4. \A u \in Tunnels \ {t} : added'[u] = added[u] /\ clients'[u] = clients[u]
      BY <2>2, <3>1 DEF AddNsClient
    <3>5. \A u \in Tunnels : clients'[u] = IF u \in mapNs' THEN added'[u] - removed'[u] ELSE 0
      BY <1>0, <2>2, <3>1, <3>2, <3>3, <3>4 DEF AddNsClient, CountersInv
    <3>6. CountersInv'
      BY <1>0, <2>2, <3>3, <3>5 DEF AddNsClient, CountersInv
    <3> QED BY <2>1, <3>6 DEF ThreadInv
  <2>3. CASE RemoveNsClient(t)
    <3>1. /\ t \in mapNs /\ added \in [Tunnels -> Nat] /\ removed \in [Tunnels -> Nat]
          /\ clients \in [Tunnels -> Nat] /\ clients[t] = added[t] - removed[t]
      BY <1>0, <2>3 DEF RemoveNsClient, CountersInv
    <3>2. removed'[t] = removed[t] + 1 /\ clients'[t] = clients[t] - 1 /\ clients'[t] \in Nat
      BY <2>3, <3>1 DEF RemoveNsClient
    <3>3. removed' \in [Tunnels -> Nat] /\ clients' \in [Tunnels -> Nat]
      BY <2>3, <3>1, <3>2 DEF RemoveNsClient
    <3>4. \A u \in Tunnels \ {t} : removed'[u] = removed[u] /\ clients'[u] = clients[u]
      BY <2>3, <3>1 DEF RemoveNsClient
    <3>5. \A u \in Tunnels : clients'[u] = IF u \in mapNs' THEN added'[u] - removed'[u] ELSE 0
      BY <1>0, <2>3, <3>1, <3>2, <3>3, <3>4 DEF RemoveNsClient, CountersInv
    <3>6. CountersInv'
      BY <1>0, <2>3, <3>3, <3>5 DEF RemoveNsClient, CountersInv
    <3> QED BY <2>1, <3>6 DEF ThreadInv
  <2> QED BY <1>4, <2>1, <2>2, <2>3 DEF ThreadInv
<1>5. CASE NsIter
  <2>1. ListOK(nsList', Tunnels) /\ nsList'.items = nsList.items
    BY <1>0, <1>5, IterRpcOK DEF NsIter, NsListInv
  <2> QED BY <1>0, <1>5, <2>1 DEF NsIter, nsVars, ThreadInv, NsListInv, CountersInv
<1> QED BY <1>1, <1>2, <1>3, <1>4, <1>5 DEF ThreadNext

\* A client never outlives its namespace, the namespaces of thread_ctx.go are
\* listed and counted right, and ctx_iter gives each of them once.
THEOREM NamespacesAreSound == ThreadSpec => []NamespacesSound
<1>1. ThreadInv => NamespacesSound
  <2> SUFFICES ASSUME ThreadInv PROVE NamespacesSound
    OBVIOUS
  <2>1. NoOrphans
    BY DEF ThreadInv, CountersInv, NoOrphans
  <2>2. NsListIsTable
    BY DEF ThreadInv, NsListInv, ListOK, NsListIsTable
  <2>3. AnswersSound(nsList)
    BY AnswersFollow DEF ThreadInv, NsListInv
  <2> QED BY <2>1, <2>2, <2>3 DEF NamespacesSound
<1> QED BY <1>1, InitThread, NextThread, PTL DEF ThreadSpec
=============================================================================
