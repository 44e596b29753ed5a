------------------------------- MODULE DhcpProofs -------------------------------
(***************************************************************************)
(* The DHCPv4 server neither loses an address of its pools nor gives one   *)
(* to two clients (PoolExact), for any pools that its configuration may    *)
(* describe, any chunk, any number of clients and any messages.            *)
(*                                                                         *)
(* What a pool has come to hold is split into its free list, the addresses *)
(* of the contexts and the exclusions (Fit).  Each operation on a pool is  *)
(* a lemma about Fit.  The loop of enlargePool is an induction over its    *)
(* iterations, by the least one that would fail.  The inductive invariant  *)
(* of the server (SrvInv) says that every pool fits the contexts that have *)
(* its addresses, and that no two contexts have the same one.              *)
(***************************************************************************)
EXTENDS Dhcp, FiniteSetTheorems, TLAPS

\* A set of natural numbers has a least one.
LEMMA LeastOf ==
    ASSUME NEW S \in SUBSET Nat, S # {}
    PROVE  \E i \in S : \A j \in S : i <= j
<1> DEFINE R == OpToRel(<, Nat)
<1>1. IsWellFoundedOn(R, Nat)
  BY NatLessThanWellFounded
<1>2. PICK x \in S : \A y \in S : ~ (<<y, x>> \in R)
  BY <1>1, WFMin
<1>3. \A y \in S : ~(y < x)
  BY <1>2 DEF OpToRel
<1> QED BY <1>3

\* A set that has 0 and each successor has all the natural numbers.
LEMMA SetInduction ==
    ASSUME NEW T, 0 \in T, \A n \in T : n + 1 \in T
    PROVE  Nat \subseteq T
<1> SUFFICES ASSUME Nat \ T # {} PROVE FALSE
  OBVIOUS
<1>1. PICK x \in Nat \ T : \A y \in Nat \ T : x <= y
  BY LeastOf
<1>2. x # 0 /\ x - 1 \in Nat
  BY <1>1
<1>3. x - 1 \in T
  BY <1>1, <1>2
<1>4. x - 1 + 1 = x
  BY <1>2
<1> QED BY <1>1, <1>3, <1>4

---------------------------------------------------------------------------
(* The pools.                                                              *)

Distinct(s) == \A i, j \in 1..Len(s) : s[i] = s[j] => i = j

PoolRecs ==
    [net : Nat, bcast : Nat, min : Nat, max : Nat, first : Nat, size : Nat, excl : SUBSET Nat,
     avail : Seq(Nat), cur : Nat, exhausted : BOOLEAN]

\* the addresses a pool has come to hold
Held(p) == p.first .. (p.first + p.cur - 1)

\* The free addresses of a pool are some of those it holds, each once, and none excluded.
PoolOK(p) ==
    /\ p \in PoolRecs
    /\ 0 < p.first /\ p.min <= p.first /\ p.first + p.size <= p.max + 1 /\ p.cur <= p.size
    /\ Distinct(p.avail)
    /\ Range(p.avail) \subseteq Held(p)
    /\ Range(p.avail) \cap p.excl = {}

\* q is p but for the list, the exclusions and what enlargePool changes
SamePool(p, q) == /\ q.net = p.net /\ q.bcast = p.bcast /\ q.min = p.min /\ q.max = p.max
                  /\ q.first = p.first /\ q.size = p.size

\* What Range has.
LEMMA RangeIs ==
    ASSUME NEW s \in Seq(Nat)
    PROVE  /\ \A i \in 1..Len(s) : s[i] \in Range(s)
           /\ \A a \in Range(s) : \E i \in 1..Len(s) : s[i] = a
           /\ Range(s) \subseteq Nat /\ Len(s) \in Nat
BY DEF Range

\* Append to a list, of a new address.
LEMMA Appended ==
    ASSUME NEW s \in Seq(Nat), NEW a \in Nat, Distinct(s), a \notin Range(s)
    PROVE  /\ Append(s, a) \in Seq(Nat) /\ Distinct(Append(s, a))
           /\ Range(Append(s, a)) = Range(s) \cup {a}
<1> DEFINE t == Append(s, a)
           n == Len(s)
<1>1. n \in Nat /\ t \in Seq(Nat) /\ Len(t) = n + 1 /\ t[n + 1] = a
      /\ \A i \in 1..n : t[i] = s[i]
  OBVIOUS
<1>2. \A i \in 1..n : s[i] # a
  BY RangeIs
<1> HIDE DEF t
<1>3. \A i \in 1 .. n + 1 : i \in 1..n \/ i = n + 1
  BY <1>1
<1>4. Distinct(t)
  <2> SUFFICES ASSUME NEW i \in 1 .. n + 1, NEW j \in 1 .. n + 1, t[i] = t[j] PROVE i = j
    BY <1>1 DEF Distinct
  <2>1. CASE i \in 1..n /\ j \in 1..n
    BY <1>1, <2>1 DEF Distinct
  <2>2. CASE i \in 1..n /\ j = n + 1
    BY <1>1, <1>2, <2>2
  <2>3. CASE i = n + 1 /\ j \in 1..n
    BY <1>1, <1>2, <2>3
  <2> QED BY <1>3, <2>1, <2>2, <2>3
<1>5. Range(t) = Range(s) \cup {a}
  <2>0. DOMAIN t = 1 .. n + 1 /\ DOMAIN s = 1 .. n
    BY <1>1
  <2>1. Range(t) = {t[i] : i \in 1 .. n + 1} /\ Range(s) = {s[i] : i \in 1 .. n}
    BY <2>0, Zenon DEF Range
  <2>2. n + 1 \in 1 .. n + 1 /\ \A i \in 1..n : i \in 1 .. n + 1
    BY <1>1
  <2> QED BY <1>1, <1>3, <2>1, <2>2
<1> QED BY <1>1, <1>4, <1>5 DEF t

\* Two lists without a common address, one after the other.
LEMMA Joined ==
    ASSUME NEW r \in Seq(Nat), NEW s \in Seq(Nat), Distinct(r), Distinct(s),
           Range(r) \cap Range(s) = {}
    PROVE  /\ r \o s \in Seq(Nat) /\ Distinct(r \o s) /\ Range(r \o s) = Range(r) \cup Range(s)
<1> DEFINE t == r \o s
           k == Len(r)
           n == Len(s)
<1>1. /\ k \in Nat /\ n \in Nat /\ t \in Seq(Nat) /\ Len(t) = k + n
      /\ \A i \in 1..k : t[i] = r[i]
      /\ \A i \in 1 .. k + n : i \notin 1..k => i - k \in 1..n /\ t[i] = s[i - k]
  OBVIOUS
<1> HIDE DEF t
<1>2. \A i \in 1..k, j \in 1..n : r[i] # s[j]
  BY RangeIs
<1>3. Distinct(t)
  <2> SUFFICES ASSUME NEW i \in 1 .. k + n, NEW j \in 1 .. k + n, t[i] = t[j] PROVE i = j
    BY <1>1 DEF Distinct
  <2>1. CASE i \in 1..k /\ j \in 1..k
    BY <1>1, <2>1 DEF Distinct
  <2>2. CASE i \in 1..k /\ j \notin 1..k
    BY <1>1, <1>2, <2>2
  <2>3. CASE i \notin 1..k /\ j \in 1..k
    BY <1>1, <1>2, <2>3
  <2>4. CASE i \notin 1..k /\ j \notin 1..k
    <3>1. i - k \in 1..n /\ j - k \in 1..n /\ s[i - k] = s[j - k]
      BY <1>1, <2>4
    <3>2. i - k = j - k
      BY <3>1 DEF Distinct
    <3> QED BY <1>1, <3>2
  <2> QED BY <2>1, <2>2, <2>3, <2>4
<1>4. Range(t) = Range(r) \cup Range(s)
  <2>1. /\ Range(t) = {t[i] : i \in 1 .. k + n} /\ Range(s) = {s[i] : i \in 1..n}
        /\ Range(r) = {r[i] : i \in 1..k}
    <3>1. DOMAIN t = 1 .. k + n /\ DOMAIN s = 1..n /\ DOMAIN r = 1..k
      BY <1>1
    <3> QED BY <3>1, Zenon DEF Range
  <2>2. ASSUME NEW i \in 1..n PROVE s[i] \in Range(t)
    <3>1. i + k \in 1 .. k + n /\ i + k \notin 1..k /\ (i + k) - k = i
      BY <1>1
    <3>2. t[i + k] = s[i]
      BY <1>1, <3>1
    <3> QED BY <2>1, <3>1, <3>2
  <2>3. ASSUME NEW i \in 1..k PROVE r[i] \in Range(t)
    <3>1. i \in 1 .. k + n
      BY <1>1
    <3> QED BY <1>1, <2>1, <3>1
  <2>4. ASSUME NEW i \in 1 .. k + n PROVE t[i] \in Range(r) \cup Range(s)
    BY <1>1, <2>1
  <2> QED BY <2>1, <2>2, <2>3, <2>4
<1> QED BY <1>1, <1>3, <1>4 DEF t

\* Where the addresses are after the one at k was taken out.
LEMMA Shifted ==
    ASSUME NEW s \in Seq(Nat), NEW k \in 1..Len(s)
    PROVE  /\ RemoveNode(s, k) \in Seq(Nat) /\ Len(RemoveNode(s, k)) = Len(s) - 1
           /\ \A i \in 1 .. Len(s) - 1 : RemoveNode(s, k)[i] = IF i < k THEN s[i] ELSE s[i + 1]
<1> DEFINE n == Len(s)
           a == SubSeq(s, 1, k - 1)
           b == SubSeq(s, k + 1, n)
<1>0. n \in Nat /\ k \in 1..n
  OBVIOUS
<1>1. a \in Seq(Nat) /\ Len(a) = k - 1 /\ \A j \in 1 .. k - 1 : a[j] = s[j]
  OBVIOUS
<1>2. b \in Seq(Nat) /\ Len(b) = n - k /\ \A j \in 1 .. n - k : b[j] = s[j + k]
  OBVIOUS
<1> HIDE DEF a, b
<1>3. a \o b \in Seq(Nat) /\ Len(a \o b) = Len(a) + Len(b)
  <2>1. a \in Seq(Nat) /\ b \in Seq(Nat)
    BY <1>1, <1>2
  <2> QED BY <2>1
<1>4. \A j \in 1 .. Len(a) + Len(b) : (a \o b)[j] = IF j <= Len(a) THEN a[j] ELSE b[j - Len(a)]
  <2>1. a \in Seq(Nat) /\ b \in Seq(Nat)
    BY <1>1, <1>2
  <2> QED BY <2>1
<1> HIDE DEF n
<1>5. ASSUME NEW i \in 1 .. n - 1 PROVE (a \o b)[i] = IF i < k THEN s[i] ELSE s[i + 1]
  <2>0. i \in 1 .. Len(a) + Len(b)
    BY <1>0, <1>1, <1>2
  <2>1. CASE i < k
    <3>1. i <= Len(a) /\ i \in 1 .. k - 1
      BY <1>0, <1>1, <2>1
    <3> QED BY <1>1, <1>4, <2>0, <2>1, <3>1
  <2>2. CASE ~ (i < k)
    <3>1. ~ (i <= Len(a)) /\ i - Len(a) = i - k + 1 /\ i - k + 1 \in 1 .. n - k
      BY <1>0, <1>1, <2>2
    <3>2. b[i - k + 1] = s[(i - k + 1) + k] /\ (i - k + 1) + k = i + 1
      BY <1>0, <1>2, <3>1
    <3> QED BY <1>4, <2>0, <2>2, <3>1, <3>2
  <2> QED BY <2>1, <2>2
<1>6. Len(a) + Len(b) = n - 1
  BY <1>0, <1>1, <1>2
<1>7. RemoveNode(s, k) = a \o b
  BY DEF RemoveNode, a, b, n
<1> QED BY <1>3, <1>5, <1>6, <1>7 DEF n

\* RemoveNode takes one address out.
LEMMA TakenOut ==
    ASSUME NEW s \in Seq(Nat), NEW k \in 1..Len(s), Distinct(s)
    PROVE  /\ RemoveNode(s, k) \in Seq(Nat) /\ Distinct(RemoveNode(s, k))
           /\ Range(RemoveNode(s, k)) = Range(s) \ {s[k]}
<1> DEFINE t == RemoveNode(s, k)
           n == Len(s)
<1>1. /\ n \in Nat /\ t \in Seq(Nat) /\ Len(t) = n - 1
      /\ \A i \in 1 .. n - 1 : t[i] = IF i < k THEN s[i] ELSE s[i + 1]
  <2>1. n \in Nat
    OBVIOUS
  <2> QED BY <2>1, Shifted, ZenonT(30)
<1> HIDE DEF t
<1>2. Distinct(t)
  <2> SUFFICES ASSUME NEW i \in 1 .. n - 1, NEW j \in 1 .. n - 1, t[i] = t[j] PROVE i = j
    BY <1>1 DEF Distinct
  <2>1. i \in 1..n /\ i + 1 \in 1..n /\ j \in 1..n /\ j + 1 \in 1..n
    <3> HIDE DEF n
    <3> QED BY <1>1
  <2>2. \A x, y \in 1..n : s[x] = s[y] => x = y
    BY DEF Distinct
  <2>3. CASE i < k /\ j < k
    BY <1>1, <2>1, <2>2, <2>3
  <2>4. CASE i < k /\ ~ (j < k)
    <3>1. i = j + 1
      BY <1>1, <2>1, <2>2, <2>4
    <3> QED BY <2>4, <3>1, <1>1
  <2>5. CASE ~ (i < k) /\ j < k
    <3>1. i + 1 = j
      BY <1>1, <2>1, <2>2, <2>5
    <3> QED BY <2>5, <3>1, <1>1
  <2>6. CASE ~ (i < k) /\ ~ (j < k)
    <3>1. i + 1 = j + 1
      BY <1>1, <2>1, <2>2, <2>6
    <3> QED BY <3>1, <1>1
  <2> QED BY <2>3, <2>4, <2>5, <2>6
<1>3. Range(t) = Range(s) \ {s[k]}
  <2>0. DOMAIN t = 1 .. n - 1 /\ DOMAIN s = 1..n
    BY <1>1
  <2>1. Range(t) = {t[i] : i \in 1 .. n - 1} /\ Range(s) = {s[i] : i \in 1..n}
    BY <2>0, Zenon DEF Range
  <2>2. ASSUME NEW i \in 1 .. n - 1 PROVE t[i] \in Range(s) \ {s[k]}
    <3>1. i \in 1..n /\ i + 1 \in 1..n /\ (i < k => i # k) /\ (~ (i < k) => i + 1 # k)
      BY <1>1, SMTT(30)
    <3>2. CASE i < k
      <4>1. t[i] = s[i] /\ s[i] # s[k]
        BY <1>1, <3>1, <3>2 DEF Distinct
      <4> QED BY <2>1, <3>1, <4>1
    <3>3. CASE ~ (i < k)
      <4>1. t[i] = s[i + 1] /\ s[i + 1] # s[k]
        BY <1>1, <3>1, <3>3 DEF Distinct
      <4> QED BY <2>1, <3>1, <4>1
    <3> QED BY <3>2, <3>3
  <2>3. ASSUME NEW i \in 1..n, s[i] # s[k] PROVE s[i] \in Range(t)
    <3>1. CASE i < k
      <4>1. i \in 1 .. n - 1
        BY <1>1, <3>1
      <4> QED BY <1>1, <2>1, <3>1, <4>1
    <3>2. CASE ~ (i < k)
      <4>1. i # k
        BY <2>3
      <4>2. i - 1 \in 1 .. n - 1 /\ ~ (i - 1 < k) /\ (i - 1) + 1 = i
        BY <1>1, <3>2, <4>1
      <4>3. t[i - 1] = s[i]
        BY <1>1, <4>2
      <4> QED BY <2>1, <4>2, <4>3
    <3> QED BY <3>1, <3>2
  <2> QED BY <2>1, <2>2, <2>3
<1> QED BY <1>1, <1>2, <1>3 DEF t

\* The loop of enlargePool as a function of the turn.
ChunkLoop(p, a, n, f) ==
    f = [i \in 0..n |-> IF i = 0 THEN p.avail ELSE AddLast(p, f[i - 1], a + i - 1)]

\* There is such a function for every number of turns.
LEMMA ChunkLoopIs ==
    ASSUME NEW p, NEW a, NEW n \in Nat
    PROVE  \E f : ChunkLoop(p, a, n, f)
<1> DEFINE T == {k \in Nat : \E f : ChunkLoop(p, a, k, f)}
<1>1. 0 \in T
  <2> DEFINE f == [i \in 0..0 |-> p.avail]
  <2>1. f = [i \in 0..0 |-> IF i = 0 THEN p.avail ELSE AddLast(p, f[i - 1], a + i - 1)]
    <3>1. \A i \in 0..0 : i = 0
      OBVIOUS
    <3> QED BY <3>1
  <2> QED BY <2>1 DEF ChunkLoop
<1>2. ASSUME NEW k \in T PROVE k + 1 \in T
  <2>1. PICK f : ChunkLoop(p, a, k, f)
    OBVIOUS
  <2> DEFINE g == [i \in 0 .. k + 1 |->
                     IF i = k + 1 THEN AddLast(p, f[k], a + (k + 1) - 1) ELSE f[i]]
             h == [i \in 0 .. k + 1 |->
                     IF i = 0 THEN p.avail ELSE AddLast(p, g[i - 1], a + i - 1)]
  <2>2. k \in Nat
    OBVIOUS
  <2>3. ASSUME NEW i \in 0..k PROVE f[i] = IF i = 0 THEN p.avail ELSE AddLast(p, f[i - 1], a + i - 1)
    BY <2>1 DEF ChunkLoop
  <2>4. ASSUME NEW i \in 0 .. k + 1 PROVE g[i] = h[i]
    <3>1. CASE i = 0
      <4>1. i # k + 1 /\ 0 \in 0..k
        BY <2>2, <3>1
      <4>2. g[i] = f[0] /\ h[i] = p.avail
        BY <3>1, <4>1
      <4> QED BY <4>1, <4>2, <2>3
    <3>2. CASE i # 0 /\ i # k + 1
      <4>1. i \in 0..k /\ i - 1 \in 0 .. k + 1 /\ i - 1 # k + 1
        BY <2>2, <3>2
      <4>2. g[i] = f[i] /\ g[i - 1] = f[i - 1]
        BY <3>2, <4>1
      <4>3. h[i] = AddLast(p, g[i - 1], a + i - 1)
        BY <3>2
      <4>4. f[i] = AddLast(p, f[i - 1], a + i - 1)
        BY <2>3, <3>2, <4>1
      <4> QED BY <4>2, <4>3, <4>4
    <3>3. CASE i = k + 1
      <4>1. i # 0 /\ k \in 0 .. k + 1 /\ k # k + 1 /\ i - 1 = k
        BY <2>2, <3>3
      <4>2. g[k] = f[k] /\ g[i] = AddLast(p, f[k], a + (k + 1) - 1)
        BY <3>3, <4>1
      <4>3. h[i] = AddLast(p, g[i - 1], a + i - 1)
        BY <4>1
      <4> QED BY <3>3, <4>1, <4>2, <4>3
    <3> QED BY <3>1, <3>2, <3>3
  <2>5. g = h
    BY <2>4
  <2>6. ChunkLoop(p, a, k + 1, g)
    BY <2>5 DEF ChunkLoop
  <2> QED BY <2>2, <2>6
<1>3. Nat \subseteq T
  <2> HIDE DEF T
  <2> QED BY <1>1, <1>2, SetInduction
<1> QED BY <1>3

\* enlargePool's loop adds, each once, the addresses of the chunk that are not excluded.
LEMMA ChunkAdded ==
    ASSUME NEW p \in PoolRecs, NEW a \in Nat, NEW n \in Nat, Distinct(p.avail),
           \A x \in Range(p.avail) : x < a,
           \A x \in a .. (a + n - 1) : p.min <= x /\ x <= p.max
    PROVE  LET t == AddChunk(p, a, n) IN
           /\ t \in Seq(Nat) /\ Distinct(t)
           /\ Range(t) = Range(p.avail) \cup (a .. (a + n - 1) \ p.excl)
<1> DEFINE f == CHOOSE g : g = [i \in 0..n |->
                    IF i = 0 THEN p.avail ELSE AddLast(p, g[i - 1], a + i - 1)]
<1>1. AddChunk(p, a, n) = f[n]
  BY DEF AddChunk
<1>2. \E g : g = [i \in 0..n |-> IF i = 0 THEN p.avail ELSE AddLast(p, g[i - 1], a + i - 1)]
  <2>1. \E g : ChunkLoop(p, a, n, g)
    BY ChunkLoopIs
  <2> QED BY <2>1, Zenon DEF ChunkLoop
<1>3. f = [i \in 0..n |-> IF i = 0 THEN p.avail ELSE AddLast(p, f[i - 1], a + i - 1)]
  BY <1>2
<1> HIDE DEF f
<1>4. p.avail \in Seq(Nat)
  BY DEF PoolRecs
<1> DEFINE Good(t, k) == /\ t \in Seq(Nat) /\ Distinct(t)
                         /\ Range(t) = Range(p.avail) \cup (a .. (a + k - 1) \ p.excl)
           T == {k \in Nat : k <= n => Good(f[k], k)}
<1>5. 0 \in T
  <2>1. f[0] = p.avail
    BY <1>3
  <2>2. a .. (a + 0 - 1) = {}
    OBVIOUS
  <2> QED BY <1>4, <2>1, <2>2
<1>6. ASSUME NEW k \in T PROVE k + 1 \in T
  <2> SUFFICES ASSUME k + 1 <= n PROVE Good(f[k + 1], k + 1)
    OBVIOUS
  <2>0. k \in Nat /\ k + 1 <= n
    OBVIOUS
  <2>1. k \in Nat /\ k <= n /\ Good(f[k], k)
    OBVIOUS
  <2> DEFINE t == f[k]
             ip == a + k
  <2>2. f[k + 1] = AddLast(p, t, ip)
    <3>1. k + 1 \in 0..n /\ k + 1 # 0 /\ (k + 1) - 1 = k /\ a + (k + 1) - 1 = a + k
      BY <2>0
    <3>2. f[k + 1] = AddLast(p, f[(k + 1) - 1], a + (k + 1) - 1)
      BY <1>3, <3>1
    <3> QED BY <3>1, <3>2
  <2>3. ip \in Nat /\ ip \in a .. (a + n - 1) /\ ip \notin a .. (a + k - 1)
        /\ a .. (a + (k + 1) - 1) = a .. (a + k - 1) \cup {ip}
    BY <2>0
  <2>4. ip \notin Range(p.avail)
    BY <2>1, <2>3, <1>4, RangeIs
  <2>5. ip \notin Range(t)
    BY <2>1, <2>3, <2>4
  <2>6. PoolContains(p, ip) <=> ip \notin p.excl
    BY <2>3 DEF PoolContains
  <2> HIDE DEF t, ip
  <2>7. t \in Seq(Nat) /\ Distinct(t) /\ Range(t) = Range(p.avail) \cup (a .. (a + k - 1) \ p.excl)
    BY <2>1 DEF t
  <2>8. CASE ip \in p.excl
    <3>1. f[k + 1] = t
      BY <2>2, <2>6, <2>8 DEF AddLast
    <3> QED BY <2>3, <2>7, <2>8, <3>1
  <2>9. CASE ip \notin p.excl
    <3>1. f[k + 1] = Append(t, ip)
      BY <2>2, <2>5, <2>6, <2>9 DEF AddLast
    <3>2. Append(t, ip) \in Seq(Nat) /\ Distinct(Append(t, ip)) /\ Range(Append(t, ip)) = Range(t) \cup {ip}
      BY <2>3, <2>5, <2>7, Appended
    <3> QED BY <2>3, <2>7, <2>9, <3>1, <3>2
  <2> QED BY <2>8, <2>9
<1>7. Nat \subseteq T
  <2> HIDE DEF T
  <2> QED BY <1>5, <1>6, SetInduction
<1>8. Good(f[n], n)
  BY <1>7
<1> QED BY <1>1, <1>8

\* Every address that the pool has come to hold is free, with a context (those of H) or excluded,
\* and only one of these.
Fit(p, H) ==
    /\ PoolOK(p)
    /\ H \subseteq Held(p) /\ H \cap Range(p.avail) = {} /\ H \cap p.excl = {}
    /\ Held(p) \subseteq Range(p.avail) \cup H \cup p.excl

\* The fields of a pool.
LEMMA PoolFields ==
    ASSUME NEW p, PoolOK(p)
    PROVE  /\ p.net \in Nat /\ p.bcast \in Nat /\ p.min \in Nat /\ p.max \in Nat /\ p.first \in Nat
           /\ p.size \in Nat /\ p.excl \in SUBSET Nat /\ p.avail \in Seq(Nat) /\ p.cur \in Nat
           /\ p.exhausted \in BOOLEAN /\ Range(p.avail) \subseteq Nat /\ Held(p) \subseteq Nat
           /\ \A a \in Held(p) : p.min <= a /\ a <= p.max /\ a # 0
<1>1. p \in PoolRecs
  BY DEF PoolOK
<1>2. /\ p.net \in Nat /\ p.bcast \in Nat /\ p.min \in Nat /\ p.max \in Nat /\ p.first \in Nat
      /\ p.size \in Nat /\ p.excl \in SUBSET Nat /\ p.avail \in Seq(Nat) /\ p.cur \in Nat
      /\ p.exhausted \in BOOLEAN
  BY <1>1 DEF PoolRecs
<1>3. 0 < p.first /\ p.min <= p.first /\ p.first + p.size <= p.max + 1 /\ p.cur <= p.size
  BY DEF PoolOK
<1>4. Held(p) \subseteq Nat /\ \A a \in Held(p) : p.min <= a /\ a <= p.max /\ a # 0
  <2>1. ASSUME NEW f \in Nat, NEW c \in Nat, NEW z \in Nat, NEW lo \in Nat, NEW hi \in Nat,
               0 < f, lo <= f, f + z <= hi + 1, c <= z
        PROVE  \A a \in f .. (f + c - 1) : a \in Nat /\ lo <= a /\ a <= hi /\ a # 0
    BY <2>1
  <2> QED BY <1>2, <1>3, <2>1, SMTT(30) DEF Held
<1> QED BY <1>2, <1>4, RangeIs

\* A pool with another list.
LEMMA ListChanged ==
    ASSUME NEW p, PoolOK(p), NEW t \in Seq(Nat), Distinct(t),
           Range(t) \subseteq Held(p), Range(t) \cap p.excl = {}
    PROVE  LET q == [p EXCEPT !.avail = t] IN
           /\ PoolOK(q) /\ q.avail = t /\ Held(q) = Held(p) /\ q.excl = p.excl /\ SamePool(p, q)
           /\ q.exhausted = p.exhausted
<1> DEFINE q == [p EXCEPT !.avail = t]
<1>1. p \in PoolRecs
  BY DEF PoolOK
<1>2. /\ q \in PoolRecs /\ q.avail = t /\ q.excl = p.excl /\ q.cur = p.cur /\ q.exhausted = p.exhausted
      /\ SamePool(p, q)
  BY <1>1 DEF PoolRecs, SamePool
<1> HIDE DEF q
<1>3. Held(q) = Held(p)
  BY <1>2 DEF Held, SamePool
<1>4. PoolOK(q)
  BY <1>2, <1>3 DEF PoolOK, SamePool
<1> QED BY <1>2, <1>3, <1>4 DEF q

\* removeEntry: the address is not free any more.
LEMMA EntryRemoved ==
    ASSUME NEW p, PoolOK(p), NEW ip \in Range(p.avail)
    PROVE  LET q == RemoveEntry(p, ip) IN
           /\ PoolOK(q) /\ Range(q.avail) = Range(p.avail) \ {ip} /\ Held(q) = Held(p)
           /\ q.excl = p.excl /\ SamePool(p, q)
<1> DEFINE s == p.avail
           k == CHOOSE i \in DOMAIN s : s[i] = ip
           t == RemoveNode(s, k)
<1>1. s \in Seq(Nat) /\ Distinct(s)
  BY PoolFields DEF PoolOK
<1>2. k \in DOMAIN s /\ s[k] = ip
  BY DEF Range
<1>3. k \in 1..Len(s)
  BY <1>1, <1>2
<1>4. RemoveEntry(p, ip) = [p EXCEPT !.avail = t]
  <2>1. p \in PoolRecs
    BY DEF PoolOK
  <2> QED BY <2>1 DEF RemoveEntry, PoolRecs
<1> HIDE DEF k
<1>5. t \in Seq(Nat) /\ Distinct(t) /\ Range(t) = Range(s) \ {ip}
  BY <1>1, <1>2, <1>3, TakenOut
<1> HIDE DEF t
<1>6. Range(t) \subseteq Held(p) /\ Range(t) \cap p.excl = {}
  BY <1>5 DEF PoolOK
<1> QED BY <1>4, <1>5, <1>6, ListChanged

\* AddFirst of a context's address: it is free again, unless it was excluded.
LEMMA ReturnFits ==
    ASSUME NEW p, NEW H, Fit(p, H), NEW ip \in H
    PROVE  LET q == AddFirst(p, ip) IN Fit(q, H \ {ip}) /\ SamePool(p, q)
<1> DEFINE s == p.avail
           t == <<ip>> \o s
           r == <<ip>>
<1>1. PoolOK(p) /\ s \in Seq(Nat) /\ Distinct(s) /\ ip \in Nat /\ ip \in Held(p)
      /\ ip \notin Range(s) /\ ip \notin p.excl /\ p.min <= ip /\ ip <= p.max
  BY PoolFields DEF PoolOK, Fit
<1>2. AddFirst(p, ip) = [p EXCEPT !.avail = t]
  <2>1. CanAdd(p, ip)
    BY <1>1 DEF CanAdd, PoolContains
  <2>2. p \in PoolRecs
    BY <1>1 DEF PoolOK
  <2> QED BY <2>1, <2>2 DEF AddFirst, PoolRecs
<1>3. r \in Seq(Nat) /\ Distinct(r) /\ Range(r) = {ip}
  BY <1>1 DEF Distinct, Range
<1> HIDE DEF r
<1>4. t \in Seq(Nat) /\ Distinct(t) /\ Range(t) = Range(s) \cup {ip}
  <2>1. Range(r) \cap Range(s) = {}
    BY <1>1, <1>3
  <2>2. r \o s \in Seq(Nat) /\ Distinct(r \o s) /\ Range(r \o s) = Range(r) \cup Range(s)
    BY <1>1, <1>3, <2>1, Joined
  <2> QED BY <2>2, <1>3 DEF r
<1> HIDE DEF t
<1>5. Range(t) \subseteq Held(p) /\ Range(t) \cap p.excl = {}
  BY <1>1, <1>4 DEF PoolOK
<1>6. LET q == [p EXCEPT !.avail = t] IN
      /\ PoolOK(q) /\ q.avail = t /\ Held(q) = Held(p) /\ q.excl = p.excl /\ SamePool(p, q)
  BY <1>1, <1>4, <1>5, ListChanged
<1> QED BY <1>1, <1>2, <1>4, <1>6 DEF Fit

\* Negate and the return of a declined address: it is excluded.
LEMMA NegateFits ==
    ASSUME NEW p, NEW H, Fit(p, H), NEW ip \in H
    PROVE  LET q == AddFirst(Negate(p, ip), ip) IN Fit(q, H \ {ip}) /\ SamePool(p, q)
<1> DEFINE q == [p EXCEPT !.excl = p.excl \cup {ip}]
<1>1. /\ PoolOK(p) /\ p \in PoolRecs /\ ip \in Nat /\ ip \notin Range(p.avail) /\ p.excl \in SUBSET Nat
  BY PoolFields DEF PoolOK, Fit
<1>2. Negate(p, ip) = q
  BY <1>1 DEF Negate, PoolRecs
<1>3. /\ q \in PoolRecs /\ q.avail = p.avail /\ q.excl = p.excl \cup {ip} /\ q.cur = p.cur /\ SamePool(p, q)
  <2> DEFINE e == p.excl \cup {ip}
  <2>1. e \in SUBSET Nat
    BY <1>1
  <2> HIDE DEF e
  <2>2. LET x == [p EXCEPT !.excl = e] IN
        x \in PoolRecs /\ x.avail = p.avail /\ x.excl = e /\ x.cur = p.cur /\ SamePool(p, x)
    BY <1>1, <2>1 DEF PoolRecs, SamePool
  <2> QED BY <2>2 DEF e
<1> HIDE DEF q
<1>4. Held(q) = Held(p)
  BY <1>3 DEF Held, SamePool
<1>5. Fit(q, H \ {ip})
  BY <1>1, <1>3, <1>4 DEF Fit, PoolOK, SamePool
<1>6. AddFirst(q, ip) = q
  BY <1>3 DEF AddFirst, CanAdd, PoolContains
<1> QED BY <1>2, <1>3, <1>5, <1>6

\* enlargePool: the new addresses are free or excluded.
LEMMA EnlargedFits ==
    ASSUME NEW p, NEW H, Fit(p, H)
    PROVE  LET q == EnlargePool(p) IN Fit(q, H) /\ SamePool(p, q)
<1> DEFINE left == p.size - p.cur
           n == IF left < Chunk THEN left ELSE Chunk
           a == p.first + p.cur
           t == AddChunk(p, a, n)
<1>1. PoolOK(p) /\ p \in PoolRecs /\ Chunk \in Nat \ {0}
  BY DhcpAssumption DEF Fit, PoolOK
<1>2. /\ p.first \in Nat /\ p.cur \in Nat /\ p.size \in Nat /\ p.max \in Nat /\ p.min \in Nat
      /\ p.avail \in Seq(Nat) /\ p.excl \in SUBSET Nat /\ p.exhausted \in BOOLEAN
  BY <1>1, PoolFields
<1>3. /\ 0 < p.first /\ p.min <= p.first /\ p.first + p.size <= p.max + 1 /\ p.cur <= p.size
      /\ Distinct(p.avail) /\ Range(p.avail) \subseteq Held(p) /\ Range(p.avail) \cap p.excl = {}
  BY <1>1 DEF PoolOK
<1>4. CASE left = 0
  <2> DEFINE q == [p EXCEPT !.exhausted = TRUE]
  <2>1. EnlargePool(p) = q
    BY <1>4 DEF EnlargePool
  <2>2. /\ q \in PoolRecs /\ q.avail = p.avail /\ q.excl = p.excl /\ q.cur = p.cur /\ SamePool(p, q)
    BY <1>1 DEF PoolRecs, SamePool
  <2> HIDE DEF q
  <2>3. Held(q) = Held(p)
    BY <2>2 DEF Held, SamePool
  <2> QED BY <2>1, <2>2, <2>3, <1>1 DEF Fit, PoolOK, SamePool
<1>5. CASE left # 0
  <2> DEFINE ex == p.exhausted \/ left < Chunk
             q == [p EXCEPT !.cur = p.cur + n, !.exhausted = ex, !.avail = t]
  <2>1. EnlargePool(p) = q
    BY <1>1, <1>5 DEF EnlargePool, PoolRecs
  <2>2. n \in Nat /\ p.cur + n <= p.size /\ a \in Nat
    BY <1>1, <1>2, <1>3, <1>5
  <2> HIDE DEF n, left
  <2>3. \A x \in Range(p.avail) : x < a
    BY <1>2, <1>3 DEF Held
  <2>4. \A x \in a .. (a + n - 1) : p.min <= x /\ x <= p.max
    <3>1. ASSUME NEW f \in Nat, NEW c \in Nat, NEW z \in Nat, NEW lo \in Nat, NEW hi \in Nat,
                 NEW m \in Nat, lo <= f, f + z <= hi + 1, c + m <= z
          PROVE  \A x \in (f + c) .. (f + c + m - 1) : lo <= x /\ x <= hi
      BY <3>1
    <3> QED BY <1>2, <1>3, <2>2, <3>1
  <2>5. Held(p) \cap (a .. (a + n - 1)) = {} /\ p.first .. (p.first + (p.cur + n) - 1) = Held(p) \cup (a .. (a + n - 1))
    <3>1. ASSUME NEW f \in Nat, NEW c \in Nat, NEW m \in Nat
          PROVE  /\ (f .. (f + c - 1)) \cap ((f + c) .. (f + c + m - 1)) = {}
                 /\ f .. (f + (c + m) - 1) = (f .. (f + c - 1)) \cup ((f + c) .. (f + c + m - 1))
      OBVIOUS
    <3>2. p.first \in Nat /\ p.cur \in Nat /\ n \in Nat
      BY <1>2, <2>2
    <3>3. /\ (p.first .. (p.first + p.cur - 1)) \cap ((p.first + p.cur) .. (p.first + p.cur + n - 1)) = {}
          /\ p.first .. (p.first + (p.cur + n) - 1)
               = (p.first .. (p.first + p.cur - 1)) \cup ((p.first + p.cur) .. (p.first + p.cur + n - 1))
      BY ONLY <3>1, <3>2
    <3> QED BY <3>3, Zenon DEF Held
  <2> HIDE DEF a
  <2>6. t \in Seq(Nat) /\ Distinct(t) /\ Range(t) = Range(p.avail) \cup (a .. (a + n - 1) \ p.excl)
    BY <1>1, <1>3, <2>2, <2>3, <2>4, ChunkAdded
  <2> HIDE DEF t
  <2>7. /\ q \in PoolRecs /\ q.avail = t /\ q.excl = p.excl /\ q.cur = p.cur + n /\ SamePool(p, q)
    <3>1. ex \in BOOLEAN /\ p.cur + n \in Nat
      BY <1>2, <2>2
    <3> HIDE DEF ex
    <3> QED BY <1>1, <2>6, <3>1 DEF PoolRecs, SamePool
  <2> HIDE DEF q
  <2>8. Held(q) = Held(p) \cup (a .. (a + n - 1))
    BY <2>5, <2>7 DEF Held, SamePool
  <2>9. PoolOK(q)
    BY <1>3, <2>2, <2>6, <2>7, <2>8 DEF PoolOK, SamePool
  <2>10. H \subseteq Held(p) /\ H \cap Range(p.avail) = {} /\ H \cap p.excl = {}
         /\ Held(p) \subseteq Range(p.avail) \cup H \cup p.excl
    BY DEF Fit
  <2>11. Fit(q, H)
    BY <2>5, <2>6, <2>7, <2>8, <2>9, <2>10 DEF Fit
  <2> QED BY <2>1, <2>7, <2>11
<1> QED BY <1>4, <1>5

\* An address taken off the list is with a context.
LEMMA TakenFits ==
    ASSUME NEW p, NEW H, Fit(p, H), NEW ip \in Range(p.avail)
    PROVE  LET q == RemoveEntry(p, ip) IN
           Fit(q, H \cup {ip}) /\ SamePool(p, q) /\ ip \notin H /\ ip # Zero /\ ip \in Nat
<1>1. PoolOK(p) /\ ip \in Held(p) /\ ip \notin H /\ ip \notin p.excl
  BY DEF Fit, PoolOK
<1>2. ip # Zero /\ ip \in Nat
  BY <1>1, PoolFields DEF Zero
<1>3. LET q == RemoveEntry(p, ip) IN
      /\ PoolOK(q) /\ Range(q.avail) = Range(p.avail) \ {ip} /\ Held(q) = Held(p)
      /\ q.excl = p.excl /\ SamePool(p, q)
  BY <1>1, EntryRemoved
<1> QED BY <1>1, <1>2, <1>3 DEF Fit

\* selectIpToOffer and GetFirst: an address that no context has, or none.
LEMMA SelectedFits ==
    ASSUME NEW p, NEW H, Fit(p, H), NEW req
    PROVE  LET g == SelectIpToOffer(p, req) IN
           /\ SamePool(p, g.pool)
           /\ g.ip = Zero => Fit(g.pool, H)
           /\ g.ip # Zero => Fit(g.pool, H \cup {g.ip}) /\ g.ip \notin H /\ g.ip \in Nat
<1>1. CASE req # Zero /\ PoolContains(p, req) /\ req \in Range(p.avail)
  <2>1. SelectIpToOffer(p, req) = [pool |-> RemoveEntry(p, req), ip |-> req, panic |-> FALSE]
    BY <1>1 DEF SelectIpToOffer
  <2> QED BY <1>1, <2>1, TakenFits
<1>2. CASE ~ (req # Zero /\ PoolContains(p, req) /\ req \in Range(p.avail))
  <2> DEFINE q == IF p.avail = <<>> /\ ~p.exhausted THEN EnlargePool(p) ELSE p
             ip == Head(q.avail)
  <2>1. SelectIpToOffer(p, req) = GetFirst(p)
    BY <1>2 DEF SelectIpToOffer
  <2>2. Fit(q, H) /\ SamePool(p, q)
    <3>1. Fit(EnlargePool(p), H) /\ SamePool(p, EnlargePool(p))
      BY EnlargedFits
    <3>2. SamePool(p, p)
      BY DEF SamePool
    <3> QED BY <3>1, <3>2
  <2>3. CASE p.avail = <<>> /\ p.exhausted
    <3>1. GetFirst(p) = [pool |-> p, ip |-> Zero, panic |-> FALSE]
      BY <2>3 DEF GetFirst
    <3> DEFINE g == SelectIpToOffer(p, req)
    <3>2. g.pool = p /\ g.ip = Zero
      BY <2>1, <3>1
    <3>3. SamePool(p, p)
      BY DEF SamePool
    <3> HIDE DEF g
    <3>4. /\ SamePool(p, g.pool)
          /\ g.ip = Zero => Fit(g.pool, H)
          /\ g.ip # Zero => Fit(g.pool, H \cup {g.ip}) /\ g.ip \notin H /\ g.ip \in Nat
      BY <3>2, <3>3, Zenon
    <3> QED BY <3>4 DEF g
  <2>4. CASE ~ (p.avail = <<>> /\ p.exhausted) /\ q.avail = <<>>
    <3>1. GetFirst(p) = [pool |-> q, ip |-> Zero, panic |-> TRUE]
      BY <2>4 DEF GetFirst
    <3> HIDE DEF q
    <3> QED BY <2>1, <2>2, <3>1
  <2>5. CASE ~ (p.avail = <<>> /\ p.exhausted) /\ q.avail # <<>>
    <3>1. GetFirst(p) = [pool |-> RemoveEntry(q, ip), ip |-> ip, panic |-> FALSE]
      BY <2>5 DEF GetFirst
    <3> HIDE DEF q
    <3>2. q.avail \in Seq(Nat)
      BY <2>2, PoolFields DEF Fit
    <3>3. ip \in Range(q.avail)
      <4>1. 1 \in 1..Len(q.avail) /\ ip = q.avail[1]
        BY <2>5, <3>2
      <4> QED BY <3>2, <4>1, RangeIs
    <3> HIDE DEF ip
    <3>4. LET r == RemoveEntry(q, ip) IN
          Fit(r, H \cup {ip}) /\ SamePool(q, r) /\ ip \notin H /\ ip # Zero /\ ip \in Nat
      BY <2>2, <3>3, TakenFits
    <3>5. SamePool(p, RemoveEntry(q, ip))
      BY <2>2, <3>4 DEF SamePool
    <3> QED BY <2>1, <3>1, <3>4, <3>5
  <2> QED BY <2>3, <2>4, <2>5
<1> QED BY <1>1, <1>2

\* A function on an interval from 1 is a sequence.
LEMMA FunIsSeq ==
    ASSUME NEW S, NEW n \in Nat, NEW f \in [1..n -> S]
    PROVE  f \in Seq(S) /\ Len(f) = n /\ DOMAIN f = 1..n
OBVIOUS

\* InSomeOrder lists a finite set, each address once.
LEMMA SetListed ==
    ASSUME NEW S \in SUBSET Nat, IsFiniteSet(S)
    PROVE  /\ InSomeOrder(S) \in Seq(Nat) /\ Distinct(InSomeOrder(S)) /\ Range(InSomeOrder(S)) = S
<1> DEFINE k == Cardinality(S)
           f == InSomeOrder(S)
<1>1. k \in Nat /\ ExistsBijection(1..k, S)
  BY FS_CardinalityType
<1>2. f \in Bijection(1..k, S)
  BY <1>1 DEF InSomeOrder, ExistsBijection
<1> HIDE DEF f, k
<1>3. f \in [1..k -> S] /\ IsInjective(f) /\ \A a \in S : \E i \in 1..k : f[i] = a
  BY <1>2 DEF Bijection, Injection, Surjection
<1>4. f \in Seq(Nat) /\ Len(f) = k /\ DOMAIN f = 1..k
  <2>1. f \in [1..k -> Nat]
    BY <1>3
  <2> QED BY <1>1, <2>1, FunIsSeq
<1>5. Distinct(f)
  BY <1>3, <1>4 DEF Distinct, IsInjective
<1>6. Range(f) = S
  <2>1. Range(f) = {f[i] : i \in 1..k}
    BY <1>4, Zenon DEF Range
  <2> QED BY <1>3, <2>1
<1> QED BY <1>4, <1>5, <1>6 DEF f

\* The remover: some of the contexts' addresses are free again.
LEMMA ManyFit ==
    ASSUME NEW p, NEW H, Fit(p, H), NEW R \in SUBSET H
    PROVE  LET q == [p EXCEPT !.avail = InSomeOrder(R) \o p.avail] IN Fit(q, H \ R) /\ SamePool(p, q)
<1> DEFINE s == p.avail
           r == InSomeOrder(R)
           t == r \o s
<1>1. /\ PoolOK(p) /\ s \in Seq(Nat) /\ Distinct(s) /\ R \subseteq Held(p) /\ R \cap Range(s) = {}
      /\ R \cap p.excl = {} /\ p.first \in Nat /\ p.cur \in Nat /\ Held(p) \subseteq Nat
  BY PoolFields DEF PoolOK, Fit
<1>2. IsFiniteSet(R)
  <2>1. p.first + p.cur - 1 \in Int /\ p.first \in Int
    BY <1>1
  <2>2. IsFiniteSet(Held(p))
    BY <2>1, FS_Interval DEF Held
  <2> QED BY <1>1, <2>2, FS_Subset
<1>3. r \in Seq(Nat) /\ Distinct(r) /\ Range(r) = R
  BY <1>1, <1>2, SetListed
<1> HIDE DEF r
<1>4. t \in Seq(Nat) /\ Distinct(t) /\ Range(t) = R \cup Range(s)
  <2>1. Range(r) \cap Range(s) = {}
    BY <1>1, <1>3
  <2>2. t \in Seq(Nat) /\ Distinct(t) /\ Range(t) = Range(r) \cup Range(s)
    BY <1>1, <1>3, <2>1, Joined
  <2> QED BY <2>2, <1>3
<1> HIDE DEF t
<1>5. Range(t) \subseteq Held(p) /\ Range(t) \cap p.excl = {}
  BY <1>1, <1>4 DEF PoolOK
<1>6. LET q == [p EXCEPT !.avail = t] IN
      /\ PoolOK(q) /\ q.avail = t /\ Held(q) = Held(p) /\ q.excl = p.excl /\ SamePool(p, q)
  BY <1>1, <1>4, <1>5, ListChanged
<1>7. LET q == [p EXCEPT !.avail = t] IN Fit(q, H \ R) /\ SamePool(p, q)
  BY <1>1, <1>4, <1>6 DEF Fit
<1> QED BY <1>7 DEF t, r, s

\* CreateIpv4Pool gives a pool that no context has an address of.
LEMMA CreatedFits ==
    ASSUME NEW i \in 1..Len(PoolParams)
    PROVE  Fit(CreateIpv4Pool(PoolParams[i]), {})
<1> DEFINE q == PoolParams[i]
           bcast == q.net + q.size - 1
           first == IF q.min > q.net THEN q.min ELSE q.min + 1
           last == IF q.max < bcast THEN q.max ELSE q.max - 1
           size == last - first + 1
           p == [net |-> q.net, bcast |-> bcast, min |-> q.min, max |-> q.max,
                 first |-> first, size |-> size, excl |-> q.excl,
                 avail |-> <<>>, cur |-> 0, exhausted |-> FALSE]
<1>1. CreateIpv4Pool(q) = EnlargePool(p)
  BY DEF CreateIpv4Pool
<1>2. /\ q.net \in Nat /\ q.size \in Nat /\ q.min \in Nat /\ q.max \in Nat /\ q.excl \in SUBSET Nat
      /\ q.size >= 2 /\ q.net <= q.min /\ q.min <= q.max /\ q.max < q.net + q.size
  <2> DEFINE Params == [net : Nat, size : Nat, min : Nat, max : Nat, excl : SUBSET Nat]
  <2>1. PoolParams[i] \in Params
    <3>1. PoolParams \in Seq(Params)
      BY DhcpAssumption
    <3> HIDE DEF Params
    <3> QED BY <3>1
  <2> QED BY <2>1, DhcpAssumption
<1> HIDE DEF q
<1>3. /\ bcast \in Nat /\ first \in Nat /\ size \in Nat /\ 0 < first /\ q.min <= first
      /\ first + size <= q.max + 1
  <2>1. /\ bcast \in Nat /\ first \in Nat /\ 0 < first /\ q.min <= first
        /\ q.max <= bcast /\ q.net < bcast /\ (q.min = q.net \/ first = q.min)
        /\ (q.min = q.net => first = q.net + 1)
    BY <1>2, SMTT(30)
  <2> HIDE DEF first, bcast
  <2>2. CASE q.max < bcast
    <3>1. last = q.max
      BY <2>2
    <3> HIDE DEF last
    <3> QED BY <1>2, <2>1, <3>1, SMTT(30)
  <2>3. CASE ~(q.max < bcast)
    <3>1. last = q.max - 1 /\ q.max = bcast
      BY <1>2, <2>1, <2>3
    <3> HIDE DEF last
    <3> QED BY <1>2, <2>1, <3>1
  <2> QED BY <2>2, <2>3
<1> HIDE DEF bcast, first, size
<1> DEFINE e == <<>>
<1>4. e \in Seq(Nat) /\ Distinct(e) /\ Range(e) = {}
  BY DEF Distinct, Range
<1> HIDE DEF e
<1>5. p \in PoolRecs /\ p.avail = e /\ p.cur = 0 /\ p.first = first /\ p.size = size /\ p.min = q.min
      /\ p.max = q.max
  <2>1. <<>> \in Seq(Nat)
    OBVIOUS
  <2> QED BY <1>2, <1>3, <2>1 DEF PoolRecs, e
<1> HIDE DEF p
<1>6. Held(p) = {}
  <2>1. \A x \in Nat : x .. (x + 0 - 1) = {}
    OBVIOUS
  <2> QED BY <1>3, <1>5, <2>1 DEF Held
<1>7. PoolOK(p)
  BY <1>3, <1>4, <1>5, <1>6 DEF PoolOK
<1>8. Fit(p, {})
  BY <1>4, <1>5, <1>6, <1>7 DEF Fit
<1>9. Fit(EnlargePool(p), {})
  BY <1>8, EnlargedFits
<1> QED BY <1>1, <1>9 DEF q

---------------------------------------------------------------------------
(* The contexts.                                                           *)

NPools == Len(PoolParams)

\* A context has the address of a pool, or there is none.
CtxOK(c) ==
    /\ c = [pool |-> c.pool, ip |-> c.ip, state |-> c.state, lease |-> c.lease, timer |-> c.timer]
    /\ c.pool \in 0..NPools
    /\ c.state = "none" <=> c.pool = 0
    /\ c.state = "none" => c.timer = Off
    /\ c.state \in {"none", "selecting", "bound", "renewing", "rebinding"}

\* the addresses of the pool i that contexts have
HeldBy(ctx, i) == {ctx[m].ip : m \in {x \in Macs : ctx[x].pool = i}}

\* An address of a pool is with one context at most.
OneHolder(ctx) ==
    \A m, n \in Macs : ctx[m].pool # 0 /\ ctx[m].pool = ctx[n].pool /\ ctx[m].ip = ctx[n].ip => m = n

CtxsOK(ctx) ==
    /\ ctx = [m \in Macs |-> ctx[m]]
    /\ \A m \in Macs : CtxOK(ctx[m])
    /\ OneHolder(ctx)

PoolsFit(pools, ctx) ==
    /\ pools = [i \in 1..NPools |-> pools[i]]
    /\ \A i \in 1..NPools : Fit(pools[i], HeldBy(ctx, i))

\* The inductive invariant of the server.
SrvInv(s) ==
    /\ s = [pools |-> s.pools, ctx |-> s.ctx, panic |-> s.panic, up |-> s.up, serverPool |-> s.serverPool]
    /\ CtxsOK(s.ctx)
    /\ PoolsFit(s.pools, s.ctx)
    /\ s.serverPool \in 0..NPools

\* A new context.
LEMMA CtxAdded ==
    ASSUME NEW ctx, CtxsOK(ctx), NEW m \in Macs, ctx[m].pool = 0, NEW c, CtxOK(c), c.pool # 0,
           c.ip \notin HeldBy(ctx, c.pool)
    PROVE  LET d == [ctx EXCEPT ![m] = c] IN
           /\ CtxsOK(d)
           /\ HeldBy(d, c.pool) = HeldBy(ctx, c.pool) \cup {c.ip}
           /\ \A j \in 1..NPools : j # c.pool => HeldBy(d, j) = HeldBy(ctx, j)
<1> DEFINE d == [ctx EXCEPT ![m] = c]
<1>1. d = [x \in Macs |-> d[x]] /\ d[m] = c /\ \A x \in Macs : x # m => d[x] = ctx[x]
  BY DEF CtxsOK
<1> HIDE DEF d
<1>2. \A x \in Macs : CtxOK(d[x])
  BY <1>1 DEF CtxsOK
<1>3. OneHolder(d)
  <2>1. \A x \in Macs : ~ (ctx[x].pool = c.pool /\ ctx[x].ip = c.ip)
    BY DEF HeldBy
  <2> QED BY <1>1, <2>1 DEF OneHolder, CtxsOK
<1>4. HeldBy(d, c.pool) = HeldBy(ctx, c.pool) \cup {c.ip}
  BY <1>1 DEF HeldBy
<1>5. ASSUME NEW j \in 1..NPools, j # c.pool PROVE HeldBy(d, j) = HeldBy(ctx, j)
  BY <1>1, <1>5 DEF HeldBy
<1> QED BY <1>1, <1>2, <1>3, <1>4, <1>5 DEF CtxsOK, d

\* A context goes.
LEMMA CtxGone ==
    ASSUME NEW ctx, CtxsOK(ctx), NEW m \in Macs, ctx[m].pool # 0
    PROVE  LET d == [ctx EXCEPT ![m] = NoCtx]
               i == ctx[m].pool
           IN  /\ CtxsOK(d)
               /\ i \in 1..NPools /\ ctx[m].ip \in HeldBy(ctx, i)
               /\ HeldBy(d, i) = HeldBy(ctx, i) \ {ctx[m].ip}
               /\ \A j \in 1..NPools : j # i => HeldBy(d, j) = HeldBy(ctx, j)
<1> DEFINE d == [ctx EXCEPT ![m] = NoCtx]
           i == ctx[m].pool
<1>0. NPools \in Nat
  BY DhcpAssumption DEF NPools
<1>1. d = [x \in Macs |-> d[x]] /\ d[m] = NoCtx /\ \A x \in Macs : x # m => d[x] = ctx[x]
  BY DEF CtxsOK
<1> HIDE DEF d
<1>2. CtxOK(NoCtx) /\ NoCtx.pool = 0
  BY <1>0 DEF NoCtx, CtxOK, Zero, Off
<1>3. \A x \in Macs : CtxOK(d[x])
  BY <1>1, <1>2 DEF CtxsOK
<1>4. OneHolder(d)
  BY <1>1, <1>2 DEF OneHolder, CtxsOK
<1>5. i \in 1..NPools
  BY <1>0 DEF CtxsOK, CtxOK
<1>6. ctx[m].ip \in HeldBy(ctx, i)
  BY DEF HeldBy
<1>7. HeldBy(d, i) = HeldBy(ctx, i) \ {ctx[m].ip}
  <2>1. \A x \in Macs : ctx[x].pool = i /\ ctx[x].ip = ctx[m].ip => x = m
    BY DEF CtxsOK, OneHolder
  <2> QED BY <1>1, <1>2, <1>5, <2>1 DEF HeldBy
<1>8. ASSUME NEW j \in 1..NPools, j # i PROVE HeldBy(d, j) = HeldBy(ctx, j)
  <2>1. j # 0
    BY <1>0
  <2> QED BY <1>1, <1>2, <1>8, <2>1 DEF HeldBy
<1> QED BY <1>1, <1>3, <1>4, <1>5, <1>6, <1>7, <1>8 DEF CtxsOK, d

\* The contexts keep their addresses.
LEMMA CtxKept ==
    ASSUME NEW ctx, CtxsOK(ctx), NEW d, d = [m \in Macs |-> d[m]],
           \A m \in Macs : CtxOK(d[m]) /\ d[m].pool = ctx[m].pool /\ d[m].ip = ctx[m].ip
    PROVE  CtxsOK(d) /\ \A i \in 1..NPools : HeldBy(d, i) = HeldBy(ctx, i)
<1>1. OneHolder(d)
  BY DEF OneHolder, CtxsOK
<1>2. \A i \in 1..NPools : HeldBy(d, i) = HeldBy(ctx, i)
  BY DEF HeldBy
<1> QED BY <1>1, <1>2 DEF CtxsOK

\* One pool changes with the contexts that have its addresses.
LEMMA OnePoolFits ==
    ASSUME NEW pools, NEW ctx, PoolsFit(pools, ctx), NEW i \in 1..NPools, NEW q, NEW d,
           Fit(q, HeldBy(d, i)), \A j \in 1..NPools : j # i => HeldBy(d, j) = HeldBy(ctx, j)
    PROVE  PoolsFit([pools EXCEPT ![i] = q], d)
<1> DEFINE r == [pools EXCEPT ![i] = q]
<1>1. r = [j \in 1..NPools |-> r[j]] /\ r[i] = q /\ \A j \in 1..NPools : j # i => r[j] = pools[j]
  BY DEF PoolsFit
<1> HIDE DEF r
<1>2. ASSUME NEW j \in 1..NPools PROVE Fit(r[j], HeldBy(d, j))
  BY <1>1 DEF PoolsFit
<1>3. PoolsFit(r, d)
  BY <1>1, <1>2 DEF PoolsFit
<1> QED BY <1>3 DEF r

\* One context changes and keeps its address.
LEMMA CtxChanged ==
    ASSUME NEW s, SrvInv(s), NEW m \in Macs, NEW c, CtxOK(c), c.pool = s.ctx[m].pool, c.ip = s.ctx[m].ip
    PROVE  SrvInv([s EXCEPT !.ctx[m] = c])
<1> DEFINE d == [s.ctx EXCEPT ![m] = c]
           t == [s EXCEPT !.ctx[m] = c]
<1>1. CtxsOK(s.ctx) /\ PoolsFit(s.pools, s.ctx)
  BY DEF SrvInv
<1>2. /\ d = [x \in Macs |-> d[x]]
      /\ \A x \in Macs : CtxOK(d[x]) /\ d[x].pool = s.ctx[x].pool /\ d[x].ip = s.ctx[x].ip
  BY <1>1 DEF CtxsOK
<1> HIDE DEF d
<1>3. CtxsOK(d) /\ \A i \in 1..NPools : HeldBy(d, i) = HeldBy(s.ctx, i)
  BY <1>1, <1>2, CtxKept
<1>4. PoolsFit(s.pools, d)
  BY <1>1, <1>3 DEF PoolsFit
<1>5. /\ t.ctx = d /\ t.pools = s.pools /\ t.serverPool = s.serverPool
      /\ t = [pools |-> t.pools, ctx |-> t.ctx, panic |-> t.panic, up |-> t.up, serverPool |-> t.serverPool]
  BY DEF SrvInv, d
<1> HIDE DEF t
<1>6. SrvInv(t)
  BY <1>3, <1>4, <1>5 DEF SrvInv
<1> QED BY <1>6 DEF t

\* OnClientRemove: the address of the context is free again.
LEMMA ClientRemoved ==
    ASSUME NEW s, SrvInv(s), NEW m \in Macs, Known(s, m)
    PROVE  SrvInv(OnClientRemove(s, m))
<1> DEFINE c == s.ctx[m]
           i == c.pool
           d == [s.ctx EXCEPT ![m] = NoCtx]
           q == AddFirst(s.pools[i], c.ip)
           ps == [s.pools EXCEPT ![i] = q]
           t == OnClientRemove(s, m)
<1>1. CtxsOK(s.ctx) /\ PoolsFit(s.pools, s.ctx) /\ i # 0
  BY DEF SrvInv, Known, CtxsOK, CtxOK
<1>2. /\ CtxsOK(d) /\ i \in 1..NPools /\ c.ip \in HeldBy(s.ctx, i)
      /\ HeldBy(d, i) = HeldBy(s.ctx, i) \ {c.ip}
      /\ \A j \in 1..NPools : j # i => HeldBy(d, j) = HeldBy(s.ctx, j)
  BY <1>1, CtxGone
<1>3. /\ t.ctx = d /\ t.pools = ps /\ t.serverPool = s.serverPool
      /\ t = [pools |-> t.pools, ctx |-> t.ctx, panic |-> t.panic, up |-> t.up, serverPool |-> t.serverPool]
  <2> DEFINE u == [s EXCEPT !.ctx[m] = NoCtx]
  <2>1. /\ s = [pools |-> s.pools, ctx |-> s.ctx, panic |-> s.panic, up |-> s.up, serverPool |-> s.serverPool]
    BY DEF SrvInv
  <2>2. /\ u = [pools |-> s.pools, ctx |-> d, panic |-> s.panic, up |-> s.up, serverPool |-> s.serverPool]
        /\ u.pools = s.pools
    BY <2>1
  <2>3. t = [u EXCEPT !.pools[i] = AddFirst(u.pools[i], c.ip)]
    BY <2>1 DEF OnClientRemove
  <2> HIDE DEF u, d, c, t
  <2>4. t = [pools |-> ps, ctx |-> d, panic |-> s.panic, up |-> s.up, serverPool |-> s.serverPool]
    BY <2>2, <2>3
  <2> QED BY <2>4
<1> HIDE DEF t
<1>4. Fit(q, HeldBy(d, i))
  <2>1. Fit(s.pools[i], HeldBy(s.ctx, i))
    BY <1>1, <1>2 DEF PoolsFit
  <2> DEFINE p == s.pools[i]
             H == HeldBy(s.ctx, i)
             ip == c.ip
  <2>2. Fit(p, H) /\ ip \in H
    BY <1>2, <2>1
  <2> HIDE DEF d, p, H, ip
  <2>3. Fit(AddFirst(p, ip), H \ {ip})
    BY <2>2, ReturnFits, Zenon
  <2> QED BY <1>2, <2>3 DEF p, H, ip
<1> HIDE DEF d, q
<1>5. PoolsFit(ps, d)
  BY <1>1, <1>2, <1>4, OnePoolFits
<1> HIDE DEF ps
<1>6. SrvInv(t)
  BY <1>2, <1>3, <1>5 DEF SrvInv
<1> QED BY <1>6 DEF t

\* The number of pools does not change.
LEMMA PoolCount ==
    ASSUME NEW s, SrvInv(s)
    PROVE  Len(s.pools) = NPools
<1> DEFINE f == s.pools
           R == {f[i] : i \in 1..NPools}
<1>1. f = [i \in 1..NPools |-> f[i]] /\ NPools \in Nat
  BY DhcpAssumption DEF SrvInv, PoolsFit, NPools
<1> HIDE DEF f
<1>2. f \in [1..NPools -> R]
  BY <1>1
<1> HIDE DEF R
<1>3. Len(f) = NPools
  BY <1>1, <1>2, FunIsSeq
<1> QED BY <1>3 DEF f

\* PoolFor names a pool, or none.
LEMMA PoolForIs ==
    ASSUME NEW s, SrvInv(s), NEW gi
    PROVE  PoolFor(s, gi) \in 0..NPools
<1> DEFINE in == {i \in 1..Len(s.pools) : InSubnet(s.pools[i], gi)}
<1>1. NPools \in Nat /\ s.serverPool \in 0..NPools
  BY DhcpAssumption DEF NPools, SrvInv
<1>2. Len(s.pools) = NPools
  BY PoolCount
<1>3. in \in SUBSET (1..NPools) /\ in \in SUBSET Nat
  BY <1>1, <1>2
<1> HIDE DEF in
<1>4. ASSUME in # {} PROVE (CHOOSE i \in in : \A j \in in : i <= j) \in in
  BY <1>3, <1>4, LeastOf
<1>5. PoolFor(s, gi) = IF gi = Zero THEN s.serverPool
                       ELSE IF in = {} THEN 0 ELSE CHOOSE i \in in : \A j \in in : i <= j
  BY DEF PoolFor, in
<1>6. 0 \in 0..NPools /\ \A x \in 1..NPools : x \in 0..NPools
  BY <1>1
<1> QED BY <1>1, <1>3, <1>4, <1>5, <1>6

\* HandleDiscover
LEMMA DiscoverFits ==
    ASSUME NEW s, SrvInv(s), NEW msg, msg.mac \in Macs
    PROVE  SrvInv(HandleDiscover(s, msg).s)
<1> DEFINE m == msg.mac
           i == PoolFor(s, msg.gi)
           got == SelectIpToOffer(s.pools[i], msg.req)
           ps == [s.pools EXCEPT ![i] = got.pool]
           c == CreateDhcpClientCtx(i, got.ip, SelectLeaseToOffer(msg.lease))
           d == [s.ctx EXCEPT ![m] = c]
           t == [s EXCEPT !.pools[i] = got.pool, !.panic = got.panic]
           u == [t EXCEPT !.ctx[m] = c]
<1>0. NPools \in Nat /\ i \in 0..NPools
  BY DhcpAssumption, PoolForIs DEF NPools
<1>1. CASE Known(s, m)
  <2>1. HandleDiscover(s, msg).s = s
    BY <1>1 DEF HandleDiscover, Result
  <2> QED BY <2>1
<1>2. CASE ~Known(s, m) /\ i = 0
  <2>1. HandleDiscover(s, msg).s = s
    BY <1>2 DEF HandleDiscover, Result
  <2> QED BY <2>1
<1>3. CASE ~Known(s, m) /\ i # 0
  <2>1. HandleDiscover(s, msg).s = IF got.ip = Zero THEN t ELSE u
    BY <1>3 DEF HandleDiscover, Result
  <2> HIDE DEF i, got
  <2>2. i \in 1..NPools
    BY <1>0, <1>3
  <2>3. CtxsOK(s.ctx) /\ PoolsFit(s.pools, s.ctx) /\ s.ctx[m].pool = 0 /\ s.serverPool \in 0..NPools
    BY <1>3 DEF SrvInv, Known, CtxsOK, CtxOK
  <2>4. /\ got.ip = Zero => Fit(got.pool, HeldBy(s.ctx, i))
        /\ got.ip # Zero => Fit(got.pool, HeldBy(s.ctx, i) \cup {got.ip}) /\ got.ip \notin HeldBy(s.ctx, i)
    <3>1. Fit(s.pools[i], HeldBy(s.ctx, i))
      BY <2>2, <2>3 DEF PoolsFit
    <3> QED BY <3>1, SelectedFits DEF got
  <2>5. /\ t = [pools |-> ps, ctx |-> s.ctx, panic |-> got.panic, up |-> s.up, serverPool |-> s.serverPool]
        /\ u = [pools |-> ps, ctx |-> d, panic |-> got.panic, up |-> s.up, serverPool |-> s.serverPool]
    <3>1. s = [pools |-> s.pools, ctx |-> s.ctx, panic |-> s.panic, up |-> s.up, serverPool |-> s.serverPool]
      BY DEF SrvInv
    <3> HIDE DEF c
    <3>2. t = [pools |-> ps, ctx |-> s.ctx, panic |-> got.panic, up |-> s.up, serverPool |-> s.serverPool]
      <4> DEFINE x == got.panic
                 y == got.pool
                 v == [s EXCEPT !.pools[i] = y]
      <4> HIDE DEF x, y
      <4>1. v = [pools |-> [s.pools EXCEPT ![i] = y], ctx |-> s.ctx, panic |-> s.panic, up |-> s.up,
                 serverPool |-> s.serverPool]
        BY <3>1
      <4>2. t = [v EXCEPT !.panic = x]
        BY DEF x, y
      <4> HIDE DEF v, t
      <4>3. t = [pools |-> [s.pools EXCEPT ![i] = y], ctx |-> s.ctx, panic |-> x, up |-> s.up,
                 serverPool |-> s.serverPool]
        BY <4>1, <4>2
      <4> QED BY <4>3 DEF x, y
    <3> HIDE DEF t, ps
    <3>3. u = [pools |-> ps, ctx |-> d, panic |-> got.panic, up |-> s.up, serverPool |-> s.serverPool]
      BY <3>2
    <3> QED BY <3>2, <3>3
  <2> HIDE DEF t, u
  <2>6. CASE got.ip = Zero
    <3>1. PoolsFit(ps, s.ctx)
      BY <2>2, <2>3, <2>4, <2>6, OnePoolFits
    <3> HIDE DEF ps
    <3>2. SrvInv(t)
      BY <2>3, <2>5, <3>1 DEF SrvInv
    <3> QED BY <2>1, <2>6, <3>2
  <2>7. CASE got.ip # Zero
    <3>1. CtxOK(c) /\ c.pool = i /\ c.ip = got.ip
      BY <1>0, <2>2 DEF CreateDhcpClientCtx, CtxOK
    <3> HIDE DEF c
    <3>2. /\ CtxsOK(d) /\ HeldBy(d, i) = HeldBy(s.ctx, i) \cup {got.ip}
          /\ \A j \in 1..NPools : j # i => HeldBy(d, j) = HeldBy(s.ctx, j)
      <4>1. c.pool # 0 /\ c.ip \notin HeldBy(s.ctx, c.pool)
        BY <1>3, <2>4, <2>7, <3>1
      <4>2. /\ CtxsOK(d) /\ HeldBy(d, c.pool) = HeldBy(s.ctx, c.pool) \cup {c.ip}
            /\ \A j \in 1..NPools : j # c.pool => HeldBy(d, j) = HeldBy(s.ctx, j)
        <5> DEFINE x == s.ctx
                   e == [x EXCEPT ![m] = c]
        <5>1. CtxsOK(x) /\ x[m].pool = 0 /\ m \in Macs /\ CtxOK(c) /\ c.pool # 0
              /\ c.ip \notin HeldBy(x, c.pool)
          BY <2>3, <3>1, <4>1
        <5>2. e = d
          OBVIOUS
        <5> HIDE DEF x, m, d
        <5>3. /\ CtxsOK(e) /\ HeldBy(e, c.pool) = HeldBy(x, c.pool) \cup {c.ip}
              /\ \A j \in 1..NPools : j # c.pool => HeldBy(e, j) = HeldBy(x, j)
          BY <5>1, CtxAdded, ZenonT(30)
        <5> HIDE DEF e
        <5> QED BY <5>2, <5>3 DEF x
      <4> QED BY <3>1, <4>2
    <3> HIDE DEF d
    <3>3. PoolsFit(ps, d)
      <4>1. Fit(got.pool, HeldBy(d, i))
        BY <2>4, <2>7, <3>2
      <4>2. /\ PoolsFit(s.pools, s.ctx) /\ i \in 1..NPools
            /\ \A j \in 1..NPools : j # i => HeldBy(d, j) = HeldBy(s.ctx, j)
        BY <2>2, <2>3, <3>2
      <4> HIDE DEF i, got
      <4>3. PoolsFit([s.pools EXCEPT ![i] = got.pool], d)
        BY <4>1, <4>2, OnePoolFits, Zenon
      <4> QED BY <4>3
    <3> HIDE DEF ps
    <3>4. SrvInv(u)
      BY <2>3, <2>5, <3>2, <3>3 DEF SrvInv
    <3> QED BY <2>1, <2>7, <3>4
  <2> QED BY <2>6, <2>7
<1> QED BY <1>1, <1>2, <1>3

\* Bind keeps the address.
LEMMA BindKeeps ==
    ASSUME NEW c, CtxOK(c), c.state # "none"
    PROVE  CtxOK(Bind(c)) /\ Bind(c).pool = c.pool /\ Bind(c).ip = c.ip
<1> DEFINE t == T1(c.lease)
           b == [pool |-> c.pool, ip |-> c.ip, state |-> "bound", lease |-> c.lease, timer |-> t]
<1>1. Bind(c) = [c EXCEPT !.state = "bound", !.timer = t]
  BY DEF Bind
<1> HIDE DEF t
<1>2. Bind(c) = b
  BY <1>1 DEF CtxOK
<1>3. /\ b = [pool |-> b.pool, ip |-> b.ip, state |-> b.state, lease |-> b.lease, timer |-> b.timer]
      /\ b.pool = c.pool /\ b.ip = c.ip /\ b.state = "bound"
  OBVIOUS
<1> HIDE DEF b
<1>4. CtxOK(b)
  BY <1>3 DEF CtxOK
<1> QED BY <1>2, <1>3, <1>4

\* HandleRequest
LEMMA RequestFits ==
    ASSUME NEW s, SrvInv(s), NEW msg, msg.mac \in Macs
    PROVE  SrvInv(HandleRequest(s, msg).s)
<1> DEFINE m == msg.mac
           c == s.ctx[m]
<1>0. CtxOK(c)
  BY DEF SrvInv, CtxsOK
<1>1. SrvInv(RequestSelecting(s, msg).s)
  <2> DEFINE d == Bind(c)
  <2>1. RequestSelecting(s, msg).s
          = IF c.ip = msg.req /\ msg.ci = Zero /\ c.state = "selecting" THEN [s EXCEPT !.ctx[m] = d] ELSE s
    BY DEF RequestSelecting, Result
  <2>2. CASE c.state = "selecting"
    <3>1. CtxOK(d) /\ d.pool = c.pool /\ d.ip = c.ip
      BY <1>0, <2>2, BindKeeps
    <3> HIDE DEF d
    <3>2. SrvInv([s EXCEPT !.ctx[m] = d])
      BY <3>1, CtxChanged
    <3> QED BY <2>1, <3>2
  <2>3. CASE c.state # "selecting"
    BY <2>1, <2>3
  <2> QED BY <2>2, <2>3
<1>2. SrvInv(RequestReboot(s, msg).s)
  <2>1. RequestReboot(s, msg).s = s
    BY DEF RequestReboot, Result
  <2> QED BY <2>1
<1>3. SrvInv(RequestExtend(s, msg).s)
  <2> DEFINE lease == SelectLeaseToOffer(IF msg.lease = 0 THEN DefaultLease ELSE msg.lease)
             d == Bind([c EXCEPT !.lease = lease])
  <2>1. RequestExtend(s, msg).s
          = IF c.state \in {"renewing", "rebinding"} THEN [s EXCEPT !.ctx[m] = d] ELSE s
    BY DEF RequestExtend, Result
  <2>2. CASE c.state \in {"renewing", "rebinding"}
    <3> HIDE DEF lease
    <3>1. CtxOK(d) /\ d.pool = c.pool /\ d.ip = c.ip
      <4> DEFINE b == [c EXCEPT !.lease = lease]
      <4>1. CtxOK(b) /\ b.pool = c.pool /\ b.ip = c.ip /\ b.state = c.state
        BY <1>0 DEF CtxOK
      <4> HIDE DEF b
      <4>2. CtxOK(Bind(b)) /\ Bind(b).pool = b.pool /\ Bind(b).ip = b.ip
        BY <2>2, <4>1, BindKeeps
      <4> QED BY <4>1, <4>2 DEF b
    <3> HIDE DEF d
    <3>2. SrvInv([s EXCEPT !.ctx[m] = d])
      BY <3>1, CtxChanged
    <3> QED BY <2>1, <2>2, <3>2
  <2>3. CASE c.state \notin {"renewing", "rebinding"}
    BY <2>1, <2>3
  <2> QED BY <2>2, <2>3
<1>4. \/ HandleRequest(s, msg).s = s
      \/ HandleRequest(s, msg) = RequestSelecting(s, msg)
      \/ HandleRequest(s, msg) = RequestReboot(s, msg)
      \/ HandleRequest(s, msg) = RequestExtend(s, msg)
  BY DEF HandleRequest, Result
<1> QED BY <1>1, <1>2, <1>3, <1>4

\* HandleRelease
LEMMA ReleaseFits ==
    ASSUME NEW s, SrvInv(s), NEW msg, msg.mac \in Macs
    PROVE  SrvInv(HandleRelease(s, msg).s)
<1> DEFINE m == msg.mac
<1>1. \/ HandleRelease(s, msg).s = s
      \/ Known(s, m) /\ HandleRelease(s, msg).s = OnClientRemove(s, m)
  BY DEF HandleRelease, Result
<1> QED BY <1>1, ClientRemoved

\* HandleDecline: the address goes back to a pool that excludes it.
LEMMA DeclineFits ==
    ASSUME NEW s, SrvInv(s), NEW msg, msg.mac \in Macs
    PROVE  SrvInv(HandleDecline(s, msg).s)
<1> DEFINE m == msg.mac
           c == s.ctx[m]
           i == c.pool
           n == Negate(s.pools[i], c.ip)
           q == AddFirst(n, c.ip)
           ps == [s.pools EXCEPT ![i] = q]
           d == [s.ctx EXCEPT ![m] = NoCtx]
           u == [s EXCEPT !.pools[i] = n]
           t == OnClientRemove(u, m)
<1>1. \/ HandleDecline(s, msg).s = s
      \/ Known(s, m) /\ HandleDecline(s, msg).s = t
  <2>1. s.pools = [j \in 1..NPools |-> s.pools[j]]
    BY DEF SrvInv, PoolsFit
  <2> QED BY <2>1 DEF HandleDecline, Result
<1>2. ASSUME Known(s, m) PROVE SrvInv(t)
  <2>1. CtxsOK(s.ctx) /\ PoolsFit(s.pools, s.ctx) /\ i # 0 /\ s.serverPool \in 0..NPools
    BY <1>2 DEF SrvInv, Known, CtxsOK, CtxOK
  <2>2. /\ CtxsOK(d) /\ i \in 1..NPools /\ c.ip \in HeldBy(s.ctx, i)
        /\ HeldBy(d, i) = HeldBy(s.ctx, i) \ {c.ip}
        /\ \A j \in 1..NPools : j # i => HeldBy(d, j) = HeldBy(s.ctx, j)
    BY <2>1, CtxGone
  <2>3. t = [pools |-> ps, ctx |-> d, panic |-> s.panic, up |-> s.up, serverPool |-> s.serverPool]
    <3>1. s = [pools |-> s.pools, ctx |-> s.ctx, panic |-> s.panic, up |-> s.up, serverPool |-> s.serverPool]
      BY DEF SrvInv
    <3>2. s.pools = [j \in 1..NPools |-> s.pools[j]]
      BY <2>1 DEF PoolsFit
    <3> DEFINE vs == [s.pools EXCEPT ![i] = n]
    <3>3. /\ u = [pools |-> vs, ctx |-> s.ctx, panic |-> s.panic, up |-> s.up, serverPool |-> s.serverPool]
          /\ u.ctx = s.ctx /\ u.pools = vs
      <4> HIDE DEF n, i
      <4> QED BY <3>1
    <3>4. vs[i] = n /\ [vs EXCEPT ![i] = q] = ps
      <4> HIDE DEF n, i, q
      <4> QED BY <2>2, <3>2
    <3> DEFINE w == [u EXCEPT !.ctx[m] = NoCtx]
    <3> HIDE DEF vs, u, n
    <3>5. /\ w = [pools |-> vs, ctx |-> d, panic |-> s.panic, up |-> s.up, serverPool |-> s.serverPool]
          /\ w.pools = vs
      <4> HIDE DEF i
      <4> QED BY <3>3
    <3>6. t = [w EXCEPT !.pools[i] = AddFirst(w.pools[i], c.ip)]
      BY <3>3 DEF OnClientRemove
    <3> HIDE DEF w, d, c, t
    <3>7. t = [pools |-> [vs EXCEPT ![i] = AddFirst(vs[i], c.ip)], ctx |-> d, panic |-> s.panic,
               up |-> s.up, serverPool |-> s.serverPool]
      BY <3>5, <3>6
    <3> QED BY <3>4, <3>7
  <2> HIDE DEF t, d
  <2>4. Fit(q, HeldBy(d, i))
    <3>1. Fit(s.pools[i], HeldBy(s.ctx, i))
      BY <2>1, <2>2 DEF PoolsFit
    <3> DEFINE x == s.pools[i]
               G == HeldBy(s.ctx, i)
               a == c.ip
    <3>2. Fit(x, G) /\ a \in G
      BY <2>2, <3>1
    <3> HIDE DEF x, G, a
    <3>3. Fit(AddFirst(Negate(x, a), a), G \ {a})
      BY <3>2, NegateFits, ZenonT(30)
    <3> QED BY <2>2, <3>3 DEF x, G, a
  <2> HIDE DEF q
  <2>5. PoolsFit(ps, d)
    BY <2>1, <2>2, <2>4, OnePoolFits
  <2> HIDE DEF ps
  <2> QED BY <2>1, <2>2, <2>3, <2>5 DEF SrvInv
<1> QED BY <1>1, <1>2

\* The timer of a context fires.
LEMMA CtxEventFits ==
    ASSUME NEW s, SrvInv(s), NEW m \in Macs, s.ctx[m].timer = 0
    PROVE  SrvInv(CtxOnEvent(s, m))
<1> DEFINE c == s.ctx[m]
<1>1. CtxOK(c) /\ c.state # "none"
  BY DEF SrvInv, CtxsOK, CtxOK, Off
<1>2. ASSUME NEW st \in {"renewing", "rebinding"}, NEW t
      PROVE  SrvInv([s EXCEPT !.ctx[m].state = st, !.ctx[m].timer = t])
  <2> DEFINE d == [pool |-> c.pool, ip |-> c.ip, state |-> st, lease |-> c.lease, timer |-> t]
  <2>1. /\ d = [pool |-> d.pool, ip |-> d.ip, state |-> d.state, lease |-> d.lease, timer |-> d.timer]
        /\ d.pool = c.pool /\ d.ip = c.ip /\ d.state = st
    OBVIOUS
  <2>2. [s EXCEPT !.ctx[m].state = st, !.ctx[m].timer = t] = [s EXCEPT !.ctx[m] = d]
    <3> DEFINE e == [c EXCEPT !.state = st]
               u == [s EXCEPT !.ctx[m] = e]
    <3>1. /\ s = [pools |-> s.pools, ctx |-> s.ctx, panic |-> s.panic, up |-> s.up, serverPool |-> s.serverPool]
          /\ s.ctx = [x \in Macs |-> s.ctx[x]]
      BY DEF SrvInv, CtxsOK
    <3>2. [e EXCEPT !.timer = t] = d
      <4>1. c = [pool |-> c.pool, ip |-> c.ip, state |-> c.state, lease |-> c.lease, timer |-> c.timer]
        BY <1>1 DEF CtxOK
      <4> HIDE DEF c
      <4>2. e = [pool |-> c.pool, ip |-> c.ip, state |-> st, lease |-> c.lease, timer |-> c.timer]
        BY <4>1
      <4> HIDE DEF e
      <4> QED BY <4>2
    <3>3. [s EXCEPT !.ctx[m].state = st, !.ctx[m].timer = t] = [u EXCEPT !.ctx[m].timer = t]
      OBVIOUS
    <3> HIDE DEF e, d
    <3>4. u.ctx[m] = e /\ u = [pools |-> s.pools, ctx |-> [s.ctx EXCEPT ![m] = e], panic |-> s.panic,
                                up |-> s.up, serverPool |-> s.serverPool]
      BY <3>1
    <3>5. [u EXCEPT !.ctx[m].timer = t] = [u EXCEPT !.ctx[m] = d]
      <4> HIDE DEF u
      <4> QED BY <3>2, <3>4
    <3>6. [u EXCEPT !.ctx[m] = d] = [pools |-> s.pools, ctx |-> [s.ctx EXCEPT ![m] = d], panic |-> s.panic,
                                     up |-> s.up, serverPool |-> s.serverPool]
      <4>1. [[s.ctx EXCEPT ![m] = e] EXCEPT ![m] = d] = [s.ctx EXCEPT ![m] = d]
        BY <3>1
      <4> HIDE DEF u
      <4> QED BY <3>4, <4>1
    <3>7. [s EXCEPT !.ctx[m] = d] = [pools |-> s.pools, ctx |-> [s.ctx EXCEPT ![m] = d], panic |-> s.panic,
                                     up |-> s.up, serverPool |-> s.serverPool]
      BY <3>1
    <3> QED BY <3>3, <3>5, <3>6, <3>7
  <2>3. CtxOK(d)
    <3> HIDE DEF d
    <3> QED BY <1>1, <2>1 DEF CtxOK
  <2> HIDE DEF d
  <2> QED BY <2>1, <2>2, <2>3, CtxChanged
<1>3. SrvInv(OnClientRemove(s, m))
  BY <1>1, ClientRemoved DEF Known
<1>4. CASE c.state = "bound"
  <2>1. CtxOnEvent(s, m)
          = [s EXCEPT !.ctx[m].state = "renewing", !.ctx[m].timer = T2(c.lease) - T1(c.lease)]
    BY <1>4 DEF CtxOnEvent
  <2> QED BY <1>2, <2>1
<1>5. CASE c.state = "renewing"
  <2>1. CtxOnEvent(s, m)
          = [s EXCEPT !.ctx[m].state = "rebinding", !.ctx[m].timer = c.lease - T2(c.lease)]
    BY <1>5 DEF CtxOnEvent
  <2> QED BY <1>2, <2>1
<1>6. CASE c.state \in {"selecting", "rebinding"}
  <2>1. CtxOnEvent(s, m) = OnClientRemove(s, m)
    BY <1>6 DEF CtxOnEvent
  <2> QED BY <1>3, <2>1
<1> QED BY <1>1, <1>4, <1>5, <1>6 DEF CtxOK

\* A second passes.
LEMMA SecondFits ==
    ASSUME NEW s, SrvInv(s)
    PROVE  SrvInv(SecondPasses(s))
<1> DEFINE d == [m \in Macs |-> IF s.ctx[m].timer > 0 THEN [s.ctx[m] EXCEPT !.timer = @ - 1] ELSE s.ctx[m]]
           t == SecondPasses(s)
<1>1. CtxsOK(s.ctx) /\ PoolsFit(s.pools, s.ctx)
  BY DEF SrvInv
<1>2. ASSUME NEW m \in Macs PROVE CtxOK(d[m]) /\ d[m].pool = s.ctx[m].pool /\ d[m].ip = s.ctx[m].ip
  <2> DEFINE c == s.ctx[m]
             e == [c EXCEPT !.timer = @ - 1]
  <2>1. CtxOK(c)
    BY <1>1 DEF CtxsOK
  <2>2. d[m] = IF c.timer > 0 THEN e ELSE c
    OBVIOUS
  <2>3. CASE c.timer > 0
    <3>1. c.state # "none"
      BY <2>1, <2>3 DEF CtxOK, Off
    <3>2. e = [pool |-> c.pool, ip |-> c.ip, state |-> c.state, lease |-> c.lease, timer |-> c.timer - 1]
      BY <2>1 DEF CtxOK
    <3>3. /\ e = [pool |-> e.pool, ip |-> e.ip, state |-> e.state, lease |-> e.lease, timer |-> e.timer]
          /\ e.pool = c.pool /\ e.ip = c.ip /\ e.state = c.state
      <4> HIDE DEF e
      <4> QED BY <3>2
    <3> HIDE DEF e, c
    <3>4. CtxOK(e)
      BY <2>1, <3>1, <3>3 DEF CtxOK
    <3> QED BY <2>2, <2>3, <3>3, <3>4 DEF c
  <2>4. CASE ~ (c.timer > 0)
    BY <2>1, <2>2, <2>4
  <2> QED BY <2>3, <2>4
<1>3. d = [m \in Macs |-> d[m]]
  OBVIOUS
<1> HIDE DEF d
<1>4. CtxsOK(d) /\ \A i \in 1..NPools : HeldBy(d, i) = HeldBy(s.ctx, i)
  BY <1>1, <1>2, <1>3, CtxKept
<1>5. PoolsFit(s.pools, d)
  BY <1>1, <1>4 DEF PoolsFit
<1>6. t = [pools |-> s.pools, ctx |-> d, panic |-> s.panic, up |-> s.up, serverPool |-> s.serverPool]
  <2>1. t = [s EXCEPT !.ctx = d]
    BY DEF SecondPasses, d
  <2> QED BY <2>1 DEF SrvInv
<1> HIDE DEF t
<1>7. SrvInv(t)
  BY <1>4, <1>5, <1>6 DEF SrvInv
<1> QED BY <1>7 DEF t

\* The remover.
LEMMA RemoverFits ==
    ASSUME NEW s, SrvInv(s), NEW ms \in SUBSET Macs, \A m \in ms : Known(s, m)
    PROVE  SrvInv([RemoveSome(s, ms) EXCEPT !.up = FALSE])
<1> DEFINE d == [m \in Macs |-> IF m \in ms THEN NoCtx ELSE s.ctx[m]]
           Q(i) == [s.pools[i] EXCEPT !.avail = InSomeOrder(Returned(s, ms, i)) \o s.pools[i].avail]
           ps == [i \in 1..NPools |-> Q(i)]
           t == [RemoveSome(s, ms) EXCEPT !.up = FALSE]
<1>0. NPools \in Nat
  BY DhcpAssumption DEF NPools
<1>1. CtxsOK(s.ctx) /\ PoolsFit(s.pools, s.ctx) /\ s.serverPool \in 0..NPools
  BY DEF SrvInv
<1>2. Len(s.pools) = NPools
  BY PoolCount
<1>3. /\ d = [m \in Macs |-> d[m]] /\ \A m \in Macs : d[m] = IF m \in ms THEN NoCtx ELSE s.ctx[m]
  OBVIOUS
<1>4. t = [pools |-> ps, ctx |-> d, panic |-> s.panic, up |-> FALSE, serverPool |-> s.serverPool]
  <2>1. s = [pools |-> s.pools, ctx |-> s.ctx, panic |-> s.panic, up |-> s.up, serverPool |-> s.serverPool]
    BY DEF SrvInv
  <2>2. \A i \in 1..NPools : Fit(s.pools[i], HeldBy(s.ctx, i))
    BY <1>1 DEF PoolsFit
  <2>3. RemoveSome(s, ms) = [s EXCEPT !.ctx = d, !.pools = ps]
    BY <1>2 DEF RemoveSome
  <2> HIDE DEF d, ps
  <2>4. RemoveSome(s, ms) = [pools |-> ps, ctx |-> d, panic |-> s.panic, up |-> s.up, serverPool |-> s.serverPool]
    BY <2>1, <2>3
  <2> DEFINE r == RemoveSome(s, ms)
  <2> HIDE DEF r
  <2>5. r = [pools |-> ps, ctx |-> d, panic |-> s.panic, up |-> s.up, serverPool |-> s.serverPool]
    BY <2>4 DEF r
  <2> DEFINE down == FALSE
  <2> HIDE DEF down
  <2>6. [r EXCEPT !.up = down]
          = [pools |-> ps, ctx |-> d, panic |-> s.panic, up |-> down, serverPool |-> s.serverPool]
    BY <2>5
  <2> QED BY <2>6 DEF r, down
<1> HIDE DEF d
<1>5. CtxOK(NoCtx) /\ NoCtx.pool = 0
  BY <1>0 DEF NoCtx, CtxOK, Zero, Off
<1>6. CtxsOK(d)
  <2>1. \A m \in Macs : CtxOK(d[m])
    BY <1>1, <1>3, <1>5 DEF CtxsOK
  <2>2. OneHolder(d)
    BY <1>1, <1>3, <1>5 DEF OneHolder, CtxsOK
  <2> QED BY <1>3, <2>1, <2>2 DEF CtxsOK
<1>7. ASSUME NEW i \in 1..NPools PROVE Fit(Q(i), HeldBy(d, i))
  <2> DEFINE p == s.pools[i]
             H == HeldBy(s.ctx, i)
             R == Returned(s, ms, i)
  <2>1. Fit(p, H) /\ i # 0
    BY <1>0, <1>1 DEF PoolsFit
  <2>2. \A a \in H : CanAdd(p, a)
    <3>1. /\ PoolOK(p) /\ H \subseteq Held(p) /\ H \cap Range(p.avail) = {} /\ H \cap p.excl = {}
      BY <2>1 DEF Fit
    <3>2. \A a \in Held(p) : p.min <= a /\ a <= p.max
      BY <3>1, PoolFields
    <3> HIDE DEF H, p
    <3> QED BY <3>1, <3>2 DEF CanAdd, PoolContains
  <2>3. R = {s.ctx[m].ip : m \in {x \in ms : s.ctx[x].pool = i}}
    <3>1. \A m \in ms : s.ctx[m].pool = i => s.ctx[m].ip \in H
      BY DEF HeldBy
    <3> HIDE DEF H
    <3> QED BY <2>2, <3>1 DEF Returned
  <2>4. R \subseteq H
    BY <2>3 DEF HeldBy
  <2>5. HeldBy(d, i) = H \ R
    <3>1. \A x, y \in Macs : s.ctx[x].pool = i /\ s.ctx[y].pool = i /\ s.ctx[x].ip = s.ctx[y].ip => x = y
      BY <1>1, <2>1 DEF CtxsOK, OneHolder
    <3> HIDE DEF R
    <3> QED BY <1>3, <1>5, <2>1, <2>3, <3>1 DEF HeldBy
  <2> HIDE DEF p, H, R
  <2>6. LET q == [p EXCEPT !.avail = InSomeOrder(R) \o p.avail] IN Fit(q, H \ R)
    BY <2>1, <2>4, ManyFit
  <2> QED BY <2>5, <2>6 DEF p, R
<1>8. PoolsFit(ps, d)
  <2>1. ps = [i \in 1..NPools |-> ps[i]] /\ \A i \in 1..NPools : ps[i] = Q(i)
    OBVIOUS
  <2> HIDE DEF ps, Q
  <2> QED BY <1>7, <2>1 DEF PoolsFit
<1> HIDE DEF t, ps
<1>9. SrvInv(t)
  BY <1>1, <1>4, <1>6, <1>8 DEF SrvInv
<1> QED BY <1>9 DEF t

\* ServerRx, of any message of a known kind.
LEMMA RxFits ==
    ASSUME NEW s, SrvInv(s), NEW msg, msg.mac \in Macs,
           msg.type \in {"discover", "request", "decline", "release"}
    PROVE  SrvInv(ServerRx(s, msg).s)
<1>1. CASE msg.type = "discover"
  BY <1>1, DiscoverFits DEF ServerRx
<1>2. CASE msg.type = "request"
  BY <1>2, RequestFits DEF ServerRx
<1>3. CASE msg.type = "decline"
  BY <1>3, DeclineFits DEF ServerRx
<1>4. CASE msg.type = "release"
  BY <1>4, ReleaseFits DEF ServerRx
<1> QED BY <1>1, <1>2, <1>3, <1>4

\* OnCreate of the server: all the pools are made and no client is known.
LEMMA ServerCreated == SrvInv(CreateServer)
<1> DEFINE pools == [i \in 1..Len(PoolParams) |-> CreateIpv4Pool(PoolParams[i])]
           mine == {i \in 1..Len(pools) : InSubnet(pools[i], ServerIp)}
           ctx == [m \in Macs |-> NoCtx]
           own == IF mine = {} THEN 0 ELSE CHOOSE i \in mine : \A j \in mine : i <= j
           s == CreateServer
<1>0. NPools \in Nat /\ NPools = Len(PoolParams)
  BY DhcpAssumption DEF NPools
<1>1. s = [pools |-> pools, ctx |-> ctx, panic |-> FALSE, up |-> TRUE, serverPool |-> own]
  BY DEF CreateServer
<1>2. CtxsOK(ctx)
  <2>1. CtxOK(NoCtx) /\ NoCtx.pool = 0
    BY <1>0 DEF NoCtx, CtxOK, Zero, Off
  <2>2. ctx = [m \in Macs |-> ctx[m]] /\ \A m \in Macs : ctx[m] = NoCtx
    OBVIOUS
  <2> HIDE DEF ctx
  <2> QED BY <2>1, <2>2 DEF CtxsOK, OneHolder
<1>3. \A i \in 1..NPools : HeldBy(ctx, i) = {}
  <2>1. \A m \in Macs : ctx[m].pool = 0
    BY DEF NoCtx
  <2>2. \A i \in 1..NPools : i # 0
    BY <1>0
  <2> HIDE DEF ctx
  <2> QED BY <2>1, <2>2 DEF HeldBy
<1>4. pools = [i \in 1..NPools |-> pools[i]] /\ \A i \in 1..NPools : Fit(pools[i], {})
  BY <1>0, CreatedFits
<1> HIDE DEF ctx, pools
<1>5. PoolsFit(pools, ctx)
  BY <1>3, <1>4 DEF PoolsFit
<1>6. own \in 0..NPools
  <2>1. Len(pools) = NPools
    <3> DEFINE R == {pools[i] : i \in 1..NPools}
    <3>1. pools \in [1..NPools -> R]
      BY <1>4
    <3> HIDE DEF R
    <3> QED BY <1>0, <3>1, FunIsSeq
  <2>2. mine \in SUBSET (1..NPools) /\ mine \in SUBSET Nat
    BY <1>0, <2>1
  <2> HIDE DEF mine
  <2>3. ASSUME mine # {} PROVE (CHOOSE i \in mine : \A j \in mine : i <= j) \in mine
    BY <2>2, <2>3, LeastOf
  <2>4. 0 \in 0..NPools /\ \A x \in 1..NPools : x \in 0..NPools
    BY <1>0
  <2> QED BY <2>2, <2>3, <2>4
<1> HIDE DEF s, own
<1>7. SrvInv(s)
  BY <1>1, <1>2, <1>5, <1>6 DEF SrvInv
<1> QED BY <1>7 DEF s

\* Every step of the server, of the clients and of the network keeps the invariant.
LEMMA SrvInvInductive ==
    ASSUME SrvInv(srv), [DhcpNext]_dhcpVars
    PROVE  SrvInv(srv')
<1>1. CASE UNCHANGED dhcpVars
  BY <1>1 DEF dhcpVars
<1>2. ASSUME NEW m, NEW kept, ServerReceives(m, kept) PROVE SrvInv(srv')
  <2>1. m.mac \in Macs /\ m.type \in {"discover", "request", "decline", "release"}
        /\ srv' = ServerRx(srv, m).s
    BY <1>2, ClientsAssumption DEF ServerReceives
  <2> QED BY <2>1, RxFits
<1>3. ASSUME NEW m \in AnyMsgs, ForeignMessage(m) PROVE SrvInv(srv')
  <2>1. m.mac \in Macs /\ m.type \in {"discover", "request", "decline", "release"}
        /\ srv' = ServerRx(srv, m).s
    BY <1>3, ClientsAssumption DEF ForeignMessage
  <2> QED BY <2>1, RxFits
<1>4. ASSUME NEW m \in Macs, ServerTimer(m) PROVE SrvInv(srv')
  BY <1>4, CtxEventFits DEF ServerTimer
<1>5. ASSUME NEW ms \in SUBSET Macs, ServerRemoved(ms) PROVE SrvInv(srv')
  <2>1. srv' = [RemoveSome(srv, ms) EXCEPT !.up = FALSE] /\ \A m \in ms : Known(srv, m)
    BY <1>5 DEF ServerRemoved
  <2> QED BY <2>1, RemoverFits
<1>6. ASSUME NEW m \in Clients, CreateClient(m) \/ RemoveClient(m) \/ ClientTimer(m) PROVE SrvInv(srv')
  BY <1>6 DEF CreateClient, RemoveClient, ClientTimer, ClientSteps
<1>7. ASSUME NEW m \in Clients, NEW msg, NEW kept, ClientReceives(m, msg, kept) PROVE SrvInv(srv')
  BY <1>7 DEF ClientReceives
<1>8. CASE Second
  BY <1>8, SecondFits DEF Second
<1> QED BY <1>1, <1>2, <1>3, <1>4, <1>5, <1>6, <1>7, <1>8 DEF DhcpNext

\* What the invariant says of the addresses.
LEMMA FitIsExact ==
    ASSUME SrvInv(srv)
    PROVE  PoolExact
<1>0. Len(srv.pools) = NPools /\ NPools \in Nat
  BY PoolCount, DhcpAssumption DEF NPools
<1> SUFFICES ASSUME NEW i \in 1..NPools
    PROVE  LET p == srv.pools[i]
               Holders(a) == {m \in Macs : srv.ctx[m].pool = i /\ srv.ctx[m].ip = a}
           IN  /\ \A a \in p.first .. (p.first + p.cur - 1) :
                     (IF a \in Range(p.avail) THEN 1 ELSE 0) + Cardinality(Holders(a))
                       + (IF a \in p.excl /\ Holders(a) = {} THEN 1 ELSE 0) = 1
               /\ Cardinality(Range(p.avail)) = Len(p.avail)
               /\ \A m \in Macs : srv.ctx[m].pool = i =>
                     srv.ctx[m].ip \in p.first .. (p.first + p.cur - 1)
  BY <1>0, Zenon DEF PoolExact
<1> DEFINE p == srv.pools[i]
           H == HeldBy(srv.ctx, i)
           Holders(a) == {m \in Macs : srv.ctx[m].pool = i /\ srv.ctx[m].ip = a}
<1>1. /\ PoolOK(p) /\ H \subseteq Held(p) /\ H \cap Range(p.avail) = {} /\ H \cap p.excl = {}
      /\ Held(p) \subseteq Range(p.avail) \cup H \cup p.excl
  BY DEF SrvInv, PoolsFit, Fit
<1>2. p.avail \in Seq(Nat) /\ Distinct(p.avail) /\ Range(p.avail) \cap p.excl = {}
  BY <1>1, PoolFields DEF PoolOK
<1>3. Cardinality(Range(p.avail)) = Len(p.avail)
  <2> DEFINE f == p.avail
             n == Len(f)
  <2>1. n \in Nat /\ f \in [1..n -> Range(f)] /\ \A a \in Range(f) : \E j \in 1..n : f[j] = a
    <3>1. f \in Seq(Nat)
      BY <1>2
    <3> HIDE DEF f
    <3>2. n \in Nat /\ f = [j \in 1..n |-> f[j]]
      BY <3>1
    <3>3. /\ \A j \in 1..n : f[j] \in Range(f)
          /\ \A a \in Range(f) : \E j \in 1..n : f[j] = a
      BY <3>1, RangeIs, Zenon
    <3> HIDE DEF n
    <3> QED BY <3>2, <3>3
  <2> HIDE DEF f
  <2>2. f \in Injection(1..n, Range(f))
    BY <1>2, <2>1 DEF Injection, IsInjective, Distinct, f
  <2>3. f \in Surjection(1..n, Range(f))
    BY <2>1 DEF Surjection
  <2>4. ExistsBijection(1..n, Range(f))
    BY <2>2, <2>3 DEF ExistsBijection, Bijection
  <2> HIDE DEF n
  <2>5. Cardinality(Range(f)) = n
    BY <2>1, <2>4, FS_CountingElements
  <2> QED BY <2>5 DEF f, n
<1>4. ASSUME NEW m \in Macs, srv.ctx[m].pool = i PROVE srv.ctx[m].ip \in Held(p)
  <2>1. srv.ctx[m].ip \in H
    BY <1>4 DEF HeldBy
  <2> QED BY <1>1, <2>1
<1>5. ASSUME NEW a \in Held(p)
      PROVE  (IF a \in Range(p.avail) THEN 1 ELSE 0) + Cardinality(Holders(a))
               + (IF a \in p.excl /\ Holders(a) = {} THEN 1 ELSE 0) = 1
  <2>1. a \notin H => Holders(a) = {} /\ Cardinality(Holders(a)) = 0
    <3>1. a \notin H => Holders(a) = {}
      BY DEF HeldBy
    <3> QED BY <3>1, FS_EmptySet
  <2>2. a \in H => Holders(a) # {} /\ Cardinality(Holders(a)) = 1
    <3> SUFFICES ASSUME a \in H PROVE Holders(a) # {} /\ Cardinality(Holders(a)) = 1
      OBVIOUS
    <3>1. PICK m \in Macs : srv.ctx[m].pool = i /\ srv.ctx[m].ip = a
      BY DEF HeldBy
    <3>2. \A x \in Macs : srv.ctx[x].pool = i /\ srv.ctx[x].ip = a => x = m
      <4>1. i # 0 /\ OneHolder(srv.ctx)
        BY <1>0 DEF SrvInv, CtxsOK
      <4> QED BY <3>1, <4>1 DEF OneHolder
    <3>3. Holders(a) = {m}
      BY <3>1, <3>2
    <3> HIDE DEF Holders
    <3> QED BY <3>3, FS_Singleton
  <2> HIDE DEF H, p, Holders
  <2>3. CASE a \in H
    <3>1. a \notin Range(p.avail) /\ a \notin p.excl
      BY <1>1, <2>3
    <3> QED BY <2>2, <2>3, <3>1
  <2>4. CASE a \notin H /\ a \in Range(p.avail)
    <3>1. a \notin p.excl
      BY <1>2, <2>4
    <3> QED BY <2>1, <2>4, <3>1
  <2>5. CASE a \notin H /\ a \notin Range(p.avail)
    <3>1. a \in p.excl
      BY <1>1, <2>5
    <3> QED BY <2>1, <2>5, <3>1
  <2> QED BY <2>3, <2>4, <2>5
<1> QED BY <1>3, <1>4, <1>5 DEF Held

\* PoolExact, for any pools that the configuration may describe, any chunk, any number of clients
\* and any messages, lost, repeated and reordered: no address of dhcpsrv.go's pools is lost and
\* none is with two clients.
THEOREM AddressesAreConserved == DhcpSpec => []PoolExact
<1>1. DhcpInit => SrvInv(srv)
  BY ServerCreated DEF DhcpInit
<1>2. SrvInv(srv) /\ [DhcpNext]_dhcpVars => SrvInv(srv)'
  BY SrvInvInductive
<1>3. SrvInv(srv) => PoolExact
  BY FitIsExact
<1> QED BY <1>1, <1>2, <1>3, PTL DEF DhcpSpec
=============================================================================
