------------------------------ MODULE MmtlsProofs ------------------------------
(* One MMTLS connection, for every way the stream is cut and every flight a    *)
(* server may send.                                                            *)
EXTENDS Mmtls, SequenceTheorems, WellFoundedInduction, TLAPS

(* A set of natural numbers has a lowest one; induction follows, over a set.   *)
LEMMA MinExists ==
    ASSUME NEW S \in SUBSET Nat, S # {}
    PROVE  \E x \in S : \A y \in S : x <= y
<1>1. IsWellFoundedOn({ss \in Nat \X Nat : ss[1] < ss[2]}, Nat)
  BY NatLessThanWellFounded DEF OpToRel
<1>2. PICK x \in S : \A y \in S : <<y, x>> \notin {ss \in Nat \X Nat : ss[1] < ss[2]}
  BY <1>1, WFMin
<1>3. \A y \in S : ~(y < x)
  BY <1>2
<1> QED
  BY <1>3

LEMMA Induction ==
    ASSUME NEW T, 0 \in T, \A i \in Nat : i \in T => i + 1 \in T
    PROVE  Nat \subseteq T
<1> SUFFICES ASSUME Nat \ T # {} PROVE FALSE
  OBVIOUS
<1>1. PICK m \in Nat \ T : \A i \in Nat \ T : m <= i
  BY MinExists
<1>2. m # 0 /\ m - 1 \in Nat /\ m - 1 < m
  BY <1>1
<1>3. m - 1 \in T
  BY <1>1, <1>2
<1> QED
  BY <1>1, <1>2, <1>3

(* What FlattenSeq computes, step by step.                                     *)
LEMMA FlattenSteps ==
    ASSUME NEW ss, NEW n \in Nat, n = Len(ss), n > 0
    PROVE  \E f : /\ FlattenSeq(ss) = f[n]
                  /\ f[1] = ss[1]
                  /\ \A i \in 2 .. n : f[i] = f[i - 1] \o ss[i]
<1> DEFINE Step(f, i) == IF i = 1 THEN ss[i] ELSE f[i - 1] \o ss[i]
           Flat(f, m) == f = [i \in 1 .. m |-> Step(f, i)]
           T == {m \in Nat : \E f : Flat(f, m)}
<1>1. 0 \in T
  <2>1. Flat(<<>>, 0)
    OBVIOUS
  <2> QED
    BY <2>1
<1>2. ASSUME NEW m \in Nat, m \in T PROVE m + 1 \in T
  <2>1. PICK f : Flat(f, m)
    BY <1>2
  <2> DEFINE g == [i \in 1 .. m + 1 |-> Step(f, i)]
  <2>2. \A i \in 1 .. m + 1 : Step(g, i) = Step(f, i)
    <3>1. \A i \in 1 .. m : g[i] = f[i]
      <4> HIDE DEF Step
      <4> QED
        BY <2>1
    <3>2. \A i \in 1 .. m + 1 : i = 1 \/ i - 1 \in 1 .. m
      OBVIOUS
    <3> HIDE DEF g
    <3> QED
      BY <3>1, <3>2
  <2>3. Flat(g, m + 1)
    <3> HIDE DEF Step
    <3> QED
      BY <2>2
  <2> HIDE DEF Flat
  <2> QED
    BY <2>3
<1>3. n \in T
  <2> HIDE DEF T
  <2> QED
    BY <1>1, <1>2, Induction
<1> DEFINE flatten == CHOOSE f : Flat(f, n)
<1>4. Flat(flatten, n)
  BY <1>3
<1>5. FlattenSeq(ss) = flatten[n]
  BY DEF FlattenSeq
<1>6. \A i \in 1 .. n : flatten[i] = Step(flatten, i)
  <2> HIDE DEF flatten, Step
  <2> QED
    BY <1>4
<1> HIDE DEF flatten
<1>7. flatten[1] = ss[1]
  BY <1>6, 1 \in 1 .. n
<1>8. ASSUME NEW i \in 2 .. n PROVE flatten[i] = flatten[i - 1] \o ss[i]
  BY <1>6, i \in 1 .. n, i # 1
<1> QED
  BY <1>5, <1>7, <1>8

--------------------------------------------------------------------------------
(* The record layer.  Blocks of Cells cells.                                   *)
LEMMA Blocks ==
    ASSUME NEW K \in Nat \ {0}, NEW i \in Nat, NEW j \in Nat
    PROVE  /\ i * K \in Nat /\ (i + 1) * K = i * K + K
           /\ i <= j => i * K <= j * K
           /\ i < j => i * K + K <= j * K
           /\ i * K = j * K => i = j
OBVIOUS

LEMMA Division ==
    ASSUME NEW K \in Nat \ {0}, NEW n \in Nat
    PROVE  /\ n \div K \in Nat /\ (n \div K) * K <= n /\ n < (n \div K) * K + K
           /\ \A q \in Nat : q * K <= n /\ n < q * K + K => n \div K = q
OBVIOUS

LEMMA Position ==
    ASSUME NEW K \in Nat \ {0}, NEW m \in Nat, NEW n \in 1 .. m * K
    PROVE  \E i \in 1 .. m, c \in 1 .. K : n = (i - 1) * K + c
<1>1. m * K \in Nat /\ n - 1 \in Nat
  OBVIOUS
<1>2. PICK q \in Nat : q * K <= n - 1 /\ n - 1 < q * K + K
  BY <1>1, Division
<1>3. q * K \in Nat
  OBVIOUS
<1>4. q + 1 \in 1 .. m
  BY <1>1, <1>2, <1>3, Blocks
<1>5. PICK i \in 1 .. m : i - 1 = q
  BY <1>4
<1>6. PICK c \in 1 .. K : n = q * K + c
  BY <1>2, <1>3
<1> QED
  BY <1>5, <1>6

LEMMA Concat ==
    ASSUME NEW S, NEW s \in Seq(S), NEW t \in Seq(S)
    PROVE  /\ s \o t \in Seq(S) /\ Len(s) \in Nat /\ Len(t) \in Nat /\ Len(s \o t) = Len(s) + Len(t)
           /\ \A n \in 1 .. Len(s) : (s \o t)[n] = s[n]
           /\ \A n \in 1 .. Len(t) : (s \o t)[Len(s) + n] = t[n]
OBVIOUS

(* Two sequences that agree at every place are the same.                       *)
LEMMA SameSeq ==
    ASSUME NEW S, NEW s \in Seq(S), NEW t \in Seq(S), Len(s) = Len(t),
           \A n \in 1 .. Len(s) : s[n] = t[n]
    PROVE  s = t
OBVIOUS

LEMMA SubSeqIs ==
    ASSUME NEW S, NEW s \in Seq(S), NEW m \in 1 .. Len(s) + 1, NEW n \in (m - 1) .. Len(s)
    PROVE  /\ SubSeq(s, m, n) \in Seq(S) /\ Len(SubSeq(s, m, n)) = n - m + 1
           /\ \A k \in 1 .. n - m + 1 : SubSeq(s, m, n)[k] = s[k + m - 1]
OBVIOUS

LEMMA Prefix ==
    ASSUME NEW S, NEW s \in Seq(S), NEW n \in 0 .. Len(s)
    PROVE  /\ SubSeq(s, 1, n) \in Seq(S) /\ Len(SubSeq(s, 1, n)) = n
           /\ \A i \in 1 .. n : SubSeq(s, 1, n)[i] = s[i]
OBVIOUS

LEMMA Associative ==
    ASSUME NEW S, NEW s \in Seq(S), NEW t \in Seq(S), NEW u \in Seq(S)
    PROVE  /\ s \o t \in Seq(S) /\ t \o u \in Seq(S)
           /\ (s \o t) \o u = s \o (t \o u)
BY ConcatProperties, ConcatAssociative

LEMMA AssociativeLast ==
    ASSUME NEW S, NEW s \in Seq(S), NEW u \in Seq(S), NEW x \in S
    PROVE  (s \o u) \o <<x>> = s \o (u \o <<x>>)
<1>1. <<x>> \in Seq(S)
  OBVIOUS
<1> QED
  BY <1>1, ConcatAssociative

LEMMA SamePrefix ==
    ASSUME NEW S, NEW s \in Seq(S), NEW T, NEW t \in Seq(T), NEW n \in Nat,
           n <= Len(s), n <= Len(t), \A i \in 1 .. n : s[i] = t[i]
    PROVE  SubSeq(s, 1, n) = SubSeq(t, 1, n)
<1>1. SubSeq(s, 1, n) = [i \in 1 .. n |-> s[i]]
  OBVIOUS
<1>2. SubSeq(t, 1, n) = [i \in 1 .. n |-> t[i]]
  OBVIOUS
<1> QED
  BY <1>1, <1>2

LEMMA AppendTwo == ASSUME NEW a, NEW b PROVE Append(<<a>>, b) = <<a, b>>
<1> DEFINE S == {a, b}
           s == <<a>>
           t == <<a, b>>
<1>1. s \in Seq(S) /\ Len(s) = 1 /\ s[1] = a /\ b \in S
  OBVIOUS
<1>2. t \in Seq(S) /\ Len(t) = 2 /\ t[1] = a /\ t[2] = b
  OBVIOUS
<1> HIDE DEF S, s, t
<1>3. /\ Append(s, b) \in Seq(S) /\ Len(Append(s, b)) = 1 + 1
      /\ \A i \in 1 .. 1 : Append(s, b)[i] = s[i]
      /\ Append(s, b)[1 + 1] = b
  <2>1. PICK u \in Seq(S) : u = s /\ Len(u) = 1
    BY <1>1
  <2>2. PICK x \in S : x = b
    BY <1>1
  <2>3. /\ Append(u, x) \in Seq(S) /\ Len(Append(u, x)) = Len(u) + 1
        /\ \A i \in 1 .. Len(u) : Append(u, x)[i] = u[i]
        /\ Append(u, x)[Len(u) + 1] = x
    BY AppendProperties
  <2> QED
    BY <2>1, <2>2, <2>3, Zenon
<1>4. \A i \in 1 .. 2 : i = 1 \/ i = 2
  OBVIOUS
<1>5. Append(s, b)[1] = a /\ Append(s, b)[2] = b /\ Len(Append(s, b)) = 2
  BY <1>1, <1>3
<1>6. Append(s, b) = t
  BY <1>2, <1>3, <1>4, <1>5, SameSeq
<1> QED
  BY <1>6, Zenon DEF s, t

(* What is left of a sequence without its first elements.                      *)
After(s, a) == SubSeq(s, a + 1, Len(s))
Joins(w, s, t) == w = s \o t

LEMMA HeadTailOfConcat ==
    ASSUME NEW S, NEW s \in Seq(S), NEW t \in Seq(S), s # <<>>
    PROVE  /\ s \o t # <<>> /\ s \o t \in Seq(S) /\ Head(s \o t) = Head(s)
           /\ Tail(s) \in Seq(S) /\ Joins(Tail(s \o t), Tail(s), t)
<1>1. /\ Len(s) \in Nat \ {0} /\ Len(t) \in Nat
      /\ s \o t \in Seq(S) /\ Len(s \o t) = Len(s) + Len(t)
      /\ \A i \in 1 .. Len(s) + Len(t) : (s \o t)[i] = IF i <= Len(s) THEN s[i] ELSE t[i - Len(s)]
  BY ConcatProperties
<1>2. s \o t # <<>> /\ Head(s \o t) = Head(s)
  BY <1>1
<1>3. Tail(s) \in Seq(S) /\ Len(Tail(s)) = Len(s) - 1 /\ \A i \in 1 .. Len(Tail(s)) : Tail(s)[i] = s[i + 1]
  BY HeadTailProperties
<1> DEFINE u == Tail(s) \o t
           v == Tail(s \o t)
<1>4. /\ u \in Seq(S) /\ Len(u) = Len(s) - 1 + Len(t)
      /\ \A i \in 1 .. Len(s) - 1 + Len(t) : u[i] = IF i <= Len(s) - 1 THEN s[i + 1] ELSE t[i - (Len(s) - 1)]
  <2>1. /\ u \in Seq(S) /\ Len(u) = Len(Tail(s)) + Len(t)
        /\ \A i \in 1 .. Len(Tail(s)) + Len(t) :
             u[i] = IF i <= Len(Tail(s)) THEN Tail(s)[i] ELSE t[i - Len(Tail(s))]
    BY <1>3, ConcatProperties
  <2> HIDE DEF u
  <2> QED
    BY <1>1, <1>3, <2>1
<1>5. /\ v \in Seq(S) /\ Len(v) = Len(s) + Len(t) - 1
      /\ \A i \in 1 .. Len(s) + Len(t) - 1 : v[i] = (s \o t)[i + 1]
  <2>1. /\ v \in Seq(S) /\ Len(v) = Len(s \o t) - 1
        /\ \A i \in 1 .. Len(v) : v[i] = (s \o t)[i + 1]
    BY <1>1, <1>2, HeadTailProperties
  <2> HIDE DEF v
  <2> QED
    BY <1>1, <2>1
<1> HIDE DEF u, v
<1>6. ASSUME NEW i \in 1 .. Len(s) + Len(t) - 1 PROVE v[i] = u[i]
  <2>1. v[i] = IF i + 1 <= Len(s) THEN s[i + 1] ELSE t[i + 1 - Len(s)]
    <3>1. i + 1 \in 1 .. Len(s) + Len(t)
      BY <1>1
    <3> QED
      BY <1>1, <1>5, <3>1
  <2>2. u[i] = IF i <= Len(s) - 1 THEN s[i + 1] ELSE t[i - (Len(s) - 1)]
    BY <1>1, <1>4
  <2>3. (i + 1 <= Len(s) <=> i <= Len(s) - 1) /\ i + 1 - Len(s) = i - (Len(s) - 1)
    BY <1>1
  <2> QED
    BY <2>1, <2>2, <2>3
<1>7. Len(u) = Len(v) /\ Len(v) = Len(s) + Len(t) - 1
  BY <1>1, <1>4, <1>5
<1>8. v = u
  BY <1>4, <1>5, <1>6, <1>7, SameSeq
<1>9. Joins(Tail(s \o t), Tail(s), t)
  BY <1>8, Zenon DEF u, v, Joins
<1> QED
  BY <1>1, <1>2, <1>3, <1>9

LEMMA HeadTailOfSplit ==
    ASSUME NEW S, NEW s \in Seq(S), NEW q \in 1 .. Len(s)
    PROVE  /\ s # <<>> /\ Head(SubSeq(s, 1, q)) = Head(s)
           /\ Tail(SubSeq(s, 1, q)) \in Seq(S) /\ SubSeq(s, q + 1, Len(s)) \in Seq(S)
           /\ Joins(Tail(s), Tail(SubSeq(s, 1, q)), SubSeq(s, q + 1, Len(s)))
<1> DEFINE u == SubSeq(s, 1, q)
           v == SubSeq(s, q + 1, Len(s))
<1>1. Len(s) \in Nat /\ u \in Seq(S) /\ Len(u) = q /\ v \in Seq(S)
  <2>1. Len(s) \in Nat
    OBVIOUS
  <2>2. u \in Seq(S) /\ Len(u) = q - 1 + 1
    BY <2>1, SubSeqIs
  <2>3. v \in Seq(S)
    BY <2>1, SubSeqIs
  <2> HIDE DEF u, v
  <2> QED
    BY <2>1, <2>2, <2>3
<1>2. u \o v = s
  <2>1. u \o v = SubSeq(s, 1, Len(s))
    BY <1>1, ConcatAdjacentSubSeq
  <2> QED
    BY <2>1, SubSeqFull
<1> HIDE DEF u, v
<1>3. u # <<>>
  BY <1>1
<1>4. u \o v # <<>> /\ Head(u \o v) = Head(u) /\ Tail(u) \in Seq(S) /\ Joins(Tail(u \o v), Tail(u), v)
  BY <1>1, <1>3, HeadTailOfConcat
<1>5. s # <<>> /\ Head(u) = Head(s) /\ Joins(Tail(s), Tail(u), v)
  BY <1>2, <1>4, Zenon
<1> QED
  BY <1>1, <1>4, <1>5, Zenon DEF u, v

LEMMA RestOfConcat ==
    ASSUME NEW S, NEW s \in Seq(S), NEW t \in Seq(S), NEW a \in 0 .. Len(s),
           NEW w \in Seq(S), w = s \o t
    PROVE  After(s, a) \in Seq(S) /\ Joins(After(w, a), After(s, a), t)
<1>1. /\ Len(s) \in Nat /\ Len(t) \in Nat /\ Len(w) = Len(s) + Len(t)
      /\ \A i \in 1 .. Len(s) + Len(t) : w[i] = IF i <= Len(s) THEN s[i] ELSE t[i - Len(s)]
  BY ConcatProperties
<1> DEFINE u == SubSeq(s, a + 1, Len(s))
           v == SubSeq(w, a + 1, Len(w))
<1>2. /\ u \in Seq(S) /\ Len(u) = Len(s) - a /\ \A i \in 1 .. Len(s) - a : u[i] = s[i + a]
  <2>1. /\ u \in Seq(S) /\ Len(u) = Len(s) - (a + 1) + 1
        /\ \A k \in 1 .. Len(s) - (a + 1) + 1 : u[k] = s[k + (a + 1) - 1]
    BY <1>1, SubSeqIs
  <2>2. Len(s) - (a + 1) + 1 = Len(s) - a /\ \A k \in 1 .. Len(s) - a : k + (a + 1) - 1 = k + a
    BY <1>1
  <2> HIDE DEF u
  <2> QED
    BY <2>1, <2>2
<1>3. /\ v \in Seq(S) /\ Len(v) = Len(s) + Len(t) - a
      /\ \A i \in 1 .. Len(s) + Len(t) - a : v[i] = w[i + a]
  <2>1. /\ v \in Seq(S) /\ Len(v) = Len(w) - (a + 1) + 1
        /\ \A k \in 1 .. Len(w) - (a + 1) + 1 : v[k] = w[k + (a + 1) - 1]
    BY <1>1, SubSeqIs
  <2>2. Len(w) - (a + 1) + 1 = Len(s) + Len(t) - a
    BY <1>1
  <2>3. \A k \in Int : k + (a + 1) - 1 = k + a
    OBVIOUS
  <2> HIDE DEF v
  <2> QED
    BY <2>1, <2>2, <2>3
<1> HIDE DEF u, v
<1>4. /\ u \o t \in Seq(S) /\ Len(u \o t) = Len(s) - a + Len(t)
      /\ \A i \in 1 .. Len(s) - a + Len(t) :
           (u \o t)[i] = IF i <= Len(s) - a THEN u[i] ELSE t[i - (Len(s) - a)]
  <2>1. /\ u \o t \in Seq(S) /\ Len(u \o t) = Len(u) + Len(t)
        /\ \A i \in 1 .. Len(u) + Len(t) :
             (u \o t)[i] = IF i <= Len(u) THEN u[i] ELSE t[i - Len(u)]
    BY <1>2, ConcatProperties
  <2>2. PICK l \in Nat : l = Len(s) - a
    <3>1. Len(s) - a \in Nat
      BY <1>1
    <3> QED
      BY <3>1
  <2>3. Len(u) = l
    BY <1>2, <2>2
  <2>4. /\ u \o t \in Seq(S) /\ Len(u \o t) = l + Len(t)
        /\ \A i \in 1 .. l + Len(t) : (u \o t)[i] = IF i <= l THEN u[i] ELSE t[i - l]
    BY <2>1, <2>3
  <2> QED
    BY <2>2, <2>4
<1>5. ASSUME NEW i \in 1 .. Len(s) + Len(t) - a PROVE v[i] = (u \o t)[i]
  <2>1. i + a \in 1 .. Len(s) + Len(t)
    BY <1>1
  <2>2. v[i] = IF i + a <= Len(s) THEN s[i + a] ELSE t[i + a - Len(s)]
    BY <1>1, <1>3, <2>1
  <2>3. i \in 1 .. Len(s) - a + Len(t)
    BY <1>1
  <2>4. (u \o t)[i] = IF i <= Len(s) - a THEN u[i] ELSE t[i - (Len(s) - a)]
    BY <1>4, <2>3
  <2>5. (i + a <= Len(s) <=> i <= Len(s) - a) /\ i + a - Len(s) = i - (Len(s) - a)
    BY <1>1
  <2>6. i <= Len(s) - a => u[i] = s[i + a]
    BY <1>1, <1>2
  <2> QED
    BY <2>2, <2>4, <2>5, <2>6
<1>6. Len(v) = Len(u \o t) /\ Len(v) = Len(s) + Len(t) - a
  BY <1>1, <1>3, <1>4
<1>7. v = u \o t
  BY <1>3, <1>4, <1>5, <1>6, SameSeq
<1> QED
  BY <1>2, <1>7, Zenon DEF u, v, After, Joins

(* What a sequence of records is on the wire: a block of cells for each.       *)
CellsOf(S) == [part : 1 .. Cells, rec : S]

Blocked(w, recs) ==
    /\ Len(w) = Len(recs) * Cells
    /\ \A i \in 1 .. Len(recs), c \in 1 .. Cells : w[(i - 1) * Cells + c] = [part |-> c, rec |-> recs[i]]

LEMMA OnWireIsBlocked ==
    ASSUME Cells \in Nat \ {0}, NEW S, NEW recs \in Seq(S)
    PROVE  OnWire(recs) \in Seq(CellsOf(S)) /\ Blocked(OnWire(recs), recs)
<1> DEFINE K == Cells
           block(i) == [c \in 1 .. K |-> [part |-> c, rec |-> recs[i]]]
           ss == [i \in DOMAIN recs |-> block(i)]
<1>0. K \in Nat \ {0}
  OBVIOUS
<1>1. \A i \in 1 .. Len(recs) : block(i) \in Seq(CellsOf(S)) /\ Len(block(i)) = K
  BY <1>0 DEF CellsOf
<1> HIDE DEF block
<1>2. ss \in Seq(Seq(CellsOf(S))) /\ Len(ss) = Len(recs) /\ \A i \in 1 .. Len(recs) : ss[i] = block(i)
  BY <1>1
<1>3. OnWire(recs) = FlattenSeq(ss)
  BY DEF OnWire, block
<1>4. CASE Len(recs) = 0
  <2>1. FlattenSeq(ss) = ss
    BY <1>2, <1>4 DEF FlattenSeq
  <2>2. ss \in Seq(CellsOf(S)) /\ Len(ss) = 0
    BY <1>2, <1>4
  <2>3. 0 * K = 0 /\ 1 .. 0 = {}
    BY <1>0
  <2> HIDE DEF ss
  <2> QED
    BY <1>3, <1>4, <2>1, <2>2, <2>3 DEF Blocked
<1>5. CASE Len(recs) # 0
  <2>1. Len(recs) \in Nat /\ Len(recs) > 0
    BY <1>5
  <2>2. PICK f : /\ FlattenSeq(ss) = f[Len(recs)]
                 /\ f[1] = ss[1]
                 /\ \A i \in 2 .. Len(recs) : f[i] = f[i - 1] \o ss[i]
    <3> HIDE DEF ss
    <3> QED
      BY <1>2, <2>1, FlattenSteps
  <2> HIDE DEF ss
  <2> DEFINE Upto(i) ==
        /\ f[i] \in Seq(CellsOf(S)) /\ Len(f[i]) = i * K
        /\ \A j \in 1 .. i, c \in 1 .. K : f[i][(j - 1) * K + c] = [part |-> c, rec |-> recs[j]]
  <2>3. Upto(1)
    <3>1. f[1] = block(1)
      BY <1>2, <2>1, <2>2
    <3>2. \A c \in 1 .. K : block(1)[c] = [part |-> c, rec |-> recs[1]]
      BY DEF block
    <3>3. \A j \in 1 .. 1, c \in 1 .. K : j = 1 /\ (j - 1) * K + c = c
      BY <1>0
    <3>4. 1 * K = K
      BY <1>0
    <3> QED
      BY <1>1, <2>1, <3>1, <3>2, <3>3, <3>4
  <2>4. ASSUME NEW i \in 1 .. Len(recs) - 1, Upto(i) PROVE Upto(i + 1)
    <3>0. Len(block(i + 1)) = K
      BY <1>1, <2>1
    <3>1. f[i + 1] = f[i] \o block(i + 1) /\ block(i + 1) \in Seq(CellsOf(S))
      <4>1. PICK k \in 2 .. Len(recs) : k = i + 1 /\ k - 1 = i
        BY <2>1
      <4>2. f[k] = f[k - 1] \o ss[k]
        BY <2>2
      <4>3. ss[k] = block(k)
        BY <1>2, <2>1
      <4>4. f[k] = f[i] \o block(k)
        BY <4>1, <4>2, <4>3
      <4> QED
        BY <1>1, <2>1, <4>1, <4>4
    <3>2. i * K \in Nat /\ (i + 1) * K = i * K + K
      BY <1>0, Blocks
    <3>3. /\ f[i + 1] \in Seq(CellsOf(S)) /\ Len(f[i + 1]) = i * K + K
          /\ \A n \in 1 .. i * K : f[i + 1][n] = f[i][n]
          /\ \A c \in 1 .. K : f[i + 1][i * K + c] = block(i + 1)[c]
      <4>1. f[i] \in Seq(CellsOf(S)) /\ Len(f[i]) = i * K
        BY <2>4
      <4>2. PICK b \in Nat : b = i * K
        BY <3>2
      <4>3. PICK u \in Seq(CellsOf(S)), v \in Seq(CellsOf(S)) : u = f[i] /\ v = block(i + 1)
        BY <3>1, <4>1
      <4>4. /\ u \o v \in Seq(CellsOf(S)) /\ Len(u \o v) = Len(u) + Len(v)
            /\ \A n \in 1 .. Len(u) : (u \o v)[n] = u[n]
            /\ \A n \in 1 .. Len(v) : (u \o v)[Len(u) + n] = v[n]
        BY Concat
      <4>5. f[i + 1] = u \o v
        BY <3>1, <4>3
      <4>6. Len(u) = b /\ Len(v) = K
        BY <3>0, <4>1, <4>2, <4>3
      <4> HIDE DEF K
      <4>7. /\ f[i + 1] \in Seq(CellsOf(S)) /\ Len(f[i + 1]) = b + K
            /\ \A n \in 1 .. b : f[i + 1][n] = u[n]
            /\ \A n \in 1 .. K : f[i + 1][b + n] = v[n]
        BY <4>4, <4>5, <4>6
      <4> QED
        BY <4>2, <4>3, <4>7
    <3>4. ASSUME NEW j \in 1 .. i, NEW c \in 1 .. K
          PROVE  f[i + 1][(j - 1) * K + c] = [part |-> c, rec |-> recs[j]]
      <4>1. (j - 1) * K + c \in 1 .. i * K
        <5>1. (j - 1) * K \in Nat /\ (j - 1) * K + K <= i * K
          BY <1>0, Blocks
        <5> QED
          BY <1>0, <3>2, <5>1
      <4> QED
        BY <2>4, <3>3, <4>1
    <3>5. ASSUME NEW c \in 1 .. K
          PROVE  f[i + 1][(i + 1 - 1) * K + c] = [part |-> c, rec |-> recs[i + 1]]
      BY <3>3 DEF block
    <3>6. ASSUME NEW j \in 1 .. i + 1, NEW c \in 1 .. K
          PROVE  f[i + 1][(j - 1) * K + c] = [part |-> c, rec |-> recs[j]]
      <4>1. j \in 1 .. i \/ j = i + 1
        OBVIOUS
      <4> QED
        BY <3>4, <3>5, <4>1
    <3> QED
      BY <3>2, <3>3, <3>6
  <2>5. Upto(Len(recs))
    <3> DEFINE T == {i \in Nat : i + 1 <= Len(recs) => Upto(i + 1)}
    <3>1. 0 \in T
      BY <2>3
    <3>2. ASSUME NEW i \in Nat, i \in T PROVE i + 1 \in T
      <4> SUFFICES ASSUME i + 1 + 1 <= Len(recs) PROVE Upto(i + 1 + 1)
        OBVIOUS
      <4>1. i + 1 \in 1 .. Len(recs) - 1 /\ Upto(i + 1)
        BY <2>1, <3>2
      <4> HIDE DEF Upto
      <4> QED
        BY <2>4, <4>1
    <3>3. Len(recs) - 1 \in T
      <4> HIDE DEF T
      <4> QED
        BY <2>1, <3>1, <3>2, Induction
    <3> HIDE DEF Upto
    <3> QED
      BY <2>1, <3>3
  <2> QED
    BY <1>3, <2>2, <2>5 DEF Blocked
<1> QED
  BY <1>4, <1>5

(* parseRecords takes the whole records at the beginning of the stream, and    *)
(* no more.                                                                    *)
LEMMA ParsesPrefix ==
    ASSUME Cells \in Nat \ {0}, NEW S, NEW recs \in Seq(S), NEW w, Blocked(w, recs),
           NEW buf \in Seq(CellsOf(S)), Len(buf) <= Len(w), \A n \in 1 .. Len(buf) : buf[n] = w[n],
           NEW q, q = Len(buf) \div Cells
    PROVE  /\ q \in 0 .. Len(recs) /\ q * Cells <= Len(buf) /\ Consumed(buf) = q * Cells
           /\ ParseRecords(buf) = SubSeq(recs, 1, q)
<1> DEFINE K == Cells
<1>0. K \in Nat \ {0} /\ Len(buf) \in Nat /\ Len(recs) \in Nat
  OBVIOUS
<1>q. q = Len(buf) \div K
  OBVIOUS
<1> HIDE DEF K
<1>1. q \in Nat /\ q * K \in Nat /\ q * K <= Len(buf)
  <2>1. PICK n \in Nat : n = Len(buf)
    BY <1>0
  <2>2. n \div K \in Nat /\ (n \div K) * K <= n
    BY <1>0, Division
  <2>3. q \in Nat /\ q * K <= n
    BY <1>q, <2>1, <2>2
  <2> QED
    BY <1>0, <2>1, <2>3
<1>2. Len(w) = Len(recs) * K
  BY DEF Blocked, K
<1>3. q <= Len(recs)
  <2>1. CASE Len(recs) < q
    <3>1. Len(recs) * K + K <= q * K
      BY <1>0, <1>1, <2>1, Blocks
    <3>2. PICK a \in Nat, b \in Nat : a = Len(recs) * K /\ b = q * K
      BY <1>0, <1>1
    <3>3. PICK l \in Nat : l = Len(buf)
      BY <1>0
    <3>4. a + K <= b
      BY <3>1, <3>2
    <3>5. b <= l
      BY <1>1, <3>2, <3>3
    <3>6. l <= a
      BY <1>2, <3>2, <3>3
    <3> QED
      BY <1>0, <3>4, <3>5, <3>6
  <2> QED
    BY <1>0, <1>1, <2>1
<1>4. ASSUME NEW i \in 1 .. q
      PROVE  buf[(i - 1) * K + 1].part = 1 /\ buf[(i - 1) * K + 1].rec = recs[i]
  <2>0. i - 1 \in Nat /\ i - 1 < q
    BY <1>1
  <2>1. (i - 1) * K \in Nat /\ (i - 1) * K + K <= q * K
    BY <1>0, <1>1, <2>0, Blocks
  <2>2. PICK a \in Nat : a = (i - 1) * K
    BY <2>1
  <2>3. a + 1 \in 1 .. Len(buf)
    <3>1. PICK b \in Nat : b = q * K /\ b <= Len(buf)
      BY <1>1
    <3>2. a + K <= b
      BY <2>1, <2>2, <3>1
    <3> QED
      BY <1>0, <3>1, <3>2
  <2>4. i \in 1 .. Len(recs) /\ 1 \in 1 .. K
    BY <1>0, <1>1, <1>3
  <2>5. w[(i - 1) * K + 1] = [part |-> 1, rec |-> recs[i]]
    BY <2>4 DEF Blocked, K
  <2> QED
    BY <2>2, <2>3, <2>5
<1>5. Whole(buf) = q
  <2> DEFINE good == {k \in 0 .. Len(buf) \div K : \A i \in 1 .. k : buf[(i - 1) * K + 1].part = 1}
  <2>1. q \in good /\ \A k \in good : k \in Nat /\ q >= k
    BY <1>1, <1>4 DEF K
  <2>2. Whole(buf) = Max(good)
    BY DEF Whole, K
  <2> HIDE DEF good
  <2>3. \A m \in good : (\A k \in good : m >= k) => m = q
    BY <1>1, <2>1
  <2> QED
    BY <2>1, <2>2, <2>3 DEF Max
<1>6. Consumed(buf) = q * Cells
  BY <1>5 DEF Consumed
<1>7. ParseRecords(buf) = SubSeq(recs, 1, q)
  <2>1. ParseRecords(buf) = [i \in 1 .. q |-> recs[i]]
    <3>1. ParseRecords(buf) = [i \in 1 .. q |-> buf[(i - 1) * K + 1].rec]
      BY <1>5 DEF ParseRecords, K
    <3>2. \A i \in 1 .. q : buf[(i - 1) * K + 1].rec = recs[i]
      BY <1>4
    <3> QED
      BY <3>1, <3>2
  <2>2. SubSeq(recs, 1, q) = [i \in 1 .. q |-> recs[i]]
    <3>1. /\ SubSeq(recs, 1, q) \in Seq(S) /\ Len(SubSeq(recs, 1, q)) = q - 1 + 1
          /\ \A k \in 1 .. q - 1 + 1 : SubSeq(recs, 1, q)[k] = recs[k + 1 - 1]
      BY <1>0, <1>1, <1>3, SubSeqIs
    <3> QED
      BY <1>1, <3>1
  <2> QED
    BY <2>1, <2>2
<1> QED
  BY <1>0, <1>1, <1>3, <1>6, <1>7 DEF K

(* What is left after whole records, and what comes after others.              *)
LEMMA BlocksLeft ==
    ASSUME Cells \in Nat \ {0}, NEW S, NEW recs \in Seq(S), NEW w \in Seq(CellsOf(S)), Blocked(w, recs),
           NEW q \in 0 .. Len(recs)
    PROVE  /\ q * Cells \in 0 .. Len(w)
           /\ Blocked(SubSeq(w, q * Cells + 1, Len(w)), SubSeq(recs, q + 1, Len(recs)))
<1> DEFINE K == Cells
<1>0. K \in Nat \ {0} /\ Len(recs) \in Nat /\ q \in Nat
  OBVIOUS
<1> HIDE DEF K
<1>1. Len(w) = Len(recs) * K
  BY DEF Blocked, K
<1>2. PICK a \in Nat : a = q * K
  BY <1>0
<1>3. PICK m \in Nat : m = Len(recs) - q
  BY <1>0
<1>4. Len(w) = a + m * K /\ m * K \in Nat
  <2>1. Len(recs) = q + m
    BY <1>0, <1>3
  <2>2. (q + m) * K = q * K + m * K /\ m * K \in Nat
    BY <1>0
  <2> QED
    BY <1>1, <1>2, <2>1, <2>2
<1>5. PICK l \in Nat : l = m * K /\ Len(w) = a + l
  BY <1>4
<1> DEFINE u == SubSeq(w, a + 1, Len(w))
           r == SubSeq(recs, q + 1, Len(recs))
<1>6. Len(u) = l /\ \A k \in 1 .. l : u[k] = w[k + a]
  <2>1. a + 1 \in 1 .. Len(w) + 1 /\ a + l \in (a + 1 - 1) .. Len(w)
    BY <1>5
  <2>2. /\ Len(SubSeq(w, a + 1, a + l)) = a + l - (a + 1) + 1
        /\ \A k \in 1 .. a + l - (a + 1) + 1 : SubSeq(w, a + 1, a + l)[k] = w[k + (a + 1) - 1]
    BY <2>1, SubSeqIs
  <2>3. a + l - (a + 1) + 1 = l /\ \A k \in 1 .. l : k + (a + 1) - 1 = k + a
    OBVIOUS
  <2>4. u = SubSeq(w, a + 1, a + l)
    BY <1>5
  <2> HIDE DEF u
  <2> QED
    BY <2>2, <2>3, <2>4
<1>7. Len(r) = m /\ \A k \in 1 .. m : r[k] = recs[k + q]
  <2>1. /\ Len(r) = Len(recs) - (q + 1) + 1
        /\ \A k \in 1 .. Len(recs) - (q + 1) + 1 : r[k] = recs[k + (q + 1) - 1]
    BY <1>0, SubSeqIs
  <2> QED
    BY <1>0, <1>3, <2>1
<1> HIDE DEF u, r
<1>8. \A j \in 1 .. Len(recs), c \in 1 .. K : w[(j - 1) * K + c] = [part |-> c, rec |-> recs[j]]
  BY DEF Blocked, K
<1>9. ASSUME NEW i \in 1 .. m, NEW c \in 1 .. K PROVE u[(i - 1) * K + c] = [part |-> c, rec |-> r[i]]
  <2>1. i - 1 \in Nat /\ i - 1 < m /\ i + q \in 1 .. Len(recs)
    BY <1>0, <1>3
  <2>2. (i - 1) * K \in Nat /\ (i - 1) * K + K <= m * K
    BY <1>0, <2>1, Blocks
  <2>3. PICK n \in 1 .. l : n = (i - 1) * K + c
    BY <1>0, <1>5, <2>2
  <2>4. (i + q - 1) * K + c = n + a
    <3>1. (i - 1 + q) * K = (i - 1) * K + q * K /\ i + q - 1 = i - 1 + q
      BY <1>0
    <3> QED
      BY <1>0, <1>2, <2>2, <2>3, <3>1
  <2>5. w[(i + q - 1) * K + c] = [part |-> c, rec |-> recs[i + q]]
    <3>1. PICK j \in 1 .. Len(recs) : j = i + q
      BY <2>1
    <3>2. w[(j - 1) * K + c] = [part |-> c, rec |-> recs[j]]
      BY <1>8
    <3> QED
      BY <3>1, <3>2
  <2>6. u[n] = w[n + a] /\ r[i] = recs[i + q]
    BY <1>6, <1>7
  <2> QED
    BY <2>3, <2>4, <2>5, <2>6
<1>10. Len(u) = Len(r) * K
  BY <1>5, <1>6, <1>7
<1>11. Blocked(u, r)
  BY <1>7, <1>9, <1>10 DEF Blocked, K
<1> QED
  BY <1>2, <1>5, <1>11 DEF K, u, r

LEMMA BlocksJoined ==
    ASSUME Cells \in Nat \ {0}, NEW S, NEW r \in Seq(S), NEW s \in Seq(S),
           NEW u \in Seq(CellsOf(S)), NEW v \in Seq(CellsOf(S)), Blocked(u, r), Blocked(v, s)
    PROVE  Blocked(u \o v, r \o s)
<1> DEFINE K == Cells
<1>0. K \in Nat \ {0} /\ Len(r) \in Nat /\ Len(s) \in Nat
  OBVIOUS
<1> HIDE DEF K
<1>1. PICK a \in Nat : a = Len(r) * K
  BY <1>0
<1>2. PICK b \in Nat : b = Len(s) * K
  BY <1>0
<1>3. Len(u) = a /\ Len(v) = b
  BY <1>1, <1>2 DEF Blocked, K
<1>4. /\ Len(u \o v) = Len(u) + Len(v)
      /\ \A n \in 1 .. Len(u) : (u \o v)[n] = u[n]
      /\ \A n \in 1 .. Len(v) : (u \o v)[Len(u) + n] = v[n]
  BY Concat
<1>5. /\ Len(r \o s) = Len(r) + Len(s)
      /\ \A n \in 1 .. Len(r) : (r \o s)[n] = r[n]
      /\ \A n \in 1 .. Len(s) : (r \o s)[Len(r) + n] = s[n]
  BY Concat
<1>6. ASSUME NEW i \in 1 .. Len(r) + Len(s), NEW c \in 1 .. K
      PROVE  (u \o v)[(i - 1) * K + c] = [part |-> c, rec |-> (r \o s)[i]]
  <2>1. CASE i <= Len(r)
    <3>1. i - 1 \in Nat /\ i - 1 < Len(r) /\ i \in 1 .. Len(r)
      BY <1>0, <2>1
    <3>2. (i - 1) * K \in Nat /\ (i - 1) * K + K <= Len(r) * K
      BY <1>0, <3>1, Blocks
    <3>3. PICK n \in 1 .. a : n = (i - 1) * K + c
      <4>1. PICK p \in Nat : p = (i - 1) * K
        BY <3>2
      <4>2. p + K <= a
        BY <1>1, <3>2, <4>1
      <4>3. p + c \in 1 .. a
        BY <1>0, <4>2
      <4> QED
        BY <4>1, <4>3
    <3>4. u[(i - 1) * K + c] = [part |-> c, rec |-> r[i]]
      BY <3>1 DEF Blocked, K
    <3>5. (u \o v)[n] = u[n] /\ (r \o s)[i] = r[i]
      BY <1>3, <1>4, <1>5, <3>1
    <3> QED
      BY <3>3, <3>4, <3>5
  <2>2. CASE i > Len(r)
    <3>1. PICK j \in 1 .. Len(s) : i = Len(r) + j
      <4>1. i - Len(r) \in 1 .. Len(s) /\ i = Len(r) + (i - Len(r))
        BY <1>0, <2>2
      <4> QED
        BY <4>1
    <3>2. j - 1 \in Nat /\ j - 1 < Len(s)
      BY <1>0, <3>1
    <3>3. (j - 1) * K \in Nat /\ (j - 1) * K + K <= Len(s) * K
      BY <1>0, <3>2, Blocks
    <3>4. PICK n \in 1 .. b : n = (j - 1) * K + c
      <4>1. PICK p \in Nat : p = (j - 1) * K
        BY <3>3
      <4>2. p + K <= b
        BY <1>2, <3>3, <4>1
      <4>3. p + c \in 1 .. b
        BY <1>0, <4>2
      <4> QED
        BY <4>1, <4>3
    <3>5. v[(j - 1) * K + c] = [part |-> c, rec |-> s[j]]
      BY <3>1 DEF Blocked, K
    <3>6. (i - 1) * K + c = a + n
      <4>1. (Len(r) + (j - 1)) * K = Len(r) * K + (j - 1) * K /\ i - 1 = Len(r) + (j - 1)
        BY <1>0, <3>1
      <4> QED
        BY <1>0, <1>1, <3>3, <3>4, <4>1
    <3>7. (u \o v)[a + n] = v[n] /\ (r \o s)[i] = s[j]
      BY <1>3, <1>4, <1>5, <3>1
    <3> QED
      BY <3>4, <3>5, <3>6, <3>7
  <2>3. i <= Len(r) \/ i > Len(r)
    BY <1>0
  <2> QED
    BY <2>1, <2>2, <2>3
<1>7. (Len(r) + Len(s)) * K = a + b
  <2>1. (Len(r) + Len(s)) * K = Len(r) * K + Len(s) * K
    BY <1>0
  <2> QED
    BY <1>1, <1>2, <2>1
<1>8. Len(u \o v) = Len(r \o s) * K
  BY <1>3, <1>4, <1>5, <1>7
<1>9. Len(r \o s) = Len(r) + Len(s)
  BY <1>5
<1> QED
  BY <1>6, <1>8, <1>9 DEF Blocked, K

(* A stream of which `pending` has not been taken: records that were parsed,   *)
(* then those of the bytes that were read and of the bytes still on their way. *)
Framed(recq, rxbuf, line, pending) ==
    \E S, recs :
        /\ recq \in Seq(S) /\ recs \in Seq(S)
        /\ rxbuf \in Seq(CellsOf(S)) /\ line \in Seq(CellsOf(S))
        /\ Blocked(rxbuf \o line, recs)
        /\ pending = recq \o recs

(* Nothing has been sent.                                                      *)
LEMMA NothingFramed ==
    ASSUME Cells \in Nat \ {0}
    PROVE  Framed(<<>>, <<>>, <<>>, <<>>)
<1>1. <<>> \in Seq({}) /\ <<>> \in Seq(CellsOf({})) /\ <<>> \o <<>> = <<>> /\ Len(<<>>) = 0
  OBVIOUS
<1>2. 0 * Cells = 0
  OBVIOUS
<1>3. Blocked(<<>>, <<>>)
  BY <1>1, <1>2 DEF Blocked
<1>4. Blocked(<<>> \o <<>>, <<>>) /\ <<>> = <<>> \o <<>>
  BY <1>1, <1>3
<1> QED
  BY <1>1, <1>4 DEF Framed

(* What parseRecords makes of the whole stream.                                *)
LEMMA FramedMeans ==
    ASSUME Cells \in Nat \ {0}, NEW recq, NEW rxbuf, NEW line, NEW pending,
           Framed(recq, rxbuf, line, pending)
    PROVE  /\ Joins(pending, recq, ParseRecords(rxbuf \o line))
           /\ Consumed(rxbuf \o line) = Len(rxbuf \o line)
<1>1. PICK S, recs :
        /\ recq \in Seq(S) /\ recs \in Seq(S)
        /\ rxbuf \in Seq(CellsOf(S)) /\ line \in Seq(CellsOf(S))
        /\ Blocked(rxbuf \o line, recs)
        /\ pending = recq \o recs
  BY DEF Framed
<1>2. PICK w \in Seq(CellsOf(S)) : w = rxbuf \o line
  BY <1>1, ConcatProperties
<1>3. PICK k \in Nat : k = Len(recs)
  BY <1>1
<1>4. Len(w) = k * Cells /\ Len(w) \in Nat
  BY <1>1, <1>2, <1>3 DEF Blocked
<1>5. Len(w) \div Cells = k
  <2>1. Cells \in Nat \ {0}
    OBVIOUS
  <2>2. k * Cells < k * Cells + Cells
    BY <2>1
  <2> QED
    BY <1>3, <1>4, <2>1, <2>2, Division
<1>6. Blocked(w, recs) /\ Len(w) <= Len(w) /\ \A n \in 1 .. Len(w) : w[n] = w[n]
  BY <1>1, <1>2, <1>4
<1>7. Consumed(w) = k * Cells /\ ParseRecords(w) = SubSeq(recs, 1, k)
  BY <1>1, <1>5, <1>6, ParsesPrefix
<1>8. SubSeq(recs, 1, k) = recs
  BY <1>1, <1>3, SubSeqFull
<1>9. Joins(pending, recq, ParseRecords(rxbuf \o line))
  BY <1>1, <1>2, <1>7, <1>8, Zenon DEF Joins
<1> QED
  BY <1>2, <1>4, <1>7, <1>9

(* Records that come whole are parsed as they were sent.                       *)
LEMMA ParsedBack ==
    ASSUME Cells \in Nat \ {0}, NEW S, NEW recs \in Seq(S)
    PROVE  ParseRecords(OnWire(recs)) = recs
<1>1. Blocked(OnWire(recs), recs) /\ OnWire(recs) \in Seq(CellsOf(S))
  BY OnWireIsBlocked
<1>2. PICK w \in Seq(CellsOf(S)) : w = OnWire(recs)
  BY <1>1
<1>3. PICK n \in Nat : n = Len(recs)
  OBVIOUS
<1>4. Len(w) \in Nat /\ Len(w) = n * Cells
  BY <1>1, <1>2, <1>3 DEF Blocked
<1>5. Len(w) \div Cells = n
  <2>1. n * Cells < n * Cells + Cells
    OBVIOUS
  <2> QED
    BY <1>3, <1>4, <2>1, Division
<1>6. Blocked(w, recs) /\ Len(w) <= Len(w) /\ \A i \in 1 .. Len(w) : w[i] = w[i]
  BY <1>1, <1>2, <1>4
<1>7. ParseRecords(w) = SubSeq(recs, 1, n)
  BY <1>5, <1>6, ParsesPrefix
<1>8. SubSeq(recs, 1, n) = recs
  BY <1>3, SubSeqFull
<1> QED
  BY <1>2, <1>7, <1>8, Zenon

(* Reading some bytes takes nothing.                                           *)
LEMMA ReadKeepsFrames ==
    ASSUME NEW recq, NEW rxbuf, NEW line, NEW pending, Framed(recq, rxbuf, line, pending),
           NEW n \in 1 .. Len(line)
    PROVE  Framed(recq, rxbuf \o SubSeq(line, 1, n), SubSeq(line, n + 1, Len(line)), pending)
<1>1. PICK S, recs :
        /\ recq \in Seq(S) /\ recs \in Seq(S)
        /\ rxbuf \in Seq(CellsOf(S)) /\ line \in Seq(CellsOf(S))
        /\ Blocked(rxbuf \o line, recs)
        /\ pending = recq \o recs
  BY DEF Framed
<1>2. PICK u \in Seq(CellsOf(S)), v \in Seq(CellsOf(S)) :
        /\ u = SubSeq(line, 1, n) /\ v = SubSeq(line, n + 1, Len(line))
        /\ u \o v = line
  <2>1. Len(line) \in Nat
    BY <1>1
  <2>2. SubSeq(line, 1, n) \in Seq(CellsOf(S)) /\ SubSeq(line, n + 1, Len(line)) \in Seq(CellsOf(S))
    BY <1>1, <2>1, SubSeqIs
  <2>3. SubSeq(line, 1, n) \o SubSeq(line, n + 1, Len(line)) = SubSeq(line, 1, Len(line))
    BY <1>1, <2>1, ConcatAdjacentSubSeq
  <2> QED
    BY <1>1, <2>2, <2>3, SubSeqFull
<1>3. rxbuf \o u \in Seq(CellsOf(S)) /\ (rxbuf \o u) \o v = rxbuf \o (u \o v)
  <2>1. rxbuf \in Seq(CellsOf(S))
    BY <1>1
  <2>2. rxbuf \o u \in Seq(CellsOf(S))
    BY <2>1, ConcatProperties
  <2>3. (rxbuf \o u) \o v = rxbuf \o (u \o v)
    BY <2>1, ConcatAssociative
  <2> QED
    BY <2>2, <2>3
<1>4. Blocked((rxbuf \o u) \o v, recs)
  BY <1>1, <1>2, <1>3
<1> QED
  BY <1>1, <1>2, <1>3, <1>4 DEF Framed

(* What is sent comes after what was.                                          *)
LEMMA SendKeepsFrames ==
    ASSUME Cells \in Nat \ {0}, NEW recq, NEW rxbuf, NEW line, NEW pending,
           Framed(recq, rxbuf, line, pending), NEW T, NEW new \in Seq(T)
    PROVE  Framed(recq, rxbuf, line \o OnWire(new), pending \o new)
<1>1. PICK S, recs :
        /\ recq \in Seq(S) /\ recs \in Seq(S)
        /\ rxbuf \in Seq(CellsOf(S)) /\ line \in Seq(CellsOf(S))
        /\ Blocked(rxbuf \o line, recs)
        /\ pending = recq \o recs
  BY DEF Framed
<1> DEFINE U == S \cup T
<1>2. recq \in Seq(U) /\ recs \in Seq(U) /\ new \in Seq(U)
  BY <1>1
<1>3. CellsOf(S) \subseteq CellsOf(U)
  BY DEF CellsOf
<1> HIDE DEF U
<1>4. rxbuf \in Seq(CellsOf(U)) /\ line \in Seq(CellsOf(U))
  BY <1>1, <1>3
<1>5. OnWire(new) \in Seq(CellsOf(U)) /\ Blocked(OnWire(new), new)
  BY <1>2, OnWireIsBlocked
<1>6. PICK v \in Seq(CellsOf(U)) : v = OnWire(new)
  BY <1>5
<1>7. Blocked((rxbuf \o line) \o v, recs \o new)
  <2>1. rxbuf \o line \in Seq(CellsOf(U))
    BY <1>4
  <2> QED
    BY <1>1, <1>2, <1>5, <1>6, <2>1, BlocksJoined
<1>8. (rxbuf \o line) \o v = rxbuf \o (line \o v) /\ line \o v \in Seq(CellsOf(U))
  BY <1>4, Associative
<1>9. pending \o new = recq \o (recs \o new) /\ recs \o new \in Seq(U)
  BY <1>1, <1>2, Associative
<1>10. Blocked(rxbuf \o (line \o v), recs \o new)
  BY <1>7, <1>8
<1> QED
  BY <1>2, <1>4, <1>6, <1>8, <1>9, <1>10 DEF Framed

(* nextRecord returns the first record that is pending, and leaves the others. *)
LEMMA TakeKeepsFrames ==
    ASSUME Cells \in Nat \ {0}, NEW pending, Framed(mc.recq, mc.rxbuf, wire, pending), Unread.recs # <<>>
    PROVE  /\ pending # <<>> /\ NextRecord = Head(pending)
           /\ Framed(Tail(Unread.recs), Unread.rest, wire, Tail(pending))
<1>1. PICK S, recs :
        /\ mc.recq \in Seq(S) /\ recs \in Seq(S)
        /\ mc.rxbuf \in Seq(CellsOf(S)) /\ wire \in Seq(CellsOf(S))
        /\ Blocked(mc.rxbuf \o wire, recs)
        /\ pending = mc.recq \o recs
  BY DEF Framed
<1>2. CASE mc.recq # <<>>
  <2>1. Unread.recs = mc.recq /\ Unread.rest = mc.rxbuf
    BY <1>2 DEF Unread
  <2>2. /\ pending # <<>> /\ Head(mc.recq) = Head(pending)
        /\ Tail(pending) = Tail(mc.recq) \o recs /\ Tail(mc.recq) \in Seq(S)
    <3>1. mc.recq \o recs # <<>> /\ Head(mc.recq \o recs) = Head(mc.recq)
      BY <1>1, <1>2, HeadTailOfConcat
    <3>2. Tail(mc.recq) \in Seq(S) /\ Joins(Tail(mc.recq \o recs), Tail(mc.recq), recs)
      BY <1>1, <1>2, HeadTailOfConcat
    <3> QED
      BY <1>1, <3>1, <3>2, Zenon DEF Joins
  <2> QED
    BY <1>1, <2>1, <2>2 DEF Framed, NextRecord
<1>3. CASE mc.recq = <<>>
  <2>1. pending = recs
    BY <1>1, <1>3
  <2>2. PICK buf \in Seq(CellsOf(S)) : buf = mc.rxbuf
    BY <1>1
  <2>3. PICK w \in Seq(CellsOf(S)) : w = buf \o wire
    BY <1>1, ConcatProperties
  <2>4. /\ Len(buf) \in Nat /\ Len(wire) \in Nat /\ Len(w) = Len(buf) + Len(wire)
        /\ \A n \in 1 .. Len(buf) : buf[n] = w[n]
    BY <1>1, <2>3, Concat
  <2>t. Blocked(w, recs) /\ Len(buf) <= Len(w)
    BY <1>1, <2>2, <2>3, <2>4
  <2> DEFINE q == Len(buf) \div Cells
  <2>5. /\ q \in 0 .. Len(recs) /\ q * Cells <= Len(buf) /\ Consumed(buf) = q * Cells
        /\ ParseRecords(buf) = SubSeq(recs, 1, q)
    BY <1>1, <2>4, <2>t, ParsesPrefix
  <2> HIDE DEF q
  <2>6. PICK a \in Nat : a = q * Cells
    BY <2>5
  <2>7. Unread.recs = SubSeq(recs, 1, q) /\ Unread.rest = SubSeq(buf, a + 1, Len(buf))
    BY <1>3, <2>2, <2>5, <2>6 DEF Unread
  <2>8. q # 0
    BY <1>1, <2>7
  <2> DEFINE more == SubSeq(recs, q + 1, Len(recs))
  <2>9. /\ recs # <<>> /\ Head(SubSeq(recs, 1, q)) = Head(recs)
        /\ Tail(SubSeq(recs, 1, q)) \in Seq(S) /\ more \in Seq(S)
        /\ Tail(recs) = Tail(SubSeq(recs, 1, q)) \o more
    <3>1. q \in 1 .. Len(recs)
      BY <2>5, <2>8
    <3>2. /\ recs # <<>> /\ Head(SubSeq(recs, 1, q)) = Head(recs)
          /\ Tail(SubSeq(recs, 1, q)) \in Seq(S) /\ more \in Seq(S)
          /\ Joins(Tail(recs), Tail(SubSeq(recs, 1, q)), more)
      BY <1>1, <3>1, HeadTailOfSplit
    <3> QED
      BY <3>2, Zenon DEF Joins
  <2>10. Blocked(SubSeq(w, a + 1, Len(w)), more)
    BY <1>1, <2>2, <2>3, <2>5, <2>6, BlocksLeft
  <2>11. /\ SubSeq(buf, a + 1, Len(buf)) \in Seq(CellsOf(S))
         /\ SubSeq(w, a + 1, Len(w)) = SubSeq(buf, a + 1, Len(buf)) \o wire
    <3>1. a \in 0 .. Len(buf)
      BY <2>4, <2>5, <2>6
    <3> QED
      <4>1. wire \in Seq(CellsOf(S))
        BY <1>1
      <4>2. After(buf, a) \in Seq(CellsOf(S)) /\ Joins(After(w, a), After(buf, a), wire)
        BY <2>3, <3>1, <4>1, RestOfConcat
      <4> QED
        BY <4>2, Zenon DEF After, Joins
  <2> HIDE DEF more
  <2>12. Framed(Tail(SubSeq(recs, 1, q)), SubSeq(buf, a + 1, Len(buf)), wire, Tail(recs))
    BY <1>1, <2>9, <2>10, <2>11 DEF Framed
  <2> QED
    BY <2>1, <2>7, <2>9, <2>12 DEF NextRecord
<1> QED
  BY <1>2, <1>3

--------------------------------------------------------------------------------
(* A handshake: the key share the client has sent, and what the server has     *)
(* made of it.                                                                 *)
Greeting(c) == Handshake("ServerHello", [group |-> c.group, pub |-> c.n])
Opening(c) == <<Handshake("ClientHello", [pub |-> c.n]), Greeting(c)>>
Shared(c) == Secret(c.n, c.n)
Flown(c) == Issued(Shared(c), Opening(c), c.flight)
Final(c) == Opening(c) \o Flown(c)
Said(c) == Append(Flown(c), Handshake("Finished", VerifyData(Shared(c), "server", Final(c))))

(* The flight as records, without the first k.                                 *)
Sealed(c, i) == Record("handshake", HandshakeKey(Shared(c), Opening(c), "server"), i, Said(c)[i])
Rest(c, k) == [i \in 1 .. Len(c.flight) + 1 - k |-> Sealed(c, k + i)]
AllSealed(c) == {Sealed(c, i) : i \in 1 .. Len(c.flight) + 1}

(* The hash the last CertificateVerify among the first k messages was fed to.  *)
Certs(c, k) == {i \in 1 .. k : c.flight[i].type = "CertVerify"}
CertHash(c, k) ==
    IF Certs(c, k) = {} THEN Null ELSE Opening(c) \o SubSeq(Flown(c), 1, Max(Certs(c, k)))

TicketsOf(list, secret, hash) ==
    /\ IsSequence(list)
    /\ \A j \in DOMAIN list : list[j].psk = PSK(secret, hash, list[j].type)

(* Some number below a bound is the highest of its kind.                       *)
LEMMA MaxOf ==
    ASSUME NEW S \in SUBSET Nat, NEW x \in S, \A y \in S : y <= x
    PROVE  Max(S) = x
<1>1. \A y \in S : (\A z \in S : y >= z) => y = x
  <2> SUFFICES ASSUME NEW y \in S, \A z \in S : y >= z PROVE y = x
    OBVIOUS
  <2>1. y >= x /\ y <= x /\ y \in Nat /\ x \in Nat
    OBVIOUS
  <2> QED
    BY <2>1
<1>2. \A z \in S : x >= z
  OBVIOUS
<1> QED
  BY <1>1, <1>2 DEF Max

LEMMA MaxExists ==
    ASSUME NEW S \in SUBSET Nat, S # {}, NEW b \in Nat, \A y \in S : y <= b
    PROVE  Max(S) \in S /\ \A y \in S : y <= Max(S)
<1> DEFINE B == {x \in Nat : \A y \in S : y <= x}
<1>1. PICK x \in B : \A y \in B : x <= y
  <2>1. B # {} /\ B \in SUBSET Nat
    OBVIOUS
  <2> HIDE DEF B
  <2> QED
    BY <2>1, MinExists
<1>2. x \in S
  <2> SUFFICES ASSUME x \notin S PROVE FALSE
    OBVIOUS
  <2>0. x \in Nat /\ (x = 0 \/ x - 1 \in Nat) /\ \A y \in S : y \in Nat /\ y <= x
    BY <1>1
  <2>1. x # 0 /\ x - 1 \in Nat
    <3>1. PICK y \in S : y \in Nat /\ y <= x
      BY <2>0
    <3>2. y # x
      OBVIOUS
    <3> QED
      BY <2>0, <3>1, <3>2
  <2>2. \A y \in S : y <= x - 1
    BY <1>1, <2>1
  <2> QED
    BY <1>1, <2>1, <2>2
<1> QED
  BY <1>1, <1>2, MaxOf

(* The server sends the flight as it is, and tickets for the keys it has.      *)
LEMMA FlownIs ==
    ASSUME NEW c, c.flight \in Flights, NEW m, m = Len(c.flight)
    PROVE  /\ m \in Nat
           /\ \E S : Flown(c) \in Seq(S)
           /\ Len(Flown(c)) = m
           /\ \A i \in 1 .. m :
                /\ Flown(c)[i].type = c.flight[i].type
                /\ Flown(c)[i].type # "Finished"
                /\ Flown(c)[i].type = "NewSessionTicket" =>
                     i = m /\ TicketsOf(Flown(c)[i].body, Shared(c), CertHash(c, m))
<1> DEFINE F == c.flight
           certs == {i \in DOMAIN F : F[i].type = "CertVerify"}
           hash == IF certs = {} THEN Null ELSE Opening(c) \o SubSeq(F, 1, Max(certs))
           ticket(t) == [type |-> t.type, lifetime |-> t.lifetime, psk |-> PSK(Shared(c), hash, t.type)]
           given(i) == IF F[i].type # "NewSessionTicket" THEN F[i]
                       ELSE [F[i] EXCEPT !.body = [j \in DOMAIN @ |-> ticket(@[j])]]
           S == {F[i] : i \in DOMAIN F}
           G == {given(i) : i \in DOMAIN F}
<1>1. /\ F \in Seq(S)
      /\ \A i \in DOMAIN F :
          /\ F[i] = [type |-> F[i].type, body |-> F[i].body]
          /\ F[i].type # "Finished"
          /\ F[i].type = "NewSessionTicket" => i = Len(F) /\ IsSequence(F[i].body)
  BY FlightsAssumption DEF IsSequence
<1>2. m \in Nat /\ DOMAIN F = 1 .. m
  BY <1>1
<1>3. Flown(c) = [i \in 1 .. m |-> given(i)]
  <2>1. Flown(c) = [i \in DOMAIN F |-> given(i)]
    BY DEF Flown, Issued
  <2> QED
    BY <1>2, <2>1
<1>4. Flown(c) \in Seq(G) /\ Len(Flown(c)) = m /\ \A i \in 1 .. m : Flown(c)[i] = given(i)
  <2> HIDE DEF given
  <2> QED
    BY <1>2, <1>3
<1>5. ASSUME NEW i \in 1 .. m, F[i].type # "NewSessionTicket" PROVE Flown(c)[i] = F[i]
  BY <1>4, <1>5
<1>6. ASSUME NEW i \in 1 .. m, F[i].type = "NewSessionTicket"
      PROVE  /\ Flown(c)[i].type = F[i].type
             /\ Flown(c)[i].body = [j \in DOMAIN F[i].body |-> ticket(F[i].body[j])]
  <2>1. F[i] = [type |-> F[i].type, body |-> F[i].body]
    BY <1>1, <1>2
  <2>2. Flown(c)[i] = [F[i] EXCEPT !.body = [j \in DOMAIN F[i].body |-> ticket(F[i].body[j])]]
    BY <1>4, <1>6
  <2> HIDE DEF ticket
  <2>3. "type" \in DOMAIN F[i] /\ "body" \in DOMAIN F[i]
    BY <2>1
  <2> QED
    BY <2>2, <2>3
<1>7. CertHash(c, m) = hash
  <2>1. Certs(c, m) = certs
    BY <1>2 DEF Certs
  <2>2. CASE certs = {}
    BY <2>1, <2>2 DEF CertHash
  <2>3. CASE certs # {}
    <3>1. Max(certs) \in certs
      <4>1. certs \in SUBSET Nat /\ \A y \in certs : y <= m
        BY <1>2
      <4> HIDE DEF certs
      <4> QED
        BY <1>2, <2>3, <4>1, MaxExists
    <3>2. ASSUME NEW j \in 1 .. Max(certs) PROVE j \in 1 .. m /\ F[j].type # "NewSessionTicket"
      <4>1. PICK x \in 1 .. m : x = Max(certs) /\ F[x].type = "CertVerify"
        BY <1>2, <3>1
      <4>2. j \in 1 .. m /\ j <= x
        BY <1>2, <4>1
      <4>3. F[j].type = "NewSessionTicket" => j = m
        BY <1>1, <1>2, <4>2
      <4>4. j = m => x = m
        BY <1>2, <4>2
      <4> HIDE DEF F
      <4> QED
        BY <4>1, <4>2, <4>3, <4>4
    <3>3. \A j \in 1 .. Max(certs) : Flown(c)[j] = F[j]
      BY <1>5, <3>2
    <3>4. SubSeq(Flown(c), 1, Max(certs)) = SubSeq(F, 1, Max(certs))
      <4>1. Max(certs) \in 1 .. m
        BY <1>2, <3>1
      <4> HIDE DEF certs
      <4>2. PICK x \in Nat : x = Max(certs) /\ x <= m
        BY <1>2, <4>1
      <4>3. /\ Flown(c) \in Seq(G) /\ F \in Seq(S) /\ x <= Len(Flown(c)) /\ x <= Len(F)
            /\ \A i \in 1 .. x : Flown(c)[i] = F[i]
        BY <1>1, <1>4, <3>3, <4>2
      <4> HIDE DEF F, S, G
      <4> QED
        BY <4>2, <4>3, SamePrefix
    <3> QED
      BY <2>1, <2>3, <3>4 DEF CertHash
  <2> QED
    BY <2>2, <2>3
<1>8. ASSUME NEW i \in 1 .. m, Flown(c)[i].type = "NewSessionTicket"
      PROVE  i = m /\ TicketsOf(Flown(c)[i].body, Shared(c), CertHash(c, m))
  <2>1. F[i].type = "NewSessionTicket"
    BY <1>5, <1>8
  <2>2. Flown(c)[i].body = [j \in DOMAIN F[i].body |-> ticket(F[i].body[j])]
    BY <1>6, <2>1
  <2>3. i = m /\ F[i].body \in Seq({F[i].body[j] : j \in DOMAIN F[i].body})
    BY <1>1, <1>2, <2>1 DEF IsSequence
  <2>4. PICK n \in Nat : DOMAIN F[i].body = 1 .. n
    BY <2>3
  <2>5. \A j \in 1 .. n : Flown(c)[i].body[j].psk = PSK(Shared(c), hash, Flown(c)[i].body[j].type)
    BY <2>2, <2>4
  <2>6. Flown(c)[i].body = [j \in 1 .. n |-> Flown(c)[i].body[j]]
    <3> HIDE DEF ticket
    <3> QED
      BY <2>2, <2>4
  <2>7. IsSequence(Flown(c)[i].body)
    <3> DEFINE b == Flown(c)[i].body
    <3>1. b = [j \in 1 .. n |-> b[j]]
      BY <2>6
    <3> HIDE DEF b
    <3>2. DOMAIN b = 1 .. n /\ b \in Seq({b[j] : j \in 1 .. n})
      BY <3>1
    <3>3. IsSequence(b)
      BY <3>2 DEF IsSequence
    <3> QED
      BY <3>3 DEF b
  <2>8. DOMAIN Flown(c)[i].body = 1 .. n
    BY <2>6
  <2> QED
    BY <1>7, <2>3, <2>5, <2>7, <2>8 DEF TicketsOf
<1> QED
  BY <1>1, <1>2, <1>4, <1>5, <1>6, <1>8

(* What is left of a flight.                                                   *)
LEMMA RestIs ==
    ASSUME NEW c, NEW m \in Nat, m = Len(c.flight), NEW k \in 0 .. m
    PROVE  /\ Rest(c, k) \in Seq(AllSealed(c))
           /\ Len(Rest(c, k)) = m + 1 - k /\ Rest(c, k) # <<>>
           /\ \A i \in 1 .. m + 1 - k : Rest(c, k)[i] = Sealed(c, k + i)
           /\ Head(Rest(c, k)) = Sealed(c, k + 1)
           /\ Tail(Rest(c, k)) = Rest(c, k + 1)
<1> DEFINE S == AllSealed(c)
           r == Rest(c, k)
<1>2. PICK l \in Nat : l = m + 1 - k /\ l > 0
  <2>1. m + 1 - k \in Nat /\ m + 1 - k > 0
    OBVIOUS
  <2> QED
    BY <2>1
<1>3. r = [i \in 1 .. l |-> Sealed(c, k + i)]
  BY <1>2 DEF Rest
<1>4. \A i \in 1 .. l : k + i \in 1 .. m + 1
  BY <1>2
<1>5. \A i \in 1 .. l : Sealed(c, k + i) \in S
  BY <1>4 DEF AllSealed
<1> HIDE DEF S, r
<1>6. r \in Seq(S) /\ Len(r) = l /\ r # <<>> /\ \A i \in 1 .. l : r[i] = Sealed(c, k + i)
  <2> DEFINE e(i) == Sealed(c, k + i)
  <2>1. \A i \in 1 .. l : e(i) \in S
    BY <1>5
  <2>2. r = [i \in 1 .. l |-> e(i)]
    BY <1>3
  <2> HIDE DEF e
  <2>3. r \in Seq(S) /\ Len(r) = l /\ \A i \in 1 .. l : r[i] = e(i)
    BY <1>2, <2>1, <2>2
  <2>4. r # <<>>
    BY <1>2, <2>3
  <2> QED
    BY <2>3, <2>4 DEF e
<1>7. Head(r) = Sealed(c, k + 1)
  BY <1>2, <1>6
<1>8. Tail(r) = Rest(c, k + 1)
  <2>1. Tail(r) \in Seq(S) /\ Len(Tail(r)) = l - 1 /\ \A i \in 1 .. l - 1 : Tail(r)[i] = r[i + 1]
    BY <1>6, HeadTailProperties
  <2>2. \A i \in 1 .. l - 1 : i + 1 \in 1 .. l /\ k + (i + 1) = k + 1 + i
    BY <1>2
  <2>3. \A i \in 1 .. l - 1 : Tail(r)[i] = Sealed(c, k + 1 + i)
    BY <1>6, <2>1, <2>2
  <2>4. Tail(r) = [i \in 1 .. l - 1 |-> Sealed(c, k + 1 + i)]
    <3> DEFINE t == Tail(r)
    <3>1. t = [i \in 1 .. l - 1 |-> t[i]]
      <4>1. t \in Seq(S) /\ Len(t) = l - 1
        BY <2>1
      <4> HIDE DEF t
      <4> QED
        BY <1>2, <4>1
    <3>2. \A i \in 1 .. l - 1 : t[i] = Sealed(c, k + 1 + i)
      BY <2>3
    <3> HIDE DEF t
    <3>3. t = [i \in 1 .. l - 1 |-> Sealed(c, k + 1 + i)]
      BY <3>1, <3>2
    <3> QED
      BY <3>3 DEF t
  <2>5. Len(c.flight) + 1 - (k + 1) = l - 1
    <3> DEFINE Long(n) == n = Len(c.flight)
    <3>1. Long(m)
      OBVIOUS
    <3> HIDE DEF Long
    <3>2. ASSUME NEW n \in Nat, Long(n), k \in 0 .. n, l = n + 1 - k PROVE n + 1 - (k + 1) = l - 1
      BY <3>2
    <3>3. m + 1 - (k + 1) = l - 1
      BY <1>2, <3>1, <3>2
    <3> QED
      BY <3>3
  <2> QED
    BY <2>4, <2>5 DEF Rest
<1> QED
  BY <1>2, <1>6, <1>7, <1>8 DEF S, r

LEMMA RestEnds ==
    ASSUME NEW c, NEW m \in Nat, m = Len(c.flight)
    PROVE  Rest(c, m + 1) = <<>>
<1>1. Len(c.flight) + 1 - (m + 1) = 0
  OBVIOUS
<1> QED
  BY <1>1 DEF Rest

(* The last message is the Finished, and the only one.                         *)
LEMMA SaidIs ==
    ASSUME NEW c, c.flight \in Flights, NEW m, m = Len(c.flight)
    PROVE  /\ \A i \in 1 .. m : Said(c)[i] = Flown(c)[i] /\ Said(c)[i].type # "Finished"
           /\ Said(c)[m + 1] = Handshake("Finished", VerifyData(Shared(c), "server", Final(c)))
           /\ DOMAIN Said(c) = 1 .. m + 1 /\ Len(Said(c)) = m + 1
<1>1. /\ m \in Nat /\ Len(Flown(c)) = m
      /\ \A i \in 1 .. m : Flown(c)[i].type # "Finished"
  BY FlownIs
<1>2. PICK S : Flown(c) \in Seq(S)
  BY FlownIs
<1> DEFINE f == Handshake("Finished", VerifyData(Shared(c), "server", Final(c)))
<1>3. Said(c) = Append(Flown(c), f)
  BY DEF Said
<1> HIDE DEF f
<1>4. /\ \A i \in 1 .. m : Append(Flown(c), f)[i] = Flown(c)[i]
      /\ Append(Flown(c), f)[m + 1] = f
      /\ Len(Append(Flown(c), f)) = m + 1 /\ DOMAIN Append(Flown(c), f) = 1 .. m + 1
  BY <1>1, <1>2
<1> QED
  BY <1>1, <1>3, <1>4 DEF f

(* The transcript grows by a message at a time, to that of the whole flight.   *)
LEMMA WholeFlight ==
    ASSUME NEW c, c.flight \in Flights
    PROVE  Final(c) = Opening(c) \o SubSeq(Flown(c), 1, Len(c.flight))
<1>1. PICK S : Flown(c) \in Seq(S)
  BY FlownIs
<1>2. SubSeq(Flown(c), 1, Len(Flown(c))) = Flown(c)
  BY <1>1, SubSeqFull
<1>3. Len(Flown(c)) = Len(c.flight)
  BY FlownIs
<1> QED
  BY <1>2, <1>3, Zenon DEF Final

(* The transcript after one more message.                                      *)
LEMMA GrowingPrefix ==
    ASSUME NEW S, NEW s \in Seq(S), NEW t \in Seq(S), NEW k \in Nat, k < Len(t)
    PROVE  Joins(Append(s \o SubSeq(t, 1, k), t[k + 1]), s, SubSeq(t, 1, k + 1))
<1>1. Len(t) \in Nat /\ t[k + 1] \in S
  OBVIOUS
<1>2. PICK u \in Seq(S) : u = SubSeq(t, 1, k) /\ Len(u) = k /\ \A i \in 1 .. k : u[i] = t[i]
  <2>1. k \in 0 .. Len(t)
    BY <1>1
  <2> QED
    BY <2>1, Prefix
<1>3. PICK x \in S : x = t[k + 1]
  BY <1>1
<1>4. PICK v \in Seq(S) : v = SubSeq(t, 1, k + 1) /\ Len(v) = k + 1 /\ \A i \in 1 .. k + 1 : v[i] = t[i]
  <2>1. k + 1 \in 0 .. Len(t)
    BY <1>1
  <2> QED
    BY <2>1, Prefix
<1>5. Append(u, x) \in Seq(S) /\ Len(Append(u, x)) = k + 1 /\ \A i \in 1 .. k + 1 : Append(u, x)[i] = v[i]
  BY <1>2, <1>3, <1>4
<1>6. Append(u, x) = v
  BY <1>4, <1>5, SameSeq
<1>7. Append(u, x) = u \o <<x>> /\ <<x>> \in Seq(S)
  BY AppendIsConcat
<1>8. s \o u \in Seq(S) /\ Append(s \o u, x) = (s \o u) \o <<x>>
  BY Associative, AppendIsConcat
<1>9. (s \o u) \o <<x>> = s \o (u \o <<x>>)
  BY AssociativeLast
<1> QED
  BY <1>2, <1>3, <1>4, <1>6, <1>7, <1>8, <1>9, Zenon DEF Joins

LEMMA TranscriptGrows ==
    ASSUME NEW c, c.flight \in Flights, NEW k \in Nat, k < Len(c.flight)
    PROVE  Append(Opening(c) \o SubSeq(Flown(c), 1, k), Flown(c)[k + 1])
             = Opening(c) \o SubSeq(Flown(c), 1, k + 1)
<1>1. PICK S : Flown(c) \in Seq(S)
  BY FlownIs
<1>2. k < Len(Flown(c))
  BY FlownIs
<1> DEFINE T == S \cup {Handshake("ClientHello", [pub |-> c.n]), Greeting(c)}
<1>3. Opening(c) \in Seq(T) /\ Flown(c) \in Seq(T)
  BY <1>1 DEF Opening
<1> HIDE DEF T
<1>4. Joins(Append(Opening(c) \o SubSeq(Flown(c), 1, k), Flown(c)[k + 1]),
            Opening(c), SubSeq(Flown(c), 1, k + 1))
  BY <1>2, <1>3, GrowingPrefix
<1> QED
  BY <1>4, Zenon DEF Joins

(* Before the first message it is the two hellos.                              *)
LEMMA TranscriptBegins ==
    ASSUME NEW c, c.flight \in Flights
    PROVE  Opening(c) \o SubSeq(Flown(c), 1, 0) = Opening(c)
<1>1. PICK S : Flown(c) \in Seq(S)
  BY FlownIs
<1>2. SubSeq(Flown(c), 1, 0) = <<>>
  BY <1>1
<1>3. Opening(c) \in Seq({Handshake("ClientHello", [pub |-> c.n]), Greeting(c)})
  BY DEF Opening
<1>4. Opening(c) \o <<>> = Opening(c)
  BY <1>3, ConcatEmptySeq
<1> QED
  BY <1>2, <1>4, Zenon

(* The hash that is kept changes with a CertificateVerify.                     *)
LEMMA CertHashKept ==
    ASSUME NEW c, NEW k \in Nat
    PROVE  CertHash(c, k + 1) = IF c.flight[k + 1].type = "CertVerify"
                                THEN Opening(c) \o SubSeq(Flown(c), 1, k + 1) ELSE CertHash(c, k)
<1>1. CASE c.flight[k + 1].type = "CertVerify"
  <2>1. /\ Certs(c, k + 1) \in SUBSET Nat /\ k + 1 \in Certs(c, k + 1)
        /\ \A y \in Certs(c, k + 1) : y <= k + 1
    BY <1>1 DEF Certs
  <2>2. Max(Certs(c, k + 1)) = k + 1
    BY <2>1, MaxOf
  <2> QED
    BY <1>1, <2>1, <2>2, Zenon DEF CertHash
<1>2. CASE c.flight[k + 1].type # "CertVerify"
  <2>1. ASSUME NEW i PROVE i \in Certs(c, k + 1) <=> i \in Certs(c, k)
    <3>1. i \in 1 .. k + 1 <=> i \in 1 .. k \/ i = k + 1
      OBVIOUS
    <3> QED
      BY <1>2, <3>1, Zenon DEF Certs
  <2>2. Certs(c, k + 1) = Certs(c, k)
    BY <2>1
  <2> QED
    BY <1>2, <2>2, Zenon DEF CertHash
<1> QED
  BY <1>1, <1>2

LEMMA NoCertYet == ASSUME NEW c PROVE CertHash(c, 0) = Null
<1>1. Certs(c, 0) = {}
  BY DEF Certs
<1> QED
  BY <1>1 DEF CertHash

--------------------------------------------------------------------------------
(* What the two ends are doing, by what the client waits for.  `pending` is    *)
(* what it has not taken.                                                      *)
ClientFields == DOMAIN NewClient(0)
ServerFields == DOMAIN NewServer

ClientHello == Handshake("ClientHello", [pub |-> mc.n])
Serving(c) ==
    /\ c.n = mc.n /\ c.flight \in Flights
    /\ srv = [secret |-> Shared(c), hash |-> Opening(c), hFinal |-> Final(c),
              txSeq |-> Len(c.flight) + 2, rxSeq |-> 1]
    /\ sent = <<>>

BeforeHello(pending) ==
    /\ mc = NewClient(mc.n) /\ mc.at = "hello"
    /\ srv = NewServer /\ sent = <<>> /\ pending = <<>>

AwaitingHello(pending) ==
    /\ mc.at = "serverHello"
    /\ mc.transcript = <<ClientHello>> /\ mc.hCertV = Null /\ mc.tickets = <<>>
    /\ mc.txSeq = 1 /\ mc.rxSeq = 0
    /\ \/ srv = NewServer /\ sent = <<Record("handshake", Null, 0, ClientHello)>> /\ pending = <<>>
       \/ \E c : Serving(c) /\ pending = <<Record("handshake", Null, 0, Greeting(c))>> \o Rest(c, 0)

(* It has taken k messages of the flight.                                      *)
HasTaken(c, k) ==
    /\ mc.secret = Shared(c) /\ mc.hash = Opening(c)
    /\ mc.transcript = Opening(c) \o SubSeq(Flown(c), 1, k)
    /\ mc.txSeq = 1 /\ mc.rxSeq = k + 1
    /\ mc.hCertV = CertHash(c, k)
    /\ k = Len(c.flight) \/ mc.tickets = <<>>
    /\ TicketsOf(mc.tickets, mc.secret, mc.hCertV)

InFlight(pending) ==
    /\ mc.at = "flight"
    /\ \E c : Serving(c) /\ \E k \in 0 .. Len(c.flight) : HasTaken(c, k) /\ pending = Rest(c, k)

(* The handshake is done on both ends, or will be.                             *)
Agreed ==
    /\ mc.secret = srv.secret /\ mc.hash = srv.hash /\ mc.hFinal = srv.hFinal
    /\ mc.rxSeq \in Nat
    /\ TicketsOf(mc.tickets, mc.secret, mc.hCertV)

FinishedRecord ==
    Record("handshake", HandshakeKey(mc.secret, mc.hash, "client"), 1,
           Handshake("Finished", VerifyData(mc.secret, "client", mc.hFinal)))
RequestRecord == Record("app", AppKey(mc.secret, mc.hFinal, "client"), 2, [eph |-> mc.n])
AnswerRecord(msg) == Record("app", AppKey(mc.secret, mc.hFinal, "server"), mc.rxSeq, msg)

Finishing(pending) ==
    /\ mc.at = "finished" /\ mc.txSeq = 1 /\ srv.rxSeq = 1
    /\ sent = <<>> /\ pending = <<>> /\ mc.rxSeq = srv.txSeq
Idling(pending) ==
    /\ mc.at = "idle" /\ mc.txSeq = 2 /\ pending = <<>> /\ mc.rxSeq = srv.txSeq
    /\ \/ srv.rxSeq = 1 /\ sent = <<FinishedRecord>>
       \/ srv.rxSeq = 2 /\ sent = <<>>
Requesting(pending) ==
    /\ mc.at = "answer" /\ pending = <<>> /\ mc.rxSeq = srv.txSeq
    /\ \/ srv.rxSeq = 1 /\ sent = <<FinishedRecord, RequestRecord>>
       \/ srv.rxSeq = 2 /\ sent = <<RequestRecord>>
Answering(pending) ==
    /\ mc.at = "answer" /\ srv.rxSeq = 3 /\ sent = <<>>
    /\ \E msg : pending = <<AnswerRecord(msg)>>

Exchanging(pending) ==
    Agreed /\ (Finishing(pending) \/ Idling(pending) \/ Requesting(pending) \/ Answering(pending))

Phase(pending) ==
    \/ BeforeHello(pending) \/ AwaitingHello(pending) \/ InFlight(pending) \/ Exchanging(pending)

Talking == mc.at \in Connecting \cup {"idle", "answer"}
Going == \E pending : Framed(mc.recq, mc.rxbuf, wire, pending) /\ Phase(pending)

MmtlsInv ==
    /\ ClientFields \subseteq DOMAIN mc /\ ServerFields \subseteq DOMAIN srv
    /\ Talking \/ mc.at \in {"closed", "answered"}
    /\ mc.at = "closed" => srv = NewServer
    /\ mc.at = "answered" => srv.rxSeq = 3 /\ Agreed
    /\ Talking => Going

(* The records of each phase have the numbers the client expects, and it can   *)
(* open them.                                                                  *)
InOrder(pending) == \A i \in DOMAIN pending : pending[i].seq = mc.rxSeq + i - 1

(* Before the server's hello nothing is sealed.                                *)
LEMMA HelloAgrees ==
    ASSUME NEW pending, BeforeHello(pending) \/ AwaitingHello(pending)
    PROVE  (mc.at \in Receiving => InOrder(pending)) /\ RecordsUnderstood
<1>1. CASE BeforeHello(pending)
  BY <1>1 DEF BeforeHello, Receiving, Expecting, NewServer, RecordsUnderstood
<1>2. CASE AwaitingHello(pending)
  <2>1. srv.rxSeq \notin {1, 2} \/ sent = <<>>
    <3>1. srv = NewServer \/ sent = <<>>
      BY <1>2 DEF AwaitingHello, Serving
    <3> QED
      BY <3>1 DEF NewServer
  <2>e. ~Expecting("flight") /\ ~Expecting("answer")
    BY <1>2 DEF AwaitingHello, Expecting
  <2>2. RecordsUnderstood
    BY <2>1, <2>e DEF RecordsUnderstood
  <2>3. CASE pending = <<>>
    BY <2>2, <2>3 DEF InOrder
  <2>4. ASSUME NEW c, Serving(c), pending = <<Record("handshake", Null, 0, Greeting(c))>> \o Rest(c, 0)
        PROVE  InOrder(pending)
    <3>1. PICK m \in Nat : m = Len(c.flight)
      BY <2>4, FlownIs DEF Serving
    <3> DEFINE g == Record("handshake", Null, 0, Greeting(c))
               r == Rest(c, 0)
               S == {g} \cup AllSealed(c)
    <3>2. r \in Seq(S) /\ Len(r) = m + 1 /\ \A i \in 1 .. m + 1 : r[i] = Sealed(c, i)
      <4>0. 0 \in 0 .. m
        OBVIOUS
      <4>1. /\ r \in Seq(AllSealed(c)) /\ Len(r) = m + 1 - 0
            /\ \A i \in 1 .. m + 1 - 0 : r[i] = Sealed(c, 0 + i)
        BY <3>1, <4>0, RestIs
      <4>2. m + 1 - 0 = m + 1 /\ \A i \in 1 .. m + 1 : 0 + i = i
        OBVIOUS
      <4> HIDE DEF r
      <4> QED
        BY <4>1, <4>2
    <3>3. g.seq = 0 /\ \A i \in 1 .. m + 1 : Sealed(c, i).seq = i
      BY DEF Record, Sealed
    <3>4. <<g>> \in Seq(S) /\ Len(<<g>>) = 1 /\ <<g>>[1] = g
      OBVIOUS
    <3>5. pending = <<g>> \o r
      BY <2>4
    <3> HIDE DEF g, r, S
    <3>6. /\ pending \in Seq(S) /\ Len(pending) = 1 + (m + 1)
          /\ \A i \in 1 .. 1 + (m + 1) : pending[i] = IF i <= 1 THEN <<g>>[i] ELSE r[i - 1]
      BY <3>2, <3>4, <3>5, ConcatProperties
    <3>7. DOMAIN pending = 1 .. 1 + (m + 1)
      BY <3>6
    <3>8. ASSUME NEW i \in 1 .. 1 + (m + 1) PROVE pending[i].seq = i - 1
      <4>1. CASE i = 1
        BY <3>3, <3>4, <3>6, <4>1
      <4>2. CASE i # 1
        <5>1. i - 1 \in 1 .. m + 1 /\ ~(i <= 1)
          BY <4>2
        <5> QED
          BY <3>2, <3>3, <3>6, <5>1
      <4> QED
        BY <4>1, <4>2
    <3>9. mc.rxSeq = 0
      BY <1>2 DEF AwaitingHello
    <3>10. \A i \in 1 .. 1 + (m + 1) : 0 + i - 1 = i - 1
      OBVIOUS
    <3> QED
      BY <3>7, <3>8, <3>9, <3>10 DEF InOrder
  <2> QED
    BY <1>2, <2>2, <2>3, <2>4 DEF AwaitingHello
<1> QED
  BY <1>1, <1>2

(* What is in flight is sealed with the key the client has; the Finished is    *)
(* taken of the transcript it has.                                             *)
LEMMA FlightAgrees ==
    ASSUME NEW pending, InFlight(pending), Unread.recs # <<>> => NextRecord = Head(pending)
    PROVE  InOrder(pending) /\ RecordsUnderstood
<1>1. PICK c : Serving(c) /\ \E k \in 0 .. Len(c.flight) : HasTaken(c, k) /\ pending = Rest(c, k)
  BY DEF InFlight
<1>2. PICK m \in Nat : m = Len(c.flight)
  BY <1>1, FlownIs DEF Serving
<1>3. PICK k \in 0 .. m : HasTaken(c, k) /\ pending = Rest(c, k)
  BY <1>1, <1>2
<1>4. /\ pending \in Seq(AllSealed(c)) /\ Len(pending) = m + 1 - k
      /\ \A i \in 1 .. m + 1 - k : pending[i] = Sealed(c, k + i)
      /\ Head(pending) = Sealed(c, k + 1)
  BY <1>2, <1>3, RestIs
<1>5. mc.rxSeq = k + 1 /\ \A i \in 1 .. m + 1 - k : pending[i].seq = k + i
  <2>1. mc.rxSeq = k + 1
    BY <1>3 DEF HasTaken
  <2>2. \A i : Sealed(c, i).seq = i
    BY DEF Sealed, Record
  <2> QED
    BY <1>4, <2>1, <2>2
<1>6. InOrder(pending)
  <2>1. DOMAIN pending = 1 .. m + 1 - k
    BY <1>4
  <2>2. \A i \in 1 .. m + 1 - k : k + i = k + 1 + i - 1
    OBVIOUS
  <2> QED
    BY <1>5, <2>1, <2>2 DEF InOrder
<1>7. ASSUME Expecting("flight")
      PROVE  FlightOpens /\ NextRecord.msg = Said(c)[k + 1]
  <2>1. NextRecord = Sealed(c, k + 1)
    BY <1>4, <1>7 DEF Expecting
  <2> QED
    BY <1>3, <2>1 DEF FlightOpens, Opens, Sealed, Record, HasTaken
<1>8. ASSUME Expecting("flight"), NextRecord.msg.type = "Finished"
      PROVE  NextRecord.msg.body = VerifyData(mc.secret, "server", FinalHash)
  <2>1. NextRecord.msg = Said(c)[k + 1]
    BY <1>7, <1>8
  <2>2. /\ \A i \in 1 .. m : Said(c)[i].type # "Finished"
        /\ Said(c)[m + 1] = Handshake("Finished", VerifyData(Shared(c), "server", Final(c)))
    BY <1>1, <1>2, SaidIs DEF Serving
  <2>3. k = m
    <3>1. k + 1 \notin 1 .. m
      BY <1>8, <2>1, <2>2
    <3> QED
      BY <3>1
  <2>4. mc.transcript = Final(c)
    BY <1>1, <1>2, <1>3, <2>3, WholeFlight DEF HasTaken, Serving
  <2>5. mc.secret = Shared(c)
    BY <1>3 DEF HasTaken
  <2> QED
    BY <2>1, <2>2, <2>3, <2>4, <2>5 DEF FinalHash, Handshake
<1>9. mc.at = "flight" /\ sent = <<>>
  BY <1>1 DEF InFlight, Serving
<1> QED
  BY <1>6, <1>7, <1>8, <1>9 DEF RecordsUnderstood, Expecting

(* After the handshake both ends have the same secret and the same hashes.     *)
LEMMA ExchangeAgrees ==
    ASSUME NEW pending, Exchanging(pending), Unread.recs # <<>> => NextRecord = Head(pending),
           Unread.recs # <<>> => pending # <<>>
    PROVE  (mc.at \in Receiving => InOrder(pending)) /\ RecordsUnderstood
<1>1. Agreed
  BY DEF Exchanging, Finishing, Idling, Requesting, Answering
<1>2. ASSUME sent # <<>>, Head(sent) = FinishedRecord PROVE FinishedOpens \/ srv.rxSeq # 1
  BY <1>1, <1>2 DEF Agreed, FinishedOpens, FinishedRecord, Opens, Record, Handshake
<1>3. CASE mc.at = "finished" \/ mc.at = "idle"
  <2>1. mc.at \notin Receiving /\ ~Expecting("flight") /\ ~Expecting("answer")
    BY <1>3 DEF Receiving, Expecting
  <2>2. sent # <<>> => srv.rxSeq = 1 /\ Head(sent) = FinishedRecord
    BY <1>3 DEF Exchanging, Finishing, Idling, Requesting, Answering
  <2> QED
    BY <1>2, <2>1, <2>2 DEF RecordsUnderstood
<1>4. CASE mc.at = "answer" /\ pending = <<>>
  <2>1. InOrder(pending) /\ ~Expecting("flight") /\ ~Expecting("answer")
    BY <1>4 DEF Expecting, InOrder
  <2>2. srv.rxSeq = 1 => Head(sent) = FinishedRecord
    BY <1>4 DEF Exchanging, Finishing, Idling, Requesting, Answering
  <2>3. srv.rxSeq = 2 => Head(sent) = RequestRecord
    BY <1>4 DEF Exchanging, Finishing, Idling, Requesting, Answering
  <2>4. srv.rxSeq = 2 => RequestOpens
    BY <1>1, <2>3 DEF Agreed, RequestOpens, RequestRecord, Opens, Record
  <2> QED
    BY <1>2, <2>1, <2>2, <2>4 DEF RecordsUnderstood
<1>5. ASSUME NEW msg, mc.at = "answer", srv.rxSeq = 3, pending = <<AnswerRecord(msg)>>
      PROVE  InOrder(pending) /\ RecordsUnderstood
  <2>1. DOMAIN pending = {1} /\ pending[1] = AnswerRecord(msg) /\ Head(pending) = AnswerRecord(msg)
    BY <1>5
  <2>2. /\ AnswerRecord(msg).seq = mc.rxSeq /\ AnswerRecord(msg).ct = "app"
        /\ AnswerRecord(msg).key = AppKey(mc.secret, mc.hFinal, "server")
    BY DEF AnswerRecord, Record
  <2>3. mc.rxSeq = mc.rxSeq + 1 - 1
    BY <1>1 DEF Agreed
  <2>4. InOrder(pending)
    BY <2>1, <2>2, <2>3 DEF InOrder
  <2>5. Expecting("answer") => AnswerOpens
    BY <2>1, <2>2 DEF Expecting, AnswerOpens, Opens
  <2> QED
    BY <1>5, <2>4, <2>5 DEF RecordsUnderstood, Expecting
<1> QED
  BY <1>3, <1>4, <1>5 DEF Exchanging, Finishing, Idling, Requesting, Answering

(* The invariant implies the properties of the records.                        *)
LEMMA InvAgrees == MmtlsInv => StreamInOrder /\ RecordsUnderstood
<1> SUFFICES ASSUME MmtlsInv PROVE StreamInOrder /\ RecordsUnderstood
  OBVIOUS
<1>1. CASE ~Talking
  <2>1. mc.at \notin Receiving /\ ~Expecting("flight") /\ ~Expecting("answer") /\ srv.rxSeq \notin {1, 2}
    BY <1>1 DEF MmtlsInv, Talking, Receiving, Connecting, Expecting, NewServer
  <2> QED
    BY <2>1 DEF StreamInOrder, RecordsUnderstood
<1>2. CASE Talking
  <2>1. PICK pending : Framed(mc.recq, mc.rxbuf, wire, pending) /\ Phase(pending)
    BY <1>2 DEF MmtlsInv, Going
  <2>2. /\ Joins(pending, mc.recq, ParseRecords(mc.rxbuf \o wire))
        /\ Consumed(mc.rxbuf \o wire) = Len(mc.rxbuf \o wire)
    BY <2>1, FramedMeans, MmtlsAssumption
  <2>3. Unread.recs # <<>> => pending # <<>> /\ NextRecord = Head(pending)
    BY <2>1, TakeKeepsFrames, MmtlsAssumption
  <2>4. InOrder(pending) => StreamInOrder
    BY <2>2, Zenon DEF Joins, InOrder, StreamInOrder
  <2>5. (mc.at \in Receiving => InOrder(pending)) /\ RecordsUnderstood
    BY <2>1, <2>3, HelloAgrees, FlightAgrees, ExchangeAgrees DEF Phase
  <2> QED
    BY <2>4, <2>5 DEF StreamInOrder
<1> QED
  BY <1>1, <1>2

--------------------------------------------------------------------------------
(* A connection begins with nothing in the stream.                             *)
LEMMA NewConnectionKeeps ==
    ASSUME NEW n, NewConnection(n, <<>>)
    PROVE  MmtlsInv'
<1>1. mc' = NewClient(n) /\ srv' = NewServer /\ wire' = <<>> /\ sent' = <<>>
  BY DEF NewConnection
<1>2. mc'.n = n /\ mc'.at = "hello" /\ mc'.recq = <<>> /\ mc'.rxbuf = <<>>
  BY <1>1 DEF NewClient
<1>3. BeforeHello(<<>>)'
  BY <1>1, <1>2 DEF BeforeHello
<1>4. Framed(mc'.recq, mc'.rxbuf, wire', <<>>)
  BY <1>1, <1>2, NothingFramed, MmtlsAssumption
<1>5. Going'
  BY <1>3, <1>4, Zenon DEF Going, Phase
<1>6. ClientFields \subseteq DOMAIN mc' /\ ServerFields \subseteq DOMAIN srv'
  BY <1>1 DEF ClientFields, ServerFields, NewClient, NewServer
<1> QED
  BY <1>2, <1>5, <1>6 DEF MmtlsInv, Talking, Connecting

(* So does a closed one.                                                       *)
LEMMA CloseKeeps == Close => MmtlsInv'
<1> SUFFICES ASSUME Close PROVE MmtlsInv'
  OBVIOUS
<1>1. srv' = NewServer /\ mc'.at = "closed" /\ DOMAIN mc' = DOMAIN NewClient(0)
  BY DEF Close, NewClient
<1> QED
  BY <1>1 DEF MmtlsInv, Talking, Connecting, ClientFields, ServerFields

(* Reading takes nothing.                                                      *)
LEMMA ReadStep == ASSUME MmtlsInv, Read PROVE MmtlsInv'
<1>1. PICK n \in 1 .. Len(wire) :
        /\ mc' = [mc EXCEPT !.rxbuf = mc.rxbuf \o SubSeq(wire, 1, n)]
        /\ wire' = SubSeq(wire, n + 1, Len(wire))
  BY DEF Read
<1>2. srv' = srv /\ sent' = sent /\ mc.at \in Receiving
  BY DEF Read
<1>3. ClientFields \subseteq DOMAIN mc /\ ServerFields \subseteq DOMAIN srv /\ Going
  BY <1>2 DEF MmtlsInv, Talking, Receiving, Connecting
<1>4. /\ DOMAIN mc' = DOMAIN mc /\ mc'.rxbuf = mc.rxbuf \o SubSeq(wire, 1, n)
      /\ \A f \in DOMAIN mc : f # "rxbuf" => mc'[f] = mc[f]
  BY <1>1, <1>3 DEF ClientFields, NewClient
<1>5. /\ mc'.at = mc.at /\ mc'.n = mc.n /\ mc'.transcript = mc.transcript /\ mc'.secret = mc.secret
      /\ mc'.hash = mc.hash /\ mc'.hCertV = mc.hCertV /\ mc'.hFinal = mc.hFinal
      /\ mc'.tickets = mc.tickets /\ mc'.txSeq = mc.txSeq /\ mc'.rxSeq = mc.rxSeq /\ mc'.recq = mc.recq
  BY <1>3, <1>4 DEF ClientFields, NewClient
<1>6. PICK pending : Framed(mc.recq, mc.rxbuf, wire, pending) /\ Phase(pending)
  BY <1>3 DEF Going
<1>7. Framed(mc'.recq, mc'.rxbuf, wire', pending)
  BY <1>1, <1>4, <1>5, <1>6, ReadKeepsFrames
<1>8. Phase(pending)'
  <2>1. ~BeforeHello(pending)
    BY <1>2 DEF BeforeHello, Receiving
  <2>2. CASE AwaitingHello(pending)
    BY <1>2, <1>5, <2>2 DEF AwaitingHello, ClientHello, Serving, Phase
  <2>3. CASE InFlight(pending)
    BY <1>2, <1>5, <2>3 DEF InFlight, HasTaken, Serving, Phase
  <2>4. CASE Exchanging(pending)
    BY <1>2, <1>5, <2>4, Zenon DEF Exchanging, Finishing, Idling, Requesting,
       Answering, Agreed, FinishedRecord, RequestRecord, AnswerRecord, Phase
  <2> QED
    BY <1>6, <2>1, <2>2, <2>3, <2>4 DEF Phase
<1>9. Going'
  BY <1>7, <1>8, Zenon DEF Going
<1> QED
  BY <1>2, <1>3, <1>4, <1>5, <1>9 DEF MmtlsInv, Talking, Receiving, Connecting

(* The hello is what the server waits for.                                     *)
LEMMA ClientHelloStep == ASSUME MmtlsInv, SendClientHello PROVE MmtlsInv'
<1>1. /\ mc.at = "hello" /\ ClientFields \subseteq DOMAIN mc /\ ServerFields \subseteq DOMAIN srv
      /\ srv' = srv /\ wire' = wire
  BY DEF SendClientHello, MmtlsInv
<1>2. PICK pending : Framed(mc.recq, mc.rxbuf, wire, pending) /\ Phase(pending)
  BY <1>1 DEF MmtlsInv, Talking, Connecting, Going
<1>3. BeforeHello(pending)
  BY <1>1, <1>2 DEF Phase, AwaitingHello, InFlight, Exchanging, Finishing, Idling, Requesting, Answering
<1>4. /\ mc.txSeq = 0 /\ mc.rxSeq = 0 /\ mc.transcript = <<>> /\ mc.hCertV = Null /\ mc.tickets = <<>>
      /\ srv = NewServer /\ sent = <<>> /\ pending = <<>>
  BY <1>3 DEF BeforeHello, NewClient
<1>5. /\ sent' = Append(sent, Record("handshake", Null, mc.txSeq, ClientHello))
      /\ mc' = [mc EXCEPT !.transcript = Append(mc.transcript, ClientHello), !.at = "serverHello",
                          !.txSeq = mc.txSeq + 1]
  BY <1>1 DEF SendClientHello, Send, ClientHello, ClientFields, NewClient
<1>6. /\ DOMAIN mc' = DOMAIN mc /\ mc'.at = "serverHello" /\ mc'.n = mc.n
      /\ mc'.transcript = Append(mc.transcript, ClientHello) /\ mc'.txSeq = mc.txSeq + 1
      /\ mc'.hCertV = mc.hCertV /\ mc'.tickets = mc.tickets /\ mc'.rxSeq = mc.rxSeq
      /\ mc'.recq = mc.recq /\ mc'.rxbuf = mc.rxbuf
  BY <1>1, <1>5 DEF ClientFields, NewClient
<1>7. ClientHello' = ClientHello
  BY <1>6 DEF ClientHello
<1>8. sent' = <<Record("handshake", Null, 0, ClientHello)>> /\ mc'.transcript = <<ClientHello>>
  BY <1>4, <1>5, <1>6
<1>9. AwaitingHello(pending)'
  BY <1>1, <1>4, <1>6, <1>7, <1>8 DEF AwaitingHello
<1>10. Going'
  BY <1>1, <1>2, <1>6, <1>9, Zenon DEF Going, Phase
<1> QED
  BY <1>1, <1>6, <1>10 DEF MmtlsInv, Talking, Connecting

(* The client that has taken a record.                                         *)
LEMMA TakenIs ==
    ASSUME ClientFields \subseteq DOMAIN mc
    PROVE  /\ DOMAIN Taken = DOMAIN mc /\ Taken.at = mc.at /\ Taken.n = mc.n
           /\ Taken.transcript = mc.transcript /\ Taken.secret = mc.secret /\ Taken.hash = mc.hash
           /\ Taken.hCertV = mc.hCertV /\ Taken.hFinal = mc.hFinal /\ Taken.tickets = mc.tickets
           /\ Taken.txSeq = mc.txSeq /\ Taken.rxSeq = mc.rxSeq + 1
           /\ Taken.recq = Tail(Unread.recs) /\ Taken.rxbuf = Unread.rest
BY DEF Taken, ClientFields, NewClient

(* What every step that takes a record begins with.                            *)
LEMMA TakeStep ==
    ASSUME MmtlsInv, NEW place \in Receiving, Expecting(place)
    PROVE  /\ mc.at = place /\ ClientFields \subseteq DOMAIN mc /\ ServerFields \subseteq DOMAIN srv
           /\ \E pending : /\ Phase(pending) /\ pending # <<>> /\ NextRecord = Head(pending)
                           /\ Framed(Taken.recq, Taken.rxbuf, wire, Tail(pending))
<1>1. mc.at = place /\ Unread.recs # <<>> /\ ClientFields \subseteq DOMAIN mc /\ ServerFields \subseteq DOMAIN srv
  BY DEF Expecting, MmtlsInv
<1>2. PICK pending : Framed(mc.recq, mc.rxbuf, wire, pending) /\ Phase(pending)
  BY <1>1 DEF MmtlsInv, Going, Talking, Connecting, Receiving
<1>3. /\ pending # <<>> /\ NextRecord = Head(pending)
      /\ Framed(Tail(Unread.recs), Unread.rest, wire, Tail(pending))
  BY <1>1, <1>2, TakeKeepsFrames, MmtlsAssumption
<1> QED
  BY <1>1, <1>2, <1>3, TakenIs

(* The server's hello: both have the same secret, and the flight is to come.   *)
LEMMA ServerHelloStep == ASSUME MmtlsInv, RecvServerHello PROVE MmtlsInv'
<1>1. Expecting("serverHello") /\ "serverHello" \in Receiving
  BY DEF RecvServerHello, Receiving
<1>2. mc.at = "serverHello" /\ ClientFields \subseteq DOMAIN mc /\ ServerFields \subseteq DOMAIN srv
  BY <1>1, TakeStep
<1>3. PICK pending : /\ Phase(pending) /\ pending # <<>> /\ NextRecord = Head(pending)
                     /\ Framed(Taken.recq, Taken.rxbuf, wire, Tail(pending))
  BY <1>1, TakeStep
<1>4. AwaitingHello(pending)
  BY <1>2, <1>3 DEF Phase, BeforeHello, InFlight, Exchanging, Finishing, Idling, Requesting, Answering
<1>5. PICK c : Serving(c) /\ pending = <<Record("handshake", Null, 0, Greeting(c))>> \o Rest(c, 0)
  BY <1>3, <1>4 DEF AwaitingHello
<1>6. PICK m \in Nat : m = Len(c.flight) /\ 0 \in 0 .. m
  <2>1. Len(c.flight) \in Nat
    BY <1>5, FlownIs DEF Serving
  <2>2. \A n \in Nat : 0 \in 0 .. n
    OBVIOUS
  <2> QED
    BY <2>1, <2>2
<1>7. NextRecord = Record("handshake", Null, 0, Greeting(c)) /\ Tail(pending) = Rest(c, 0)
  <2> DEFINE g == Record("handshake", Null, 0, Greeting(c))
             r == Rest(c, 0)
  <2>1. <<g>> \in Seq({g} \cup AllSealed(c)) /\ r \in Seq({g} \cup AllSealed(c))
    <3>1. r \in Seq(AllSealed(c))
      BY <1>6, RestIs
    <3> HIDE DEF g, r
    <3> QED
      BY <3>1
  <2>2. pending = <<g>> \o r
    BY <1>5
  <2> HIDE DEF g, r
  <2>3. Head(<<g>> \o r) = Head(<<g>>) /\ Joins(Tail(<<g>> \o r), Tail(<<g>>), r)
    BY <2>1, HeadTailOfConcat
  <2>4. Head(<<g>>) = g /\ Tail(<<g>>) = <<>>
    OBVIOUS
  <2>5. <<>> \o r = r
    BY <2>1, ConcatEmptySeq
  <2>6. Tail(pending) = r
    BY <2>2, <2>3, <2>4, <2>5, Zenon DEF Joins
  <2> QED
    BY <1>3, <2>2, <2>3, <2>4, <2>6 DEF g, r
<1>8. NextRecord.msg = Greeting(c) /\ Greeting(c).body.pub = c.n /\ c.n = mc.n
  BY <1>5, <1>7 DEF Record, Greeting, Handshake, Serving
<1>9. mc' = [Taken EXCEPT !.at = "flight", !.transcript = Append(mc.transcript, Greeting(c)),
                          !.hash = Append(mc.transcript, Greeting(c)), !.secret = Secret(c.n, c.n)]
  BY <1>8, Zenon DEF RecvServerHello
<1>10. Append(mc.transcript, Greeting(c)) = Opening(c)
  <2>1. mc.transcript = <<ClientHello>>
    BY <1>4 DEF AwaitingHello
  <2>2. ClientHello = Handshake("ClientHello", [pub |-> c.n])
    BY <1>8, Zenon DEF ClientHello
  <2>3. Append(<<ClientHello>>, Greeting(c)) = <<ClientHello, Greeting(c)>>
    BY AppendTwo
  <2> QED
    BY <2>1, <2>2, <2>3, Zenon DEF Opening
<1>11. /\ DOMAIN mc' = DOMAIN mc /\ mc'.at = "flight" /\ mc'.n = mc.n
       /\ mc'.transcript = Opening(c) /\ mc'.hash = Opening(c) /\ mc'.secret = Shared(c)
       /\ mc'.hCertV = mc.hCertV /\ mc'.tickets = mc.tickets /\ mc'.txSeq = mc.txSeq
       /\ mc'.rxSeq = mc.rxSeq + 1 /\ mc'.recq = Taken.recq /\ mc'.rxbuf = Taken.rxbuf
  <2>1. /\ DOMAIN mc' = DOMAIN Taken /\ mc'.at = "flight" /\ mc'.n = Taken.n
        /\ mc'.transcript = Append(mc.transcript, Greeting(c))
        /\ mc'.hash = Append(mc.transcript, Greeting(c)) /\ mc'.secret = Secret(c.n, c.n)
        /\ mc'.hCertV = Taken.hCertV /\ mc'.tickets = Taken.tickets /\ mc'.txSeq = Taken.txSeq
        /\ mc'.rxSeq = Taken.rxSeq /\ mc'.recq = Taken.recq /\ mc'.rxbuf = Taken.rxbuf
    BY <1>2, <1>9, TakenIs DEF ClientFields, NewClient
  <2> QED
    BY <1>2, <1>10, <2>1, TakenIs, Zenon DEF Shared
<1>12. srv' = srv /\ wire' = wire /\ sent' = sent
  BY DEF RecvServerHello
<1>13. HasTaken(c, 0)'
  <2>1. mc.hCertV = Null /\ mc.tickets = <<>> /\ mc.txSeq = 1 /\ mc.rxSeq = 0
    BY <1>4 DEF AwaitingHello
  <2>2. Opening(c) = Opening(c) \o SubSeq(Flown(c), 1, 0)
    BY <1>5, TranscriptBegins DEF Serving
  <2>3. TicketsOf(<<>>, mc'.secret, mc'.hCertV)
    BY DEF TicketsOf, IsSequence
  <2> QED
    BY <1>11, <2>1, <2>2, <2>3, NoCertYet DEF HasTaken
<1>14. InFlight(Rest(c, 0))'
  <2>1. Serving(c)'
    BY <1>5, <1>11, <1>12 DEF Serving
  <2> QED
    BY <1>6, <1>11, <1>13, <2>1 DEF InFlight
<1>15. Framed(mc'.recq, mc'.rxbuf, wire', Rest(c, 0))
  BY <1>3, <1>7, <1>11, <1>12
<1>16. Going'
  BY <1>14, <1>15, Zenon DEF Going, Phase
<1> QED
  BY <1>2, <1>11, <1>12, <1>16 DEF MmtlsInv, Talking, Connecting

(* A message of the flight; the transcript, the hash that is kept and the      *)
(* tickets are those of one message more.                                      *)
LEMMA FlightStep ==
    ASSUME MmtlsInv, Expecting("flight")
    PROVE  /\ mc.at = "flight" /\ ClientFields \subseteq DOMAIN mc /\ ServerFields \subseteq DOMAIN srv
           /\ \E c : \E m \in Nat : \E k \in 0 .. m :
                /\ c.flight \in Flights /\ m = Len(c.flight)
                /\ Serving(c) /\ HasTaken(c, k) /\ NextRecord.msg = Said(c)[k + 1]
                /\ Framed(Taken.recq, Taken.rxbuf, wire, Rest(c, k + 1))
<1>1. "flight" \in Receiving
  BY DEF Receiving
<1>2. mc.at = "flight" /\ ClientFields \subseteq DOMAIN mc /\ ServerFields \subseteq DOMAIN srv
  BY <1>1, TakeStep
<1>3. PICK pending : /\ Phase(pending) /\ pending # <<>> /\ NextRecord = Head(pending)
                     /\ Framed(Taken.recq, Taken.rxbuf, wire, Tail(pending))
  BY <1>1, TakeStep
<1>4. InFlight(pending)
  BY <1>2, <1>3 DEF Phase, BeforeHello, AwaitingHello, Exchanging, Finishing, Idling, Requesting, Answering
<1>5. PICK c : Serving(c) /\ \E k \in 0 .. Len(c.flight) : HasTaken(c, k) /\ pending = Rest(c, k)
  BY <1>4 DEF InFlight
<1>6. PICK m \in Nat : m = Len(c.flight)
  BY <1>5, FlownIs DEF Serving
<1>7. PICK k \in 0 .. m : HasTaken(c, k) /\ pending = Rest(c, k)
  BY <1>5, <1>6
<1>8. Head(pending) = Sealed(c, k + 1) /\ Tail(pending) = Rest(c, k + 1)
  BY <1>6, <1>7, RestIs
<1>9. NextRecord.msg = Said(c)[k + 1]
  BY <1>3, <1>8 DEF Sealed, Record
<1>10. Framed(Taken.recq, Taken.rxbuf, wire, Rest(c, k + 1))
  BY <1>3, <1>8
<1>11. c.flight \in Flights
  BY <1>5 DEF Serving
<1> QED
  BY <1>2, <1>5, <1>6, <1>7, <1>9, <1>10, <1>11, Zenon

LEMMA MessageStep == ASSUME MmtlsInv, RecvMessage PROVE MmtlsInv'
<1>1. /\ Expecting("flight") /\ NextRecord.msg.type # "Finished"
      /\ srv' = srv /\ wire' = wire /\ sent' = sent
  BY DEF RecvMessage
<1>2. mc.at = "flight" /\ ClientFields \subseteq DOMAIN mc /\ ServerFields \subseteq DOMAIN srv
  BY <1>1, FlightStep
<1>3. PICK c : \E m \in Nat : \E k \in 0 .. m :
        /\ c.flight \in Flights /\ m = Len(c.flight)
        /\ Serving(c) /\ HasTaken(c, k) /\ NextRecord.msg = Said(c)[k + 1]
        /\ Framed(Taken.recq, Taken.rxbuf, wire, Rest(c, k + 1))
  BY <1>1, FlightStep
<1>4. PICK m \in Nat : \E k \in 0 .. m :
        /\ c.flight \in Flights /\ m = Len(c.flight)
        /\ Serving(c) /\ HasTaken(c, k) /\ NextRecord.msg = Said(c)[k + 1]
        /\ Framed(Taken.recq, Taken.rxbuf, wire, Rest(c, k + 1))
  BY <1>3
<1>5. PICK k \in 0 .. m :
        /\ c.flight \in Flights /\ m = Len(c.flight)
        /\ Serving(c) /\ HasTaken(c, k) /\ NextRecord.msg = Said(c)[k + 1]
        /\ Framed(Taken.recq, Taken.rxbuf, wire, Rest(c, k + 1))
  BY <1>4
<1> DEFINE msg == Flown(c)[k + 1]
           fed == Opening(c) \o SubSeq(Flown(c), 1, k + 1)
<1>6. k \in Nat /\ k < m /\ k + 1 \in 0 .. m /\ k + 1 \in 1 .. m
  <2>1. Said(c)[m + 1].type = "Finished"
    <3>1. Said(c)[m + 1] = Handshake("Finished", VerifyData(Shared(c), "server", Final(c)))
      BY <1>5, SaidIs
    <3> QED
      BY <3>1 DEF Handshake
  <2>2. k # m
    BY <1>1, <1>5, <2>1
  <2> QED
    BY <2>2
<1>7. /\ NextRecord.msg = msg /\ msg.type = c.flight[k + 1].type
      /\ msg.type = "NewSessionTicket" => k + 1 = m /\ TicketsOf(msg.body, Shared(c), CertHash(c, m))
  <2>1. Said(c)[k + 1] = Flown(c)[k + 1]
    BY <1>5, <1>6, SaidIs
  <2>2. /\ Flown(c)[k + 1].type = c.flight[k + 1].type
        /\ Flown(c)[k + 1].type = "NewSessionTicket" =>
             k + 1 = m /\ TicketsOf(Flown(c)[k + 1].body, Shared(c), CertHash(c, m))
    BY <1>5, <1>6, FlownIs
  <2> QED
    BY <1>5, <2>1, <2>2
<1> HIDE DEF msg, fed
<1>8. Append(mc.transcript, msg) = fed
  <2>1. mc.transcript = Opening(c) \o SubSeq(Flown(c), 1, k)
    BY <1>5 DEF HasTaken
  <2>2. k < Len(c.flight)
    BY <1>5, <1>6
  <2> QED
    BY <1>5, <1>6, <2>1, <2>2, TranscriptGrows, Zenon DEF msg, fed
<1>9. mc' = [Taken EXCEPT
               !.transcript = fed,
               !.hCertV = IF msg.type = "CertVerify" THEN fed ELSE Taken.hCertV,
               !.tickets = IF msg.type = "NewSessionTicket" THEN msg.body ELSE Taken.tickets]
  BY <1>2, <1>7, <1>8, TakenIs DEF RecvMessage, ClientFields, NewClient
<1>10. /\ DOMAIN mc' = DOMAIN mc /\ mc'.at = "flight" /\ mc'.n = mc.n
       /\ mc'.transcript = fed /\ mc'.hash = mc.hash /\ mc'.secret = mc.secret
       /\ mc'.hCertV = IF msg.type = "CertVerify" THEN fed ELSE mc.hCertV
       /\ mc'.tickets = IF msg.type = "NewSessionTicket" THEN msg.body ELSE mc.tickets
       /\ mc'.txSeq = mc.txSeq /\ mc'.rxSeq = mc.rxSeq + 1
       /\ mc'.recq = Taken.recq /\ mc'.rxbuf = Taken.rxbuf
  BY <1>2, <1>9, TakenIs DEF ClientFields, NewClient
<1>11. mc'.hCertV = CertHash(c, k + 1)
  <2>1. mc.hCertV = CertHash(c, k)
    BY <1>5 DEF HasTaken
  <2> QED
    BY <1>6, <1>7, <1>10, <2>1, CertHashKept DEF fed
<1>12. /\ k + 1 = m \/ mc'.tickets = <<>>
       /\ TicketsOf(mc'.tickets, mc'.secret, mc'.hCertV)
  <2>1. mc.secret = Shared(c) /\ mc.tickets = <<>>
    BY <1>5, <1>6 DEF HasTaken
  <2>2. CASE msg.type = "NewSessionTicket"
    BY <1>7, <1>10, <1>11, <2>1, <2>2
  <2>3. CASE msg.type # "NewSessionTicket"
    <3>1. TicketsOf(<<>>, mc'.secret, mc'.hCertV)
      BY DEF TicketsOf, IsSequence
    <3> QED
      BY <1>10, <2>1, <2>3, <3>1
  <2> QED
    BY <2>2, <2>3
<1>13. HasTaken(c, k + 1)'
  <2>1. /\ mc.secret = Shared(c) /\ mc.hash = Opening(c) /\ mc.txSeq = 1 /\ mc.rxSeq = k + 1
    BY <1>5 DEF HasTaken
  <2> QED
    BY <1>5, <1>10, <1>11, <1>12, <2>1 DEF HasTaken, fed
<1>14. Serving(c)'
  BY <1>1, <1>5, <1>10 DEF Serving
<1>15. InFlight(Rest(c, k + 1))'
  BY <1>5, <1>6, <1>10, <1>13, <1>14 DEF InFlight
<1>16. Framed(mc'.recq, mc'.rxbuf, wire', Rest(c, k + 1))
  BY <1>1, <1>5, <1>10
<1>17. Going'
  BY <1>15, <1>16, Zenon DEF Going, Phase
<1> QED
  BY <1>1, <1>2, <1>10, <1>17 DEF MmtlsInv, Talking, Connecting

(* The server's Finished: the hash it is verified with is the server's.        *)
LEMMA FinishedStep == ASSUME MmtlsInv, RecvFinished PROVE MmtlsInv'
<1>1. /\ Expecting("flight") /\ NextRecord.msg.type = "Finished"
      /\ srv' = srv /\ wire' = wire /\ sent' = sent
  BY DEF RecvFinished
<1>2. mc.at = "flight" /\ ClientFields \subseteq DOMAIN mc /\ ServerFields \subseteq DOMAIN srv
  BY <1>1, FlightStep
<1>3. PICK c : \E m \in Nat : \E k \in 0 .. m :
        /\ c.flight \in Flights /\ m = Len(c.flight)
        /\ Serving(c) /\ HasTaken(c, k) /\ NextRecord.msg = Said(c)[k + 1]
        /\ Framed(Taken.recq, Taken.rxbuf, wire, Rest(c, k + 1))
  BY <1>1, FlightStep
<1>4. PICK m \in Nat : \E k \in 0 .. m :
        /\ c.flight \in Flights /\ m = Len(c.flight)
        /\ Serving(c) /\ HasTaken(c, k) /\ NextRecord.msg = Said(c)[k + 1]
        /\ Framed(Taken.recq, Taken.rxbuf, wire, Rest(c, k + 1))
  BY <1>3
<1>5. PICK k \in 0 .. m :
        /\ c.flight \in Flights /\ m = Len(c.flight)
        /\ Serving(c) /\ HasTaken(c, k) /\ NextRecord.msg = Said(c)[k + 1]
        /\ Framed(Taken.recq, Taken.rxbuf, wire, Rest(c, k + 1))
  BY <1>4
<1>6. k = m
  <2>1. \A i \in 1 .. m : Said(c)[i].type # "Finished"
    BY <1>5, SaidIs
  <2>2. k + 1 \notin 1 .. m
    BY <1>1, <1>5, <2>1
  <2> QED
    BY <2>2
<1>7. mc.transcript = Final(c)
  BY <1>5, <1>6, WholeFlight, Zenon DEF HasTaken
<1>8. mc' = [Taken EXCEPT !.at = "finished", !.hFinal = Final(c),
                          !.transcript = Append(Taken.transcript, NextRecord.msg)]
  BY <1>2, <1>7, TakenIs DEF RecvFinished, FinalHash, ClientFields, NewClient
<1>9. /\ DOMAIN mc' = DOMAIN mc /\ mc'.at = "finished" /\ mc'.n = mc.n
      /\ mc'.hFinal = Final(c) /\ mc'.hash = mc.hash /\ mc'.secret = mc.secret
      /\ mc'.hCertV = mc.hCertV /\ mc'.tickets = mc.tickets
      /\ mc'.txSeq = mc.txSeq /\ mc'.rxSeq = mc.rxSeq + 1
      /\ mc'.recq = Taken.recq /\ mc'.rxbuf = Taken.rxbuf
  BY <1>2, <1>8, TakenIs DEF ClientFields, NewClient
<1>10. /\ srv.secret = Shared(c) /\ srv.hash = Opening(c) /\ srv.hFinal = Final(c)
       /\ srv.txSeq = m + 2 /\ srv.rxSeq = 1 /\ sent = <<>>
  <2>1. /\ srv = [secret |-> Shared(c), hash |-> Opening(c), hFinal |-> Final(c),
                  txSeq |-> Len(c.flight) + 2, rxSeq |-> 1]
        /\ sent = <<>>
    BY <1>5 DEF Serving
  <2>2. Len(c.flight) + 2 = m + 2
    BY <1>5
  <2> QED
    BY <2>1, <2>2
<1>11. /\ mc.secret = Shared(c) /\ mc.hash = Opening(c) /\ mc.txSeq = 1 /\ mc.rxSeq = m + 1
       /\ TicketsOf(mc.tickets, mc.secret, mc.hCertV)
  BY <1>5, <1>6 DEF HasTaken
<1>12. mc'.rxSeq \in Nat /\ mc'.rxSeq = srv.txSeq
  BY <1>9, <1>10, <1>11
<1>13. Agreed'
  BY <1>1, <1>9, <1>10, <1>11, <1>12, Zenon DEF Agreed
<1>14. Exchanging(<<>>)'
  BY <1>1, <1>9, <1>10, <1>11, <1>12, <1>13 DEF Exchanging, Finishing, Idling, Requesting, Answering
<1>15. Framed(mc'.recq, mc'.rxbuf, wire', <<>>)
  <2>1. Rest(c, m + 1) = <<>>
    BY <1>5, RestEnds
  <2> QED
    BY <1>1, <1>5, <1>6, <1>9, <2>1
<1>16. Going'
  BY <1>14, <1>15, Zenon DEF Going, Phase
<1> QED
  BY <1>1, <1>2, <1>9, <1>16 DEF MmtlsInv, Talking, Connecting

(* The client's Finished, and its request.                                     *)
LEMMA SendSteps == ASSUME MmtlsInv, SendClientFinished \/ SendLogin PROVE MmtlsInv'
<1>1. /\ mc.at \in {"finished", "idle"} /\ srv' = srv /\ wire' = wire
      /\ ClientFields \subseteq DOMAIN mc /\ ServerFields \subseteq DOMAIN srv
  BY DEF SendClientFinished, SendLogin, MmtlsInv
<1>2. PICK pending : Framed(mc.recq, mc.rxbuf, wire, pending) /\ Phase(pending)
  BY <1>1 DEF MmtlsInv, Talking, Connecting, Going
<1>3. Exchanging(pending)
  BY <1>1, <1>2 DEF Phase, BeforeHello, AwaitingHello, InFlight
<1>4. Agreed /\ pending = <<>> /\ mc.rxSeq = srv.txSeq
  BY <1>1, <1>3 DEF Exchanging, Finishing, Idling, Requesting, Answering
<1>5. ASSUME NEW to, mc' = [mc EXCEPT !.at = to, !.txSeq = mc.txSeq + 1]
      PROVE  /\ DOMAIN mc' = DOMAIN mc /\ mc'.at = to /\ mc'.n = mc.n /\ mc'.txSeq = mc.txSeq + 1
             /\ mc'.hFinal = mc.hFinal /\ mc'.hash = mc.hash /\ mc'.secret = mc.secret
             /\ mc'.hCertV = mc.hCertV /\ mc'.tickets = mc.tickets
             /\ mc'.rxSeq = mc.rxSeq /\ mc'.recq = mc.recq /\ mc'.rxbuf = mc.rxbuf
  BY <1>1, <1>5 DEF ClientFields, NewClient
<1>6. CASE SendClientFinished
  <2>1. mc.at = "finished" /\ mc' = [mc EXCEPT !.at = "idle", !.txSeq = mc.txSeq + 1]
    BY <1>1, <1>6 DEF SendClientFinished, Send, ClientFields, NewClient
  <2>2. mc.txSeq = 1 /\ srv.rxSeq = 1 /\ sent = <<>>
    BY <1>3, <2>1 DEF Exchanging, Finishing, Idling, Requesting, Answering
  <2>3. sent' = <<FinishedRecord>>
    <3>1. sent' = Append(<<>>, FinishedRecord)
      BY <1>6, <2>2 DEF SendClientFinished, Send, FinishedRecord
    <3> QED
      BY <3>1
  <2>4. FinishedRecord' = FinishedRecord /\ Agreed'
    BY <1>1, <1>4, <1>5, <2>1, Zenon DEF FinishedRecord, Agreed
  <2>5. Exchanging(<<>>)'
    <3>1. mc'.at = "idle" /\ mc'.txSeq = mc.txSeq + 1 /\ mc'.rxSeq = mc.rxSeq
      BY <1>5, <2>1
    <3>2. mc'.txSeq = 2 /\ mc'.rxSeq = srv'.txSeq /\ srv'.rxSeq = 1
      BY <1>1, <1>4, <2>2, <3>1
    <3> QED
      BY <2>3, <2>4, <3>1, <3>2, Zenon DEF Exchanging, Idling
  <2>6. mc'.at = "idle" /\ DOMAIN mc' = DOMAIN mc /\ Framed(mc'.recq, mc'.rxbuf, wire', <<>>)
    BY <1>1, <1>2, <1>4, <1>5, <2>1
  <2>7. Going'
    BY <2>5, <2>6, Zenon DEF Going, Phase
  <2> QED
    BY <1>1, <2>6, <2>7 DEF MmtlsInv, Talking
<1>7. CASE SendLogin
  <2>1. mc.at = "idle" /\ mc' = [mc EXCEPT !.at = "answer", !.txSeq = mc.txSeq + 1]
    BY <1>1, <1>7 DEF SendLogin, Send, ClientFields, NewClient
  <2>2. /\ mc.txSeq = 2
        /\ \/ srv.rxSeq = 1 /\ sent = <<FinishedRecord>>
           \/ srv.rxSeq = 2 /\ sent = <<>>
    <3>1. ~Finishing(pending) /\ ~Requesting(pending) /\ ~Answering(pending)
      BY <2>1 DEF Finishing, Requesting, Answering
    <3>2. Idling(pending)
      BY <1>3, <3>1 DEF Exchanging
    <3> QED
      BY <3>2 DEF Idling
  <2>3. \/ srv.rxSeq = 1 /\ sent' = <<FinishedRecord, RequestRecord>>
        \/ srv.rxSeq = 2 /\ sent' = <<RequestRecord>>
    <3>1. sent' = Append(sent, RequestRecord)
      BY <1>7, <2>2 DEF SendLogin, Send, RequestRecord
    <3>2. \A r : Append(<<>>, r) = <<r>>
      OBVIOUS
    <3>3. Append(<<FinishedRecord>>, RequestRecord) = <<FinishedRecord, RequestRecord>>
      BY AppendTwo
    <3> QED
      BY <2>2, <3>1, <3>2, <3>3, Zenon
  <2>4. FinishedRecord' = FinishedRecord /\ RequestRecord' = RequestRecord /\ Agreed'
    BY <1>1, <1>4, <1>5, <2>1, Zenon DEF FinishedRecord, RequestRecord, Agreed
  <2>5. Exchanging(<<>>)'
    BY <1>1, <1>4, <1>5, <2>1, <2>3, <2>4, Zenon DEF Exchanging, Requesting
  <2>6. mc'.at = "answer" /\ DOMAIN mc' = DOMAIN mc /\ Framed(mc'.recq, mc'.rxbuf, wire', <<>>)
    BY <1>1, <1>2, <1>4, <1>5, <2>1
  <2>7. Going'
    BY <2>5, <2>6, Zenon DEF Going, Phase
  <2> QED
    BY <1>1, <2>6, <2>7 DEF MmtlsInv, Talking
<1> QED
  BY <1>6, <1>7

(* The answer is taken.                                                        *)
LEMMA AnsweredStep ==
    ASSUME MmtlsInv, Expecting("answer"), mc' = [Taken EXCEPT !.at = "answered"],
           UNCHANGED <<srv, wire, sent>>
    PROVE  MmtlsInv'
<1>1. "answer" \in Receiving
  BY DEF Receiving
<1>2. mc.at = "answer" /\ ClientFields \subseteq DOMAIN mc /\ ServerFields \subseteq DOMAIN srv
  BY <1>1, TakeStep
<1>3. PICK pending : Phase(pending) /\ pending # <<>>
  BY <1>1, TakeStep
<1>4. Exchanging(pending)
  BY <1>2, <1>3 DEF Phase, BeforeHello, AwaitingHello, InFlight
<1>5. srv.rxSeq = 3 /\ Agreed
  BY <1>2, <1>3, <1>4 DEF Exchanging, Finishing, Idling, Requesting, Answering
<1>6. /\ DOMAIN mc' = DOMAIN mc /\ mc'.at = "answered"
      /\ mc'.hFinal = mc.hFinal /\ mc'.hash = mc.hash /\ mc'.secret = mc.secret
      /\ mc'.hCertV = mc.hCertV /\ mc'.tickets = mc.tickets /\ mc'.rxSeq = mc.rxSeq + 1
  BY <1>2, TakenIs DEF ClientFields, NewClient
<1>7. mc'.rxSeq \in Nat
  BY <1>5, <1>6 DEF Agreed
<1>8. Agreed'
  BY <1>5, <1>6, <1>7 DEF Agreed
<1> QED
  BY <1>2, <1>5, <1>6, <1>8 DEF MmtlsInv, Talking, Connecting

--------------------------------------------------------------------------------
(* A server that is sent something has been sent the hello, or the Finished    *)
(* and maybe the request.                                                      *)
LEMMA ServerSees ==
    ASSUME MmtlsInv, Talking, sent # <<>>
    PROVE  /\ ClientFields \subseteq DOMAIN mc /\ ServerFields \subseteq DOMAIN srv
           /\ \E pending :
                /\ Framed(mc.recq, mc.rxbuf, wire, pending)
                /\ \/ /\ AwaitingHello(pending) /\ pending = <<>> /\ srv = NewServer
                      /\ sent = <<Record("handshake", Null, 0, ClientHello)>>
                   \/ Agreed /\ (Idling(pending) \/ Requesting(pending))
<1>1. PICK pending : Framed(mc.recq, mc.rxbuf, wire, pending) /\ Phase(pending)
  BY DEF MmtlsInv, Going
<1>2. ~BeforeHello(pending) /\ ~InFlight(pending) /\ ~Finishing(pending) /\ ~Answering(pending)
  BY DEF BeforeHello, InFlight, Serving, Finishing, Answering
<1>3. AwaitingHello(pending) \/ Exchanging(pending)
  BY <1>1, <1>2 DEF Phase
<1>4. CASE AwaitingHello(pending)
  <2>1. \A c : ~Serving(c)
    BY DEF Serving
  <2>2. pending = <<>> /\ srv = NewServer /\ sent = <<Record("handshake", Null, 0, ClientHello)>>
    BY <1>4, <2>1 DEF AwaitingHello
  <2> QED
    BY <1>1, <1>4, <2>2 DEF MmtlsInv
<1>5. CASE Exchanging(pending)
  BY <1>1, <1>2, <1>5 DEF Exchanging, MmtlsInv
<1> QED
  BY <1>3, <1>4, <1>5

(* The server answers a hello with its own and the flight.                     *)
LEMMA ServerFlightStep == ASSUME MmtlsInv, Talking, ServerFlight PROVE MmtlsInv'
<1>1. sent # <<>> /\ srv.rxSeq = 0 /\ mc' = mc /\ sent' = Tail(sent)
  BY DEF ServerFlight
<1>2. ClientFields \subseteq DOMAIN mc
  BY <1>1, ServerSees
<1>3. PICK pending :
        /\ Framed(mc.recq, mc.rxbuf, wire, pending)
        /\ \/ /\ AwaitingHello(pending) /\ pending = <<>> /\ srv = NewServer
              /\ sent = <<Record("handshake", Null, 0, ClientHello)>>
           \/ Agreed /\ (Idling(pending) \/ Requesting(pending))
  BY <1>1, ServerSees
<1>4. ~Idling(pending) /\ ~Requesting(pending)
  BY <1>1 DEF Idling, Requesting
<1>5. /\ AwaitingHello(pending) /\ pending = <<>>
      /\ sent = <<Record("handshake", Null, 0, ClientHello)>>
  BY <1>3, <1>4
<1>6. Head(sent).msg = ClientHello /\ ClientHello.body.pub = mc.n /\ sent' = <<>>
  BY <1>1, <1>5 DEF Record, ClientHello, Handshake
<1>7. PICK flight \in Flights, group \in Groups :
        LET hello == Head(sent).msg
            reply == Handshake("ServerHello", [group |-> group, pub |-> hello.body.pub])
            first == <<hello, reply>>
            secret == Secret(hello.body.pub, hello.body.pub)
            issued == Issued(secret, first, flight)
            final == first \o issued
            all == Append(issued, Handshake("Finished", VerifyData(secret, "server", final)))
            key == HandshakeKey(secret, first, "server")
        IN  /\ wire' = wire \o OnWire(<<Record("handshake", Null, 0, reply)>>
                            \o [i \in DOMAIN all |-> Record("handshake", key, i, all[i])])
            /\ srv' = [secret |-> secret, hash |-> first, hFinal |-> final,
                       txSeq |-> Len(all) + 1, rxSeq |-> 1]
  BY Zenon DEF ServerFlight
<1>c. PICK c : c = [n |-> mc.n, group |-> group, flight |-> flight]
  OBVIOUS
<1>8. c.n = mc.n /\ c.group = group /\ c.flight = flight /\ c.flight \in Flights
  BY <1>c
<1>9. ClientHello = Handshake("ClientHello", [pub |-> c.n])
  BY <1>8, Zenon DEF ClientHello
<1>10. /\ wire' = wire \o OnWire(<<Record("handshake", Null, 0, Greeting(c))>>
                         \o [i \in DOMAIN Said(c) |-> Sealed(c, i)])
       /\ srv' = [secret |-> Shared(c), hash |-> Opening(c), hFinal |-> Final(c),
                  txSeq |-> Len(Said(c)) + 1, rxSeq |-> 1]
  BY <1>6, <1>7, <1>8, <1>9, Zenon DEF Greeting, Opening, Shared, Flown, Final, Said, Sealed
<1>11. PICK m \in Nat : m = Len(c.flight)
  BY <1>8, FlownIs
<1>12. DOMAIN Said(c) = 1 .. m + 1 /\ Len(Said(c)) = m + 1
  BY <1>8, <1>11, SaidIs
<1>13. [i \in DOMAIN Said(c) |-> Sealed(c, i)] = Rest(c, 0)
  <2>1. Rest(c, 0) = [i \in 1 .. m + 1 - 0 |-> Sealed(c, 0 + i)]
    BY <1>11 DEF Rest
  <2>2. m + 1 - 0 = m + 1 /\ \A i \in 1 .. m + 1 : 0 + i = i
    OBVIOUS
  <2> QED
    BY <1>12, <2>1, <2>2
<1>14. Serving(c)'
  <2>1. Len(Said(c)) + 1 = Len(c.flight) + 2
    BY <1>11, <1>12
  <2>2. srv' = [secret |-> Shared(c), hash |-> Opening(c), hFinal |-> Final(c),
                txSeq |-> Len(c.flight) + 2, rxSeq |-> 1]
    BY <1>10, <2>1, Zenon
  <2> QED
    BY <1>1, <1>6, <1>8, <2>2, Zenon DEF Serving
<1> DEFINE new == <<Record("handshake", Null, 0, Greeting(c))>> \o Rest(c, 0)
<1>15. new \in Seq({Record("handshake", Null, 0, Greeting(c))} \cup AllSealed(c))
  <2> DEFINE g == Record("handshake", Null, 0, Greeting(c))
             r == Rest(c, 0)
  <2>0. 0 \in 0 .. m
    OBVIOUS
  <2>1. r \in Seq(AllSealed(c))
    BY <1>11, <2>0, RestIs
  <2> HIDE DEF g, r
  <2>2. <<g>> \in Seq({g} \cup AllSealed(c)) /\ r \in Seq({g} \cup AllSealed(c))
    BY <2>1
  <2>3. <<g>> \o r \in Seq({g} \cup AllSealed(c))
    BY <2>2, ConcatProperties
  <2> QED
    BY <2>3 DEF g, r
<1>16. wire' = wire \o OnWire(new)
  BY <1>10, <1>13, Zenon
<1> HIDE DEF new
<1>17. Framed(mc.recq, mc.rxbuf, wire', <<>> \o new)
  BY <1>3, <1>5, <1>15, <1>16, SendKeepsFrames, MmtlsAssumption
<1>18. <<>> \o new = new
  BY <1>15, ConcatEmptySeq
<1>19. AwaitingHello(new)'
  <2>1. ClientHello' = ClientHello
    BY <1>1, Zenon DEF ClientHello
  <2> QED
    BY <1>1, <1>5, <1>14, <2>1, Zenon DEF AwaitingHello, new
<1>20. Going'
  <2>1. Framed(mc'.recq, mc'.rxbuf, wire', new)
    BY <1>1, <1>17, <1>18, Zenon
  <2>2. Phase(new)'
    BY <1>19, Zenon DEF Phase
  <2> QED
    BY <2>1, <2>2, Zenon DEF Going
<1>21. ServerFields \subseteq DOMAIN srv'
  BY <1>10 DEF ServerFields, NewServer
<1>22. mc'.at = "serverHello"
  BY <1>1, <1>5, Zenon DEF AwaitingHello
<1> QED
  BY <1>1, <1>2, <1>20, <1>21, <1>22 DEF MmtlsInv, Talking, Connecting

(* It takes the client's Finished and its request, and answers it.             *)
LEMMA ServerExchangeSteps ==
    ASSUME MmtlsInv, Talking, ServerFinished \/ ServerReply
    PROVE  MmtlsInv'
<1>1. /\ sent # <<>> /\ srv.rxSeq \in {1, 2} /\ mc' = mc /\ sent' = Tail(sent)
      /\ ServerFinished => srv.rxSeq = 1
      /\ ServerReply => srv.rxSeq = 2
  BY DEF ServerFinished, ServerReply
<1>2. ClientFields \subseteq DOMAIN mc /\ ServerFields \subseteq DOMAIN srv
  BY <1>1, ServerSees
<1>3. PICK pending :
        /\ Framed(mc.recq, mc.rxbuf, wire, pending)
        /\ \/ /\ AwaitingHello(pending) /\ pending = <<>> /\ srv = NewServer
              /\ sent = <<Record("handshake", Null, 0, ClientHello)>>
           \/ Agreed /\ (Idling(pending) \/ Requesting(pending))
  BY <1>1, ServerSees
<1>4. srv # NewServer
  BY <1>1 DEF NewServer
<1>5. Agreed /\ (Idling(pending) \/ Requesting(pending)) /\ pending = <<>> /\ mc.rxSeq = srv.txSeq
  BY <1>3, <1>4 DEF Idling, Requesting
<1>6. FinishedRecord' = FinishedRecord /\ RequestRecord' = RequestRecord
  BY <1>1, Zenon DEF FinishedRecord, RequestRecord
<1>7. mc.at # "closed" /\ mc.at # "answered"
  BY <1>5 DEF Idling, Requesting
<1>8. CASE ServerFinished
  <2>1. wire' = wire /\ srv' = [srv EXCEPT !.rxSeq = srv.rxSeq + 1] /\ srv.rxSeq = 1
    BY <1>1, <1>8 DEF ServerFinished
  <2>2. /\ DOMAIN srv' = DOMAIN srv /\ srv'.rxSeq = 2 /\ srv'.secret = srv.secret /\ srv'.hash = srv.hash
        /\ srv'.hFinal = srv.hFinal /\ srv'.txSeq = srv.txSeq
    BY <1>2, <2>1 DEF ServerFields, NewServer
  <2>3. Agreed'
    BY <1>1, <1>5, <2>2, Zenon DEF Agreed
  <2>4. CASE Idling(pending)
    <3>1. sent = <<FinishedRecord>>
      BY <2>1, <2>4 DEF Idling
    <3>2. sent' = <<>>
      BY <1>1, <3>1
    <3> QED
      BY <1>1, <1>2, <1>3, <1>7, <2>1, <2>2, <2>3, <2>4, <3>2
         DEF Idling, Exchanging, Phase, Going, MmtlsInv, Talking, Connecting
  <2>5. CASE Requesting(pending)
    <3>1. sent = <<FinishedRecord, RequestRecord>>
      BY <2>1, <2>5 DEF Requesting
    <3>2. sent' = <<RequestRecord>>
      BY <1>1, <3>1
    <3>3. Requesting(pending)'
      BY <1>1, <1>6, <2>2, <2>5, <3>2 DEF Requesting
    <3>4. Going'
      BY <1>1, <1>3, <2>1, <2>3, <3>3, Zenon DEF Exchanging, Phase, Going
    <3> QED
      BY <1>1, <1>2, <1>7, <2>2, <3>3, <3>4 DEF Requesting, MmtlsInv, Talking
  <2> QED
    BY <1>5, <2>4, <2>5
<1>9. CASE ServerReply
  <2>1. srv.rxSeq = 2 /\ srv' = [srv EXCEPT !.rxSeq = srv.rxSeq + 1, !.txSeq = srv.txSeq + 1]
    BY <1>1, <1>2, <1>9 DEF ServerReply, ServerFields, NewServer
  <2>2. PICK msg : wire' = wire \o OnWire(<<Record("app", AppKey(srv.secret, srv.hFinal, "server"),
                                                 srv.txSeq, msg)>>)
    BY <1>9, Zenon DEF ServerReply
  <2>3. /\ DOMAIN srv' = DOMAIN srv /\ srv'.rxSeq = 3 /\ srv'.secret = srv.secret /\ srv'.hash = srv.hash
        /\ srv'.hFinal = srv.hFinal
    BY <1>2, <2>1 DEF ServerFields, NewServer
  <2>4. Agreed'
    BY <1>1, <1>5, <2>3, Zenon DEF Agreed
  <2>5. sent = <<RequestRecord>> /\ mc.at = "answer"
    BY <1>1, <1>5, <2>1 DEF Idling, Requesting
  <2>6. sent' = <<>>
    BY <1>1, <2>5
  <2>7. Record("app", AppKey(srv.secret, srv.hFinal, "server"), srv.txSeq, msg) = AnswerRecord(msg)
    BY <1>5, Zenon DEF Agreed, AnswerRecord
  <2> DEFINE r == AnswerRecord(msg)
  <2>8. wire' = wire \o OnWire(<<r>>)
    BY <2>2, <2>7, Zenon
  <2>9. r' = r
    BY <1>1, Zenon DEF AnswerRecord
  <2>10. Answering(<<r>>)'
    BY <1>1, <2>3, <2>5, <2>6, <2>9, Zenon DEF Answering
  <2> HIDE DEF r
  <2>11. <<r>> \in Seq({r}) /\ <<>> \o <<r>> = <<r>>
    OBVIOUS
  <2>12. Framed(mc.recq, mc.rxbuf, wire', <<>> \o <<r>>)
    BY <1>3, <1>5, <2>8, <2>11, SendKeepsFrames, MmtlsAssumption
  <2>13. Going'
    BY <1>1, <2>4, <2>9, <2>10, <2>11, <2>12, Zenon DEF Exchanging, Phase, Going
  <2> QED
    BY <1>1, <1>2, <2>3, <2>5, <2>13 DEF MmtlsInv, Talking
<1> QED
  BY <1>8, <1>9

(* Nothing happens on the connection.                                          *)
LEMMA NothingKeeps == MmtlsInv /\ UNCHANGED mmtlsVars => MmtlsInv'
<1> SUFFICES ASSUME MmtlsInv, UNCHANGED mmtlsVars PROVE MmtlsInv'
  OBVIOUS
<1>1. mc' = mc /\ srv' = srv /\ wire' = wire /\ sent' = sent
  BY DEF mmtlsVars
<1>2. Agreed => Agreed'
  BY <1>1, Zenon DEF Agreed
<1>3. ASSUME NEW pending, Phase(pending) PROVE Phase(pending)'
  <2>1. BeforeHello(pending) => BeforeHello(pending)'
    BY <1>1, Zenon DEF BeforeHello
  <2>2. AwaitingHello(pending) => AwaitingHello(pending)'
    BY <1>1, Zenon DEF AwaitingHello, Serving, ClientHello
  <2>3. InFlight(pending) => InFlight(pending)'
    BY <1>1, Zenon DEF InFlight, Serving, HasTaken
  <2>4. Exchanging(pending) => Exchanging(pending)'
    BY <1>1, <1>2, Zenon DEF Exchanging, Finishing, Idling, Requesting, Answering, FinishedRecord,
       RequestRecord, AnswerRecord
  <2> QED
    BY <1>3, <2>1, <2>2, <2>3, <2>4, Zenon DEF Phase
<1>4. Going => Going'
  BY <1>1, <1>3, Zenon DEF Going
<1> QED
  BY <1>1, <1>2, <1>4, Zenon DEF MmtlsInv, Talking

(* Nor without one, whatever is sent on another.                               *)
LEMMA IdleKeeps == ASSUME MmtlsInv, ~Talking, mc' = mc, srv' = srv PROVE MmtlsInv'
<1>1. Agreed => Agreed'
  BY Zenon DEF Agreed
<1> QED
  BY <1>1, Zenon DEF MmtlsInv, Talking

--------------------------------------------------------------------------------
(* The keys of the tickets.                                                    *)
LEMMA TicketsAgree ==
    ASSUME MmtlsInv, mc.at \in Connected
    PROVE  TicketsOf(mc.tickets, mc.secret, mc.hCertV)
<1>1. CASE mc.at = "answered"
  BY <1>1 DEF MmtlsInv, Agreed
<1>2. CASE mc.at # "answered"
  <2>1. PICK pending : Phase(pending)
    BY <1>2 DEF MmtlsInv, Talking, Connected, Going
  <2>2. Agreed
    BY <1>2, <2>1 DEF Phase, BeforeHello, AwaitingHello, InFlight, Exchanging, Connected
  <2> QED
    BY <2>2 DEF Agreed
<1> QED
  BY <1>1, <1>2

LEMMA ExtractedKeys ==
    ASSUME TicketsOf(mc.tickets, mc.secret, mc.hCertV)
    PROVE  /\ \A i \in DOMAIN mc.tickets : ExtractPSKs[i].psk = mc.tickets[i].psk
           /\ AccessPSK # 0 => ExtractPSKs[AccessPSK].psk = ExtractPSKs[AccessPSK].ticket.psk
<1> DEFINE tickets == mc.tickets
           S == {tickets[i] : i \in DOMAIN tickets}
           entry(i) == [type |-> tickets[i].type, lifetime |-> tickets[i].lifetime,
                        psk |-> PSK(mc.secret, mc.hCertV, tickets[i].type), ticket |-> tickets[i]]
<1>1. /\ tickets \in Seq(S)
      /\ \A i \in DOMAIN tickets : tickets[i].psk = PSK(mc.secret, mc.hCertV, tickets[i].type)
  BY DEF TicketsOf, IsSequence
<1>2. PICK n \in Nat : DOMAIN tickets = 1 .. n
  BY <1>1
<1>3. ExtractPSKs = [i \in 1 .. n |-> entry(i)]
  BY <1>2 DEF ExtractPSKs
<1>4. ASSUME NEW i \in 1 .. n
      PROVE  ExtractPSKs[i].psk = tickets[i].psk /\ ExtractPSKs[i].ticket = tickets[i]
  <2>1. ExtractPSKs[i] = entry(i)
    BY <1>3
  <2> HIDE DEF tickets
  <2>2. entry(i).psk = PSK(mc.secret, mc.hCertV, tickets[i].type) /\ entry(i).ticket = tickets[i]
    OBVIOUS
  <2> QED
    BY <1>1, <1>2, <2>1, <2>2
<1>5. AccessPSK # 0 => AccessPSK \in 1 .. n
  <2> DEFINE I == {i \in 1 .. Len(ExtractPSKs) : ExtractPSKs[i].type = 1 /\ ExtractPSKs[i].lifetime > 0}
  <2>1. Len(ExtractPSKs) = n
    <3> HIDE DEF entry
    <3> QED
      BY <1>3
  <2>2. AccessPSK = IF I # {} THEN Min(I) ELSE 0
    BY DEF AccessPSK, SelectInSeq
  <2>3. I # {} => Min(I) \in I
    <3>1. I \in SUBSET Nat
      BY <2>1
    <3> HIDE DEF I
    <3> QED
      BY <3>1, MinExists DEF Min
  <2>4. I \subseteq 1 .. n
    BY <2>1
  <2> HIDE DEF I
  <2> QED
    BY <2>2, <2>3, <2>4
<1> QED
  BY <1>2, <1>4, <1>5
================================================================================
