------------------------------ MODULE CodecsProofs ------------------------------
(* What is encoded is read back, for every width of the numbers, every byte    *)
(* string and every message.  MmtlsProofs has the lemmas on induction and on   *)
(* sequences.                                                                  *)
EXTENDS Codecs, MmtlsProofs

(* What the proofs need of the widths.                                         *)
LEMMA Widths ==
    Group \in Nat /\ Group > 3 /\ Word \in Nat /\ Word > Group
BY WidthsAssumption

(* Powers of two.                                                              *)
LEMMA Pow2Steps ==
    /\ Pow2[0] = 1
    /\ \A n \in 1 .. Word : Pow2[n] = 2 * Pow2[n - 1]
<1> DEFINE Step(f, n) == IF n = 0 THEN 1 ELSE 2 * f[n - 1]
           Powers(f, m) == f = [n \in 0 .. m |-> Step(f, n)]
           T == {m \in Nat : \E f : Powers(f, m)}
<1>1. 0 \in T
  <2>1. Powers([n \in 0 .. 0 |-> 1], 0)
    OBVIOUS
  <2> QED
    BY <2>1
<1>2. ASSUME NEW m \in Nat, m \in T PROVE m + 1 \in T
  <2>1. PICK f : Powers(f, m)
    BY <1>2
  <2> DEFINE g == [n \in 0 .. m + 1 |-> Step(f, n)]
  <2>2. \A n \in 0 .. m + 1 : Step(g, n) = Step(f, n)
    <3>1. \A n \in 0 .. m : g[n] = f[n]
      <4> HIDE DEF Step
      <4> QED
        BY <2>1
    <3>2. \A n \in 0 .. m + 1 : n = 0 \/ n - 1 \in 0 .. m
      OBVIOUS
    <3> HIDE DEF g
    <3> QED
      BY <3>1, <3>2
  <2>3. Powers(g, m + 1)
    <3> HIDE DEF Step
    <3> QED
      BY <2>2
  <2> HIDE DEF Powers
  <2> QED
    BY <2>3
<1>3. Word \in T
  <2> HIDE DEF T
  <2> QED
    BY <1>1, <1>2, Induction, Widths
<1>4. Powers(Pow2, Word)
  BY <1>3 DEF Pow2
<1>5. \A n \in 0 .. Word : Pow2[n] = Step(Pow2, n)
  <2> HIDE DEF Step
  <2> QED
    BY <1>4
<1> QED
  BY <1>5, Widths

LEMMA Pow2Type == \A n \in 0 .. Word : Pow2[n] \in Nat \ {0}
<1> DEFINE T == {n \in Nat : n <= Word => Pow2[n] \in Nat \ {0}}
<1>1. 0 \in T
  BY Pow2Steps
<1>2. ASSUME NEW n \in Nat, n \in T PROVE n + 1 \in T
  <2>1. CASE n + 1 <= Word
    <3>1. Pow2[n + 1] = 2 * Pow2[n] /\ Pow2[n] \in Nat \ {0}
      BY <1>2, <2>1, Pow2Steps, Widths
    <3> QED
      BY <3>1
  <2> QED
    BY <2>1, Widths
<1>3. Nat \subseteq T
  <2> HIDE DEF T
  <2> QED
    BY <1>1, <1>2, Induction
<1> QED
  BY <1>3, Widths

(* The power of a sum.                                                         *)
LEMMA Pow2Sum ==
    ASSUME NEW a \in Nat, NEW b \in Nat, a + b <= Word
    PROVE  Pow2[a + b] = Pow2[a] * Pow2[b]
<1> DEFINE T == {n \in Nat : a + n <= Word => Pow2[a + n] = Pow2[a] * Pow2[n]}
<1>0. Word \in Nat /\ a <= Word
  BY Widths
<1>1. 0 \in T
  <2>1. Pow2[a] \in Nat /\ Pow2[0] = 1 /\ a + 0 = a
    BY <1>0, Pow2Type, Pow2Steps
  <2> QED
    BY <2>1
<1>2. ASSUME NEW n \in Nat, n \in T PROVE n + 1 \in T
  <2>1. CASE a + (n + 1) <= Word
    <3>1. Pow2[a + n] = Pow2[a] * Pow2[n]
      BY <1>0, <1>2, <2>1
    <3>2. Pow2[a + (n + 1)] = 2 * Pow2[a + n]
      <4>1. a + (n + 1) \in 1 .. Word /\ (a + (n + 1)) - 1 = a + n
        BY <1>0, <2>1
      <4> QED
        BY <4>1, Pow2Steps
    <3>3. Pow2[n + 1] = 2 * Pow2[n]
      BY <1>0, <2>1, Pow2Steps
    <3>4. PICK p \in Nat, q \in Nat : p = Pow2[a] /\ q = Pow2[n]
      BY <1>0, <2>1, Pow2Type
    <3>5. 2 * (p * q) = p * (2 * q)
      OBVIOUS
    <3> QED
      BY <3>1, <3>2, <3>3, <3>4, <3>5
  <2> QED
    BY <2>1, <1>0
<1>3. Nat \subseteq T
  <2> HIDE DEF T
  <2> QED
    BY <1>1, <1>2, Induction
<1> QED
  BY <1>3

(* Half of the numbers are those that a signed integer holds.                  *)
LEMMA Halves ==
    /\ More \in Nat /\ More >= 16 /\ Limit \in Nat /\ More < Limit
    /\ Pow2[Word - 1] \in Nat \ {0} /\ Limit = 2 * Pow2[Word - 1]
    /\ MaxBytes \in Nat /\ MaxBytes > 1
<1>1. More \in Nat /\ Limit \in Nat \ {0}
  BY Pow2Type, Widths DEF More, Limit
<1>2. More >= 16
  <2>1. Pow2[4] = 16
    BY Pow2Steps, Widths
  <2>2. PICK a \in Nat : a = Group - 4
    BY Widths
  <2>3. Pow2[4 + a] = Pow2[4] * Pow2[a] /\ Pow2[a] \in Nat \ {0}
    BY <2>2, Pow2Sum, Pow2Type, Widths
  <2>4. 4 + a = Group
    BY <2>2, Widths
  <2> QED
    BY <2>1, <2>3, <2>4 DEF More
<1>3. More < Limit
  <2>1. PICK a \in Nat : a = Word - Group - 1
    BY Widths
  <2>2. Group + (1 + a) = Word /\ Group + (1 + a) <= Word
    BY <2>1, Widths
  <2>3. Limit = More * Pow2[1 + a]
    BY <2>2, Pow2Sum, Widths DEF More, Limit
  <2>4. Pow2[1 + a] = 2 * Pow2[a] /\ Pow2[a] \in Nat \ {0}
    BY <2>1, Pow2Steps, Pow2Type, Widths
  <2>5. PICK p \in Nat \ {0}, m \in Nat : p = Pow2[a] /\ m = More
    BY <1>1, <2>4
  <2>6. m * (2 * p) >= m * 2
    OBVIOUS
  <2> QED
    BY <1>2, <2>3, <2>4, <2>5, <2>6
<1>4. Pow2[Word - 1] \in Nat \ {0} /\ Limit = 2 * Pow2[Word - 1]
  BY Pow2Type, Pow2Steps, Widths DEF Limit
<1>5. MaxBytes \in Nat /\ MaxBytes > 1
  <2>1. PICK g \in Nat \ {0} : g = Group
    BY Widths
  <2>2. Word \div g \in Nat /\ (Word \div g) * g <= Word /\ Word < (Word \div g) * g + g
    BY Division, Widths
  <2>3. Word \div g # 0
    BY <2>1, <2>2, Widths
  <2> QED
    BY <2>1, <2>2, <2>3 DEF MaxBytes
<1> QED
  BY <1>1, <1>2, <1>3, <1>4, <1>5

(* Below what r bytes hold, of the most bytes, the last one of one bit.        *)
Bound(r) == 2 * Pow2[Group * (r - 1)]

(* What one byte more holds.                                                   *)
LEMMA Bounds ==
    /\ \A r \in 1 .. MaxBytes : Bound(r) \in Nat \ {0}
    /\ Bound(1) = 2 /\ Bound(MaxBytes) = Limit
    /\ \A r \in 1 .. MaxBytes - 1 : Bound(r + 1) = More * Bound(r)
<1>1. PICK q \in Nat : q = Word \div Group /\ MaxBytes = q + 1
  <2>1. Word \div Group \in Nat
    BY Widths, Division
  <2> QED
    BY <2>1 DEF MaxBytes
<1>2. Word = Group * q + 1
  <2>1. Word % Group = 1
    BY WidthsAssumption
  <2>2. PICK g \in Nat \ {0}, w \in Nat : g = Group /\ w = Word
    BY Widths
  <2>3. w = (g * (w \div g)) + (w % g)
    BY <2>2
  <2> QED
    BY <1>1, <2>1, <2>2, <2>3
<1>3. ASSUME NEW r \in 0 .. q PROVE Group * r \in Nat /\ Group * r + 1 <= Word
  <2>1. PICK g \in Nat \ {0} : g = Group
    BY Widths
  <2>2. g * r \in Nat /\ g * q \in Nat /\ g * r <= g * q
    OBVIOUS
  <2> QED
    BY <1>2, <2>1, <2>2
<1>4. ASSUME NEW r \in 1 .. MaxBytes PROVE Bound(r) \in Nat \ {0}
  <2>1. r - 1 \in 0 .. q
    BY <1>1
  <2>2. Pow2[Group * (r - 1)] \in Nat \ {0}
    BY <1>3, <2>1, Pow2Type, Widths
  <2> QED
    BY <2>2 DEF Bound
<1>5. Bound(1) = 2
  <2>1. Group * (1 - 1) = 0
    BY Widths
  <2> QED
    BY <2>1, Pow2Steps DEF Bound
<1>6. Bound(MaxBytes) = Limit
  <2>1. Group * q \in Nat /\ MaxBytes - 1 = q
    BY <1>1, <1>3
  <2>2. Pow2[Word] = 2 * Pow2[Group * q]
    <3>1. Word \in 1 .. Word /\ Word - 1 = Group * q
      BY <1>2, <2>1, Widths
    <3> QED
      BY <3>1, Pow2Steps
  <2> QED
    BY <2>1, <2>2 DEF Bound, Limit
<1>7. ASSUME NEW r \in 1 .. MaxBytes - 1 PROVE Bound(r + 1) = More * Bound(r)
  <2>1. PICK a \in Nat : a = Group * (r - 1)
    BY <1>1, <1>3
  <2>2. (r + 1) - 1 = r /\ r - 1 \in 0 .. q /\ r \in 0 .. q
    BY <1>1
  <2>3. Group * r = Group + a
    <3>1. PICK g \in Nat \ {0} : g = Group
      BY Widths
    <3>2. g * r = g + g * (r - 1)
      OBVIOUS
    <3> QED
      BY <2>1, <3>1, <3>2
  <2>4. Pow2[Group + a] = Pow2[Group] * Pow2[a] /\ Pow2[a] \in Nat
    <3>1. Group + a <= Word /\ a <= Word
      BY <1>3, <2>2, <2>3, Widths
    <3> QED
      BY <3>1, Pow2Sum, Pow2Type, Widths
  <2>5. PICK p \in Nat, m \in Nat : p = Pow2[a] /\ m = More
    BY <2>4, Halves
  <2>6. 2 * (m * p) = m * (2 * p)
    OBVIOUS
  <2> QED
    BY <2>1, <2>2, <2>3, <2>4, <2>5, <2>6 DEF Bound, More
<1> QED
  BY <1>4, <1>5, <1>6, <1>7

(* A number, its last digit and the others.                                    *)
LEMMA Digits ==
    ASSUME NEW n \in Nat, n >= More
    PROVE  /\ n \div More \in Nat /\ n \div More < n
           /\ n % More \in 0 .. More - 1 /\ ((n \div More) * More) + (n % More) = n
           /\ ((n % More) + More) % More = n % More
           /\ \A b \in Nat : n < More * b => n \div More < b
<1>1. PICK m \in Nat \ {0} : m = More /\ m >= 16
  BY Halves
<1>2. PICK q \in Nat, r \in 0 .. m - 1 : q = n \div m /\ r = n % m /\ n = (q * m) + r
  <2>1. n \div m \in Nat /\ n % m \in 0 .. m - 1 /\ n = (m * (n \div m)) + (n % m)
    OBVIOUS
  <2> QED
    BY <2>1
<1>3. q < n
  <2>1. q * m >= q * 16
    BY <1>1
  <2> QED
    BY <1>1, <1>2, <2>1
<1>4. (r + m) % m = r
  OBVIOUS
<1>5. ASSUME NEW b \in Nat, n < m * b PROVE q < b
  <2>1. CASE q >= b
    <3>1. q * m >= b * m
      BY <2>1
    <3> QED
      BY <1>2, <1>5, <3>1
  <2> QED
    BY <2>1
<1> QED
  BY <1>1, <1>2, <1>3, <1>4, <1>5

--------------------------------------------------------------------------------
(* Varints.                                                                    *)
LEMMA VarintSteps ==
    \A n \in 0 .. Limit - 1 :
        Varint[n] = IF n < More THEN <<n>> ELSE <<(n % More) + More>> \o Varint[n \div More]
<1> DEFINE Step(f, n) == IF n < More THEN <<n>> ELSE <<(n % More) + More>> \o f[n \div More]
           Bytes(f, m) == f = [n \in 0 .. m |-> Step(f, n)]
           T == {m \in Nat : \E f : Bytes(f, m)}
<1>1. 0 \in T
  <2>1. Bytes([n \in 0 .. 0 |-> <<n>>], 0)
    BY Halves
  <2> QED
    BY <2>1
<1>2. ASSUME NEW m \in Nat, m \in T PROVE m + 1 \in T
  <2>1. PICK f : Bytes(f, m)
    BY <1>2
  <2> DEFINE g == [n \in 0 .. m + 1 |-> Step(f, n)]
  <2>2. \A n \in 0 .. m + 1 : Step(g, n) = Step(f, n)
    <3>1. \A n \in 0 .. m : g[n] = f[n]
      <4> HIDE DEF Step
      <4> QED
        BY <2>1
    <3>2. ASSUME NEW n \in 0 .. m + 1, n >= More PROVE n \div More \in 0 .. m
      <4>1. n \div More \in Nat /\ n \div More < n
        BY <3>2, Digits
      <4> QED
        BY <4>1
    <3>3. \A n \in 0 .. m + 1 : n < More \/ n >= More
      BY Halves
    <3> HIDE DEF g
    <3> QED
      BY <3>1, <3>2, <3>3
  <2>3. Bytes(g, m + 1)
    <3> HIDE DEF Step
    <3> QED
      BY <2>2
  <2> HIDE DEF Bytes
  <2> QED
    BY <2>3
<1>3. Limit - 1 \in T
  <2>1. Limit - 1 \in Nat
    BY Halves
  <2> HIDE DEF T
  <2> QED
    BY <1>1, <1>2, <2>1, Induction
<1>4. Bytes(Varint, Limit - 1)
  BY <1>3 DEF Varint
<1>5. \A n \in 0 .. Limit - 1 : Varint[n] = Step(Varint, n)
  <2> HIDE DEF Step
  <2> QED
    BY <1>4
<1> QED
  BY <1>5

(* A number of one digit is its own byte, any other is its last digit and      *)
(* more.                                                                       *)
LEMMA VarintOfOne ==
    ASSUME NEW n \in 0 .. More - 1
    PROVE  Varint[n] = <<n>> /\ n \in 0 .. Limit - 1
<1>1. n \in 0 .. Limit - 1 /\ n < More
  BY Halves
<1> QED
  BY <1>1, VarintSteps

LEMMA VarintOfMore ==
    ASSUME NEW n \in 0 .. Limit - 1, n >= More,
           Varint[n \div More] \in Seq(Nat), Len(Varint[n \div More]) > 0
    PROVE  /\ Varint[n] \in Seq(Nat) /\ Len(Varint[n]) = Len(Varint[n \div More]) + 1
           /\ Varint[n][1] = (n % More) + More
           /\ \A k \in 1 .. Len(Varint[n \div More]) : Varint[n][k + 1] = Varint[n \div More][k]
<1>1. PICK b \in Nat : b = (n % More) + More
  <2>1. n \in Nat /\ More \in Nat
    BY Halves
  <2>2. PICK r \in 0 .. More - 1 : r = n % More
    BY <2>1, Digits
  <2> QED
    BY <2>1, <2>2
<1>2. Varint[n] = <<b>> \o Varint[n \div More]
  <2>1. ~(n < More)
    BY Halves
  <2>2. Varint[n] = IF n < More THEN <<n>> ELSE <<(n % More) + More>> \o Varint[n \div More]
    BY VarintSteps, Zenon
  <2>3. Varint[n] = <<(n % More) + More>> \o Varint[n \div More]
    BY <2>1, <2>2, Zenon
  <2> QED
    BY <1>1, <2>3, Zenon
<1>3. PICK t \in Seq(Nat) : t = Varint[n \div More]
  OBVIOUS
<1>4. <<b>> \in Seq(Nat) /\ Len(<<b>>) = 1 /\ <<b>>[1] = b
  OBVIOUS
<1>5. /\ <<b>> \o t \in Seq(Nat) /\ Len(<<b>> \o t) = Len(<<b>>) + Len(t) /\ Len(t) \in Nat
      /\ \A k \in 1 .. Len(<<b>>) : (<<b>> \o t)[k] = <<b>>[k]
      /\ \A k \in 1 .. Len(t) : (<<b>> \o t)[Len(<<b>>) + k] = t[k]
  BY <1>4, Concat
<1>6. \A k \in 1 .. Len(t) : 1 + k = k + 1
  BY <1>5
<1> QED
  BY <1>1, <1>2, <1>3, <1>4, <1>5, <1>6

(* What r bytes hold.                                                          *)
LEMMA VarintType ==
    ASSUME NEW r \in 1 .. MaxBytes, NEW n \in Nat, n < Bound(r)
    PROVE  n \in 0 .. Limit - 1 /\ Varint[n] \in Seq(Nat) /\ Len(Varint[n]) \in 1 .. r
<1> DEFINE Good(b, m) == m \in 0 .. Limit - 1 /\ Varint[m] \in Seq(Nat) /\ Len(Varint[m]) \in 1 .. b
           T == {k \in Nat : k + 1 <= MaxBytes => \A m \in Nat : m < Bound(k + 1) => Good(k + 1, m)}
<1>1. 0 \in T
  <2>1. ASSUME NEW m \in Nat, m < 2 PROVE Good(1, m)
    <3>1. m \in 0 .. More - 1
      BY <2>1, Halves
    <3>2. Varint[m] = <<m>> /\ m \in 0 .. Limit - 1
      BY <3>1, VarintOfOne
    <3> QED
      BY <3>2
  <2>2. 0 + 1 = 1 /\ Bound(0 + 1) = 2
    BY Bounds
  <2> HIDE DEF Good
  <2> QED
    BY <2>1, <2>2
<1>2. ASSUME NEW k \in Nat, k \in T PROVE k + 1 \in T
  <2> SUFFICES ASSUME (k + 1) + 1 <= MaxBytes, NEW m \in Nat, m < Bound((k + 1) + 1)
               PROVE  Good((k + 1) + 1, m)
    OBVIOUS
  <2>1. k + 1 \in 1 .. MaxBytes - 1 /\ k + 1 \in 1 .. MaxBytes
    BY Halves
  <2>2. PICK c \in Nat : c = Bound(k + 1)
    BY <2>1, Bounds
  <2>3. m < More * c
    BY <2>1, <2>2, Bounds
  <2>4. CASE m < More
    <3>1. Varint[m] = <<m>> /\ m \in 0 .. Limit - 1
      BY <2>4, VarintOfOne, Halves
    <3> QED
      BY <3>1
  <2>5. CASE m >= More
    <3>1. m \div More \in Nat /\ m \div More < c
      BY <2>3, <2>5, Digits
    <3>2. Good(k + 1, m \div More)
      BY <1>2, <2>1, <2>2, <3>1
    <3>3. m \in 0 .. Limit - 1
      <4>1. Bound((k + 1) + 1) <= Limit
        <5> DEFINE U == {j \in Nat : j + 1 <= MaxBytes => Bound(MaxBytes - j) <= Limit}
        <5>1. 0 \in U
          BY Bounds, Halves
        <5>2. ASSUME NEW j \in Nat, j \in U PROVE j + 1 \in U
          <6>1. CASE (j + 1) + 1 <= MaxBytes
            <7>1. MaxBytes - (j + 1) \in 1 .. MaxBytes - 1 /\ (MaxBytes - (j + 1)) + 1 = MaxBytes - j
              BY <6>1, Halves
            <7>2. PICK x \in Nat : x = Bound(MaxBytes - (j + 1))
              BY <7>1, Bounds, Halves
            <7>3. Bound(MaxBytes - j) = More * x
              BY <7>1, <7>2, Bounds
            <7>4. PICK y \in Nat : y = More /\ y >= 16
              BY Halves
            <7>5. y * x >= x
              BY <7>4
            <7>6. Bound(MaxBytes - j) <= Limit
              BY <5>2, <6>1, Halves
            <7> QED
              BY <7>2, <7>3, <7>4, <7>5, <7>6, Halves
          <6> QED
            BY <6>1, Halves
        <5>3. Nat \subseteq U
          <6> HIDE DEF U
          <6> QED
            BY <5>1, <5>2, Induction
        <5>4. MaxBytes - ((k + 1) + 1) \in Nat
          BY Halves
        <5>5. PICK j \in Nat : j = MaxBytes - ((k + 1) + 1)
          BY <5>4
        <5>6. j + 1 <= MaxBytes /\ MaxBytes - j = (k + 1) + 1
          BY <5>5, Halves
        <5> QED
          BY <5>3, <5>6
      <4>2. Bound((k + 1) + 1) \in Nat
        BY Bounds, Halves
      <4> QED
        BY <4>1, <4>2, Halves
    <3> HIDE DEF T
    <3>4. /\ Varint[m] \in Seq(Nat) /\ Len(Varint[m]) = Len(Varint[m \div More]) + 1
      BY <2>5, <3>2, <3>3, VarintOfMore
    <3> QED
      BY <2>1, <3>2, <3>3, <3>4
  <2> QED
    BY <2>4, <2>5, Halves
<1>3. Nat \subseteq T
  <2> HIDE DEF T
  <2> QED
    BY <1>1, <1>2, Induction
<1>4. PICK k \in Nat : k + 1 = r
  BY Halves
<1>5. k \in T /\ k + 1 <= MaxBytes
  BY <1>3, <1>4, Halves
<1> QED
  BY <1>4, <1>5

(* A number takes a byte at least, and no more than the reader reads.          *)
LEMMA VarintLength ==
    ASSUME NEW n \in 0 .. Limit - 1
    PROVE  n \in Nat /\ Varint[n] \in Seq(Nat) /\ Len(Varint[n]) \in 1 .. MaxBytes
<1>1. n \in Nat /\ MaxBytes \in 1 .. MaxBytes /\ n < Bound(MaxBytes)
  BY Bounds, Halves
<1> QED
  BY <1>1, VarintType

(* The turns of readVarint's loop.                                             *)
LEMMA ReadSteps ==
    ASSUME NEW data \in Seq(Nat), NEW i \in Nat \ {0}
    PROVE  \E from : /\ ReadVarint(data, i) = from[i]
                     /\ from[i + MaxBytes] = Error
                     /\ \A j \in i .. i + MaxBytes - 1 :
                           from[j] = IF j > Len(data) THEN Error
                                     ELSE IF data[j] < More
                                     THEN [ok |-> TRUE, n |-> data[j], next |-> j + 1]
                                     ELSE IF from[j + 1].ok
                                     THEN [ok |-> TRUE, n |-> (from[j + 1].n * More + (data[j] % More)) % Limit,
                                           next |-> from[j + 1].next]
                                     ELSE from[j + 1]
<1> DEFINE end == i + MaxBytes
           Turn(rest, j) ==
                IF data[j] < More THEN [ok |-> TRUE, n |-> data[j], next |-> j + 1]
                ELSE IF rest.ok
                THEN [ok |-> TRUE, n |-> (rest.n * More + (data[j] % More)) % Limit, next |-> rest.next]
                ELSE rest
           Step(f, j) == IF j > Len(data) \/ j = end THEN Error ELSE Turn(f[j + 1], j)
           Known(f, m) == f = [j \in end - m .. end |-> Step(f, j)]
           T == {m \in Nat : \E f : Known(f, m)}
<1>0. end \in Nat
  BY Halves
<1> HIDE DEF end
<1>1. 0 \in T
  <2>1. Known([j \in end - 0 .. end |-> Error], 0)
    <3>1. \A j \in end - 0 .. end : j = end
      BY <1>0
    <3> HIDE DEF Turn
    <3> QED
      BY <3>1
  <2> QED
    BY <2>1
<1>2. ASSUME NEW m \in Nat, m \in T PROVE m + 1 \in T
  <2>1. PICK f : Known(f, m)
    BY <1>2
  <2> DEFINE g == [j \in end - (m + 1) .. end |-> Step(f, j)]
  <2> HIDE DEF Turn
  <2>2. \A j \in end - (m + 1) .. end : Step(g, j) = Step(f, j)
    <3>1. \A j \in end - m .. end : g[j] = f[j]
      <4>1. \A j \in end - m .. end : j \in end - (m + 1) .. end
        BY <1>0
      <4> HIDE DEF Step
      <4> QED
        BY <2>1, <4>1
    <3>2. \A j \in end - (m + 1) .. end : j = end \/ j + 1 \in end - m .. end
      BY <1>0
    <3> HIDE DEF g
    <3> QED
      BY <3>1, <3>2
  <2>3. Known(g, m + 1)
    <3> HIDE DEF Step
    <3> QED
      BY <2>2
  <2> HIDE DEF Known
  <2> QED
    BY <2>3
<1>3. MaxBytes \in T
  <2> HIDE DEF T
  <2> QED
    BY <1>1, <1>2, Induction, Halves
<1>4. end - MaxBytes = i
  BY Halves DEF end
<1> DEFINE from == CHOOSE f : f = [j \in i .. end |-> Step(f, j)]
<1>5. from = [j \in i .. end |-> Step(from, j)]
  <2>1. \E f : f = [j \in i .. end |-> Step(f, j)]
    BY <1>3, <1>4
  <2> HIDE DEF Step
  <2> QED
    BY <2>1
<1>6. ReadVarint(data, i) = from[i]
  BY DEF ReadVarint, end
<1>7. \A j \in i .. end : from[j] = Step(from, j)
  <2> HIDE DEF from, Step
  <2> QED
    BY <1>5
<1> HIDE DEF from
<1>8. end \in i .. end /\ \A j \in i .. i + MaxBytes - 1 : j \in i .. end /\ j # end
  BY Halves DEF end
<1>9. from[end] = Error
  BY <1>7, <1>8
<1>10. ASSUME NEW j \in i .. i + MaxBytes - 1
       PROVE  from[j] = IF j > Len(data) THEN Error ELSE Turn(from[j + 1], j)
  <2> HIDE DEF Turn
  <2> QED
    BY <1>7, <1>8
<1> QED
  BY <1>6, <1>9, <1>10 DEF end

(* A byte string stands in the data from a position on, as far as data goes.   *)
Stands(data, i, s) == \A k \in 1 .. Len(s) : i + k - 1 <= Len(data) => data[i + k - 1] = s[k]

(* A number is read if it came whole, and not otherwise.                       *)
LEMMA NumberRead ==
    ASSUME NEW data \in Seq(Nat), NEW i \in Nat \ {0}, i <= Len(data) + 1,
           NEW n \in 0 .. Limit - 1, Stands(data, i, Varint[n])
    PROVE  ReadVarint(data, i) =
               IF i + Len(Varint[n]) <= Len(data) + 1
               THEN [ok |-> TRUE, n |-> n, next |-> i + Len(Varint[n])] ELSE Error
<1>1. PICK from : /\ ReadVarint(data, i) = from[i]
                  /\ from[i + MaxBytes] = Error
                  /\ \A j \in i .. i + MaxBytes - 1 :
                        from[j] = IF j > Len(data) THEN Error
                                  ELSE IF data[j] < More
                                  THEN [ok |-> TRUE, n |-> data[j], next |-> j + 1]
                                  ELSE IF from[j + 1].ok
                                  THEN [ok |-> TRUE, n |-> (from[j + 1].n * More + (data[j] % More)) % Limit,
                                        next |-> from[j + 1].next]
                                  ELSE from[j + 1]
  BY ReadSteps
<1> DEFINE Reading(j, m) == IF j + Len(Varint[m]) <= Len(data) + 1
                            THEN [ok |-> TRUE, n |-> m, next |-> j + Len(Varint[m])] ELSE Error
           T == {k \in Nat : \A j \in i .. i + MaxBytes - 1, m \in Nat :
                    (/\ j + k + 1 = i + MaxBytes /\ m < Bound(k + 1)
                     /\ j <= Len(data) + 1 /\ Stands(data, j, Varint[m])) => from[j] = Reading(j, m)}
<1>2. ASSUME NEW j \in i .. i + MaxBytes - 1, NEW m \in 0 .. More - 1,
             j <= Len(data) + 1, Stands(data, j, Varint[m])
      PROVE  from[j] = Reading(j, m)
  <2>1. Varint[m] = <<m>> /\ Len(Varint[m]) = 1 /\ Varint[m][1] = m /\ Len(data) \in Nat
        /\ j \in Nat
    <3>1. Varint[m] = <<m>>
      BY VarintOfOne
    <3>2. Len(<<m>>) = 1 /\ <<m>>[1] = m /\ Len(data) \in Nat /\ j \in Nat
      BY Halves
    <3> QED
      BY <3>1, <3>2, Zenon
  <2>2. CASE j > Len(data)
    <3>1. from[j] = Error
      BY <1>1, <2>2
    <3>2. ~(j + 1 <= Len(data) + 1)
      BY <2>1, <2>2
    <3> QED
      BY <2>1, <3>1, <3>2, Zenon
  <2>3. CASE j <= Len(data)
    <3>1. data[j] = m /\ m < More
      <4>1. 1 \in 1 .. Len(Varint[m]) /\ j + 1 - 1 = j
        BY <2>1
      <4>2. data[j] = Varint[m][1]
        BY <1>2, <2>1, <2>3, <4>1, Zenon DEF Stands
      <4> QED
        BY <2>1, <4>2, Halves
    <3>2. from[j] = [ok |-> TRUE, n |-> m, next |-> j + 1]
      <4>1. from[j] = IF j > Len(data) THEN Error
                      ELSE IF data[j] < More
                      THEN [ok |-> TRUE, n |-> data[j], next |-> j + 1]
                      ELSE IF from[j + 1].ok
                      THEN [ok |-> TRUE, n |-> (from[j + 1].n * More + (data[j] % More)) % Limit,
                            next |-> from[j + 1].next]
                      ELSE from[j + 1]
        BY <1>1
      <4>2. ~(j > Len(data))
        BY <2>1, <2>3
      <4> QED
        BY <3>1, <4>1, <4>2, Zenon
    <3>3. j + 1 <= Len(data) + 1
      BY <2>1, <2>3
    <3> QED
      BY <2>1, <3>2, <3>3, Zenon
  <2> QED
    BY <2>1, <2>2, <2>3
<1>3. 0 \in T
  <2>1. ASSUME NEW j \in i .. i + MaxBytes - 1, NEW m \in Nat, m < Bound(0 + 1),
               j <= Len(data) + 1, Stands(data, j, Varint[m])
        PROVE  from[j] = Reading(j, m)
    <3>1. m \in 0 .. More - 1
      BY <2>1, Bounds, Halves
    <3> HIDE DEF Reading
    <3> QED
      BY <1>2, <2>1, <3>1
  <2> HIDE DEF Reading
  <2> QED
    BY <2>1
<1>4. ASSUME NEW k \in Nat, k \in T PROVE k + 1 \in T
  <2>1. ASSUME NEW j \in i .. i + MaxBytes - 1, NEW m \in Nat,
               j + (k + 1) + 1 = i + MaxBytes, m < Bound((k + 1) + 1),
               j <= Len(data) + 1, Stands(data, j, Varint[m])
        PROVE  from[j] = Reading(j, m)
    <3>1. CASE m < More
      <4>1. m \in 0 .. More - 1
        BY <3>1, Halves
      <4> HIDE DEF Reading
      <4> QED
        BY <1>2, <2>1, <4>1
    <3>2. CASE m >= More
      <4>1. /\ k + 1 \in 1 .. MaxBytes - 1 /\ (k + 1) + 1 \in 1 .. MaxBytes
            /\ j + 1 \in i .. i + MaxBytes - 1 /\ Len(data) \in Nat /\ j \in Nat
        BY <2>1, Halves, SMTT(30)
      <4>2. PICK q \in Nat, b \in 0 .. More - 1 :
                 /\ q = m \div More /\ b = m % More /\ (q * More) + b = m
                 /\ (b + More) % More = b
        <5>1. m \div More \in Nat /\ m % More \in 0 .. More - 1 /\ ((m \div More) * More) + (m % More) = m
              /\ ((m % More) + More) % More = m % More
          BY <3>2, Digits
        <5> QED
          BY <5>1
      <4>3. q < Bound(k + 1)
        <5>1. Bound((k + 1) + 1) = More * Bound(k + 1) /\ Bound(k + 1) \in Nat
          BY <4>1, Bounds, Halves, SMTT(30)
        <5>2. \A c \in Nat : m < More * c => m \div More < c
          BY <3>2, Digits
        <5> QED
          BY <2>1, <4>2, <5>1, <5>2
      <4>4. m \in 0 .. Limit - 1
        BY <2>1, <4>1, VarintType
      <4>5. Varint[q] \in Seq(Nat) /\ Len(Varint[q]) \in 1 .. k + 1
        <5>1. k + 1 \in 1 .. MaxBytes
          BY <4>1, Halves
        <5> QED
          BY <4>3, <5>1, VarintType
      <4>6. /\ Len(Varint[m]) = Len(Varint[q]) + 1 /\ Varint[m][1] = b + More
            /\ \A x \in 1 .. Len(Varint[q]) : Varint[m][x + 1] = Varint[q][x]
        <5>1. Varint[m \div More] \in Seq(Nat) /\ Len(Varint[m \div More]) > 0
          BY <4>2, <4>5
        <5> QED
          BY <3>2, <4>2, <4>4, <5>1, VarintOfMore
      <4>7. CASE j > Len(data)
        <5>1. from[j] = Error
          BY <1>1, <4>7
        <5>2. ~(j + Len(Varint[m]) <= Len(data) + 1)
          BY <4>1, <4>5, <4>6, <4>7, SMTT(30)
        <5> QED
          BY <5>1, <5>2, Zenon
      <4>8. CASE j <= Len(data)
        <5>1. data[j] = b + More
          <6>1. 1 \in 1 .. Len(Varint[m]) /\ j + 1 - 1 = j
            BY <4>5, <4>6
          <6> QED
            BY <2>1, <4>6, <4>8, <6>1, Zenon DEF Stands
        <5>2. Stands(data, j + 1, Varint[q])
          <6> SUFFICES ASSUME NEW x \in 1 .. Len(Varint[q]), (j + 1) + x - 1 <= Len(data)
                       PROVE  data[(j + 1) + x - 1] = Varint[q][x]
            BY DEF Stands
          <6>1. x + 1 \in 1 .. Len(Varint[m]) /\ (j + 1) + x - 1 = j + (x + 1) - 1
            <7>1. PICK l \in Nat : l = Len(Varint[q]) /\ x \in 1 .. l
              BY <4>5
            <7>2. Len(Varint[m]) = l + 1
              BY <4>6, <7>1
            <7>3. j \in Nat
              BY <4>1
            <7>4. x + 1 \in 1 .. l + 1 /\ (j + 1) + x - 1 = j + (x + 1) - 1
              BY <7>1, <7>3, SMTT(30)
            <7> QED
              BY <7>2, <7>4
          <6>2. data[(j + 1) + x - 1] = Varint[m][x + 1]
            BY <2>1, <6>1, Zenon DEF Stands
          <6> QED
            BY <4>6, <6>2
        <5>3. from[j + 1] = Reading(j + 1, q)
          <6>1. (j + 1) + k + 1 = i + MaxBytes /\ j + 1 <= Len(data) + 1
            BY <2>1, <4>1, <4>8
          <6> HIDE DEF Reading
          <6> QED
            BY <1>4, <4>1, <4>3, <5>2, <6>1
        <5>4. ~(data[j] < More) /\ ~(j > Len(data)) /\ data[j] % More = b
          BY <4>1, <4>2, <4>8, <5>1, Halves
        <5>5. (j + 1) + Len(Varint[q]) = j + Len(Varint[m])
          <6>1. PICK l \in Nat : l = Len(Varint[q])
            BY <4>5
          <6>2. Len(Varint[m]) = l + 1
            BY <4>6, <6>1, Zenon
          <6>3. (j + 1) + l = j + (l + 1)
            BY <4>1
          <6> QED
            BY <6>1, <6>2, <6>3, Zenon
        <5>6. from[j] = IF from[j + 1].ok
                        THEN [ok |-> TRUE, n |-> (from[j + 1].n * More + b) % Limit, next |-> from[j + 1].next]
                        ELSE from[j + 1]
          <6>1. from[j] = IF j > Len(data) THEN Error
                          ELSE IF data[j] < More
                          THEN [ok |-> TRUE, n |-> data[j], next |-> j + 1]
                          ELSE IF from[j + 1].ok
                          THEN [ok |-> TRUE, n |-> (from[j + 1].n * More + (data[j] % More)) % Limit,
                                next |-> from[j + 1].next]
                          ELSE from[j + 1]
            BY <1>1
          <6> QED
            BY <5>4, <6>1
        <5>7. CASE j + Len(Varint[m]) <= Len(data) + 1
          <6>1. from[j + 1] = [ok |-> TRUE, n |-> q, next |-> j + Len(Varint[m])]
            BY <5>3, <5>5, <5>7
          <6>2. PICK v : v = (q * More + b) % Limit
            OBVIOUS
          <6>3. PICK end : end = j + Len(Varint[m])
            OBVIOUS
          <6>4. from[j] = [ok |-> TRUE, n |-> v, next |-> end]
            <7>1. from[j + 1] = [ok |-> TRUE, n |-> q, next |-> end]
              BY <6>1, <6>3
            <7>2. from[j + 1].ok /\ from[j + 1].n = q /\ from[j + 1].next = end
              BY <7>1
            <7>3. from[j] = [ok |-> TRUE, n |-> (from[j + 1].n * More + b) % Limit, next |-> from[j + 1].next]
              BY <5>6, <7>2
            <7> QED
              BY <6>2, <7>2, <7>3, Zenon
          <6>5. v = m
            <7>1. PICK l \in Nat : l = Limit /\ m < l
              BY <4>4, Halves
            <7>2. m % l = m
              BY <7>1
            <7> QED
              BY <4>2, <6>2, <7>1, <7>2
          <6> QED
            BY <5>7, <6>3, <6>4, <6>5, Zenon
        <5>8. CASE ~(j + Len(Varint[m]) <= Len(data) + 1)
          <6>1. from[j + 1] = Error
            BY <5>3, <5>5, <5>8
          <6>2. from[j] = Error
            BY <5>6, <6>1 DEF Error
          <6> QED
            BY <5>8, <6>2
        <5> QED
          BY <5>7, <5>8
      <4> QED
        BY <4>1, <4>7, <4>8
    <3> QED
      BY <3>1, <3>2, Halves
  <2> HIDE DEF Reading
  <2> QED
    BY <2>1
<1>5. Nat \subseteq T
  <2> HIDE DEF T
  <2> QED
    BY <1>3, <1>4, Induction
<1>6. MaxBytes - 1 \in T
  <2>1. MaxBytes - 1 \in Nat
    BY Halves
  <2> HIDE DEF T
  <2> QED
    BY <1>5, <2>1
<1>7. /\ i \in i .. i + MaxBytes - 1 /\ i + (MaxBytes - 1) + 1 = i + MaxBytes
      /\ (MaxBytes - 1) + 1 = MaxBytes /\ n \in Nat /\ n < Bound(MaxBytes)
  BY Bounds, Halves
<1>8. from[i] = Reading(i, n)
  <2> HIDE DEF Reading
  <2> QED
    BY <1>6, <1>7
<1> QED
  BY <1>1, <1>8

(* Whatever stands there, a number that is read ends behind where it began.    *)
LEMMA ReadType ==
    ASSUME NEW data \in Seq(Nat), NEW i \in Nat \ {0}
    PROVE  \/ ReadVarint(data, i) = Error
           \/ \E n \in 0 .. Limit - 1, next \in i + 1 .. Len(data) + 1 :
                 ReadVarint(data, i) = [ok |-> TRUE, n |-> n, next |-> next]
<1>1. PICK from : /\ ReadVarint(data, i) = from[i]
                  /\ from[i + MaxBytes] = Error
                  /\ \A j \in i .. i + MaxBytes - 1 :
                        from[j] = IF j > Len(data) THEN Error
                                  ELSE IF data[j] < More
                                  THEN [ok |-> TRUE, n |-> data[j], next |-> j + 1]
                                  ELSE IF from[j + 1].ok
                                  THEN [ok |-> TRUE, n |-> (from[j + 1].n * More + (data[j] % More)) % Limit,
                                        next |-> from[j + 1].next]
                                  ELSE from[j + 1]
  BY ReadSteps
<1> DEFINE Good(j, r) == \/ r = Error
                         \/ \E n \in 0 .. Limit - 1, next \in j + 1 .. Len(data) + 1 :
                               r = [ok |-> TRUE, n |-> n, next |-> next]
           T == {k \in Nat : k <= MaxBytes => Good(i + MaxBytes - k, from[i + MaxBytes - k])}
<1>2. 0 \in T
  <2>1. i + MaxBytes - 0 = i + MaxBytes
    BY Halves
  <2> QED
    BY <1>1, <2>1
<1>3. ASSUME NEW k \in Nat, k \in T PROVE k + 1 \in T
  <2> SUFFICES ASSUME k + 1 <= MaxBytes PROVE Good(i + MaxBytes - (k + 1), from[i + MaxBytes - (k + 1)])
    OBVIOUS
  <2>1. PICK j \in i .. i + MaxBytes - 1 : j = i + MaxBytes - (k + 1) /\ j + 1 = i + MaxBytes - k
    BY Halves
  <2>2. Good(j + 1, from[j + 1])
    <3>1. k <= MaxBytes
      BY Halves
    <3> HIDE DEF Good
    <3> QED
      BY <1>3, <2>1, <3>1
  <2>3. from[j] = IF j > Len(data) THEN Error
                  ELSE IF data[j] < More
                  THEN [ok |-> TRUE, n |-> data[j], next |-> j + 1]
                  ELSE IF from[j + 1].ok
                  THEN [ok |-> TRUE, n |-> (from[j + 1].n * More + (data[j] % More)) % Limit,
                        next |-> from[j + 1].next]
                  ELSE from[j + 1]
    BY <1>1
  <2>4. j \in Nat /\ Len(data) \in Nat
    BY <2>1, Halves
  <2>5. CASE j > Len(data)
    BY <2>1, <2>3, <2>5
  <2>6. CASE j <= Len(data) /\ data[j] < More
    <3>1. data[j] \in 0 .. Limit - 1 /\ j + 1 \in j + 1 .. Len(data) + 1
      BY <2>1, <2>4, <2>6, Halves, SMTT(30)
    <3>2. from[j] = [ok |-> TRUE, n |-> data[j], next |-> j + 1]
      BY <2>3, <2>4, <2>6
    <3> QED
      BY <2>1, <3>1, <3>2
  <2>7. CASE j <= Len(data) /\ ~(data[j] < More)
    <3>1. from[j] = IF from[j + 1].ok
                    THEN [ok |-> TRUE, n |-> (from[j + 1].n * More + (data[j] % More)) % Limit,
                          next |-> from[j + 1].next]
                    ELSE from[j + 1]
      BY <2>3, <2>4, <2>7
    <3>2. CASE from[j + 1] = Error
      BY <2>1, <3>1, <3>2 DEF Error
    <3>3. CASE \E n \in 0 .. Limit - 1, next \in (j + 1) + 1 .. Len(data) + 1 :
                  from[j + 1] = [ok |-> TRUE, n |-> n, next |-> next]
      <4>1. PICK n \in 0 .. Limit - 1, next \in (j + 1) + 1 .. Len(data) + 1 :
                  from[j + 1] = [ok |-> TRUE, n |-> n, next |-> next]
        BY <3>3
      <4>2. PICK v : v = (n * More + (data[j] % More)) % Limit
        OBVIOUS
      <4>3. v \in 0 .. Limit - 1
        <5>1. data[j] \in Nat
          <6>1. j \in 1 .. Len(data)
            BY <2>1, <2>4, <2>7, Halves
          <6> QED
            BY <6>1
        <5>2. PICK m \in Nat \ {0}, l \in Nat \ {0} : m = More /\ l = Limit
          <6>1. More \in Nat \ {0} /\ Limit \in Nat \ {0}
            BY Halves
          <6> QED
            BY <6>1
        <5>3. n * m \in Nat /\ data[j] % m \in Nat
          BY <5>1, <5>2
        <5>4. PICK x \in Nat : x = n * m + (data[j] % m)
          BY <5>3, SMTT(30)
        <5>5. x % l \in 0 .. l - 1
          OBVIOUS
        <5> QED
          BY <4>2, <5>2, <5>4, <5>5
      <4>4. from[j] = [ok |-> TRUE, n |-> v, next |-> next]
        <5>1. from[j + 1].ok /\ from[j + 1].n = n /\ from[j + 1].next = next
          BY <4>1
        <5>2. from[j] = [ok |-> TRUE, n |-> (from[j + 1].n * More + (data[j] % More)) % Limit,
                         next |-> from[j + 1].next]
          BY <3>1, <5>1
        <5> QED
          BY <4>2, <5>1, <5>2, Zenon
      <4>5. next \in j + 1 .. Len(data) + 1
        BY <2>4
      <4> QED
        BY <2>1, <4>3, <4>4, <4>5
    <3> QED
      BY <2>2, <3>2, <3>3
  <2>8. j > Len(data) \/ (j <= Len(data) /\ (data[j] < More \/ ~(data[j] < More)))
    BY <2>4
  <2> QED
    BY <2>5, <2>6, <2>7, <2>8, Zenon
<1>4. Nat \subseteq T
  <2> HIDE DEF T
  <2> QED
    BY <1>2, <1>3, Induction
<1>5. MaxBytes \in T /\ MaxBytes <= MaxBytes /\ i + MaxBytes - MaxBytes = i
  <2> HIDE DEF T
  <2> QED
    BY <1>4, Halves
<1>6. Good(i, from[i])
  <2> HIDE DEF Good
  <2> QED
    BY <1>5
<1> QED
  BY <1>1, <1>6

--------------------------------------------------------------------------------
(* Byte strings behind a number, and what follows them.                        *)
LEMMA StandsConcat ==
    ASSUME NEW data \in Seq(Nat), NEW i \in Nat, NEW s \in Seq(Nat), NEW t \in Seq(Nat),
           Stands(data, i, s \o t)
    PROVE  Stands(data, i, s) /\ Stands(data, i + Len(s), t)
<1>1. /\ Len(s) \in Nat /\ Len(t) \in Nat /\ Len(s \o t) = Len(s) + Len(t)
      /\ \A n \in 1 .. Len(s) : (s \o t)[n] = s[n]
      /\ \A n \in 1 .. Len(t) : (s \o t)[Len(s) + n] = t[n]
  BY Concat
<1>2. ASSUME NEW k \in 1 .. Len(s), i + k - 1 <= Len(data) PROVE data[i + k - 1] = s[k]
  <2>1. k \in 1 .. Len(s \o t)
    BY <1>1
  <2> QED
    BY <1>1, <1>2, <2>1 DEF Stands
<1>3. ASSUME NEW k \in 1 .. Len(t), (i + Len(s)) + k - 1 <= Len(data)
      PROVE  data[(i + Len(s)) + k - 1] = t[k]
  <2>1. Len(s) + k \in 1 .. Len(s \o t) /\ (i + Len(s)) + k - 1 = i + (Len(s) + k) - 1
    BY <1>1
  <2>2. data[(i + Len(s)) + k - 1] = (s \o t)[Len(s) + k]
    BY <1>3, <2>1, Zenon DEF Stands
  <2> QED
    BY <1>1, <2>2
<1> QED
  BY <1>2, <1>3 DEF Stands

(* A small number is its own signed value.                                     *)
LEMMA SignedType ==
    /\ \A n \in Int : Signed(n) \in Int
    /\ \A n \in 0 .. Pow2[Word - 1] - 1 : Signed(n) = n
<1>1. PICK h \in Nat \ {0}, l \in Nat \ {0} : h = Pow2[Word - 1] /\ l = Limit /\ l = 2 * h
  BY Halves
<1>2. ASSUME NEW n \in Int PROVE n % l \in 0 .. l - 1
  OBVIOUS
<1>3. ASSUME NEW n \in 0 .. h - 1 PROVE n % l = n
  BY <1>1
<1>4. ASSUME NEW n \in Int PROVE Signed(n) \in Int
  <2>1. PICK m \in 0 .. l - 1 : m = n % Limit
    BY <1>1, <1>2
  <2> QED
    BY <1>1, <2>1 DEF Signed
<1>5. ASSUME NEW n \in 0 .. h - 1 PROVE Signed(n) = n
  <2>1. n % Limit = n /\ n < Pow2[Word - 1]
    BY <1>1, <1>3
  <2> QED
    BY <2>1 DEF Signed
<1> QED
  BY <1>1, <1>4, <1>5

(* A slice that the data holds, one that it does not, and any other.           *)
LEMMA SliceWhole ==
    ASSUME NEW data \in Seq(Nat), Held(data), NEW i \in 1 .. Len(data) + 1,
           NEW n \in Nat, i + n <= Len(data) + 1
    PROVE  Slice(data, i, n) = [ok |-> TRUE, value |-> SubSeq(data, i, i + n - 1), next |-> i + n]
<1>1. PICK h \in Nat : h = Pow2[Word - 1]
  BY Halves
<1>2. Len(data) \in Nat /\ Len(data) < h
  BY <1>1 DEF Held
<1>3. n \in 0 .. h - 1 /\ i - 1 + n \in 0 .. h - 1
  BY <1>2
<1>4. Signed(n) = n /\ Signed(i - 1 + n) = i - 1 + n
  BY <1>1, <1>3, SignedType
<1>5. PICK end \in Nat : end = Signed(i - 1 + Signed(n)) + 1
  BY <1>3, <1>4
<1>6. end = i + n /\ ~(end - 1 > Len(data)) /\ ~(end < i)
  BY <1>2, <1>3, <1>4, <1>5
<1>7. Slice(data, i, n) = [ok |-> TRUE, value |-> SubSeq(data, i, end - 1), next |-> end]
  BY <1>5, <1>6 DEF Slice
<1> QED
  BY <1>6, <1>7

LEMMA SliceCut ==
    ASSUME NEW data \in Seq(Nat), NEW i \in 1 .. Len(data) + 1, NEW n \in Nat,
           i + n > Len(data) + 1, i + n <= Pow2[Word - 1]
    PROVE  Slice(data, i, n) = Error
<1>1. PICK h \in Nat : h = Pow2[Word - 1]
  BY Halves
<1>2. Len(data) \in Nat /\ n \in 0 .. h - 1 /\ i - 1 + n \in 0 .. h - 1
  BY <1>1
<1>3. Signed(n) = n /\ Signed(i - 1 + n) = i - 1 + n
  BY <1>1, <1>2, SignedType
<1>4. PICK end \in Nat : end = Signed(i - 1 + Signed(n)) + 1
  BY <1>2, <1>3
<1>5. end - 1 > Len(data)
  BY <1>2, <1>3, <1>4
<1> QED
  BY <1>4, <1>5 DEF Slice

LEMMA SliceType ==
    ASSUME NEW data \in Seq(Nat), NEW i \in 1 .. Len(data) + 1, NEW n \in Int
    PROVE  \/ Slice(data, i, n) = Error
           \/ Slice(data, i, n) = Panic
           \/ \E end \in i .. Len(data) + 1 :
                 Slice(data, i, n) = [ok |-> TRUE, value |-> SubSeq(data, i, end - 1), next |-> end]
<1>1. Signed(n) \in Int /\ Len(data) \in Nat
  BY SignedType, SMTT(30)
<1>2. i - 1 + Signed(n) \in Int
  BY <1>1
<1>3. Signed(i - 1 + Signed(n)) \in Int
  BY <1>2, SignedType
<1>4. PICK end \in Int : end = Signed(i - 1 + Signed(n)) + 1
  BY <1>3
<1>5. Slice(data, i, n) = IF end - 1 > Len(data) THEN Error
                          ELSE IF end < i THEN Panic
                          ELSE [ok |-> TRUE, value |-> SubSeq(data, i, end - 1), next |-> end]
  BY <1>4 DEF Slice
<1>6. CASE end - 1 > Len(data)
  BY <1>5, <1>6
<1>7. CASE ~(end - 1 > Len(data)) /\ end < i
  BY <1>5, <1>7
<1>8. CASE ~(end - 1 > Len(data)) /\ ~(end < i)
  <2>1. end \in i .. Len(data) + 1
    BY <1>1, <1>8
  <2>2. Slice(data, i, n) = [ok |-> TRUE, value |-> SubSeq(data, i, end - 1), next |-> end]
    BY <1>5, <1>8
  <2> QED
    BY <2>1, <2>2
<1> QED
  BY <1>6, <1>7, <1>8

(* The bytes of a string that stands in the data.                              *)
LEMMA Standing ==
    ASSUME NEW data \in Seq(Nat), NEW i \in 1 .. Len(data) + 1, NEW s \in Seq(Nat),
           Stands(data, i, s), i + Len(s) <= Len(data) + 1
    PROVE  SubSeq(data, i, i + Len(s) - 1) = s
<1> DEFINE end == i + Len(s) - 1
           t == SubSeq(data, i, end)
<1>1. Len(s) \in Nat /\ Len(data) \in Nat /\ end \in (i - 1) .. Len(data) /\ end - i + 1 = Len(s)
  OBVIOUS
<1> HIDE DEF end
<1>2. t \in Seq(Nat) /\ Len(t) = end - i + 1 /\ \A k \in 1 .. end - i + 1 : t[k] = data[k + i - 1]
  BY <1>1, SubSeqIs
<1> HIDE DEF t
<1>3. ASSUME NEW k \in 1 .. Len(s) PROVE t[k] = s[k]
  <2>1. k + i - 1 = i + k - 1 /\ i + k - 1 <= Len(data)
    BY <1>1 DEF end
  <2>2. t[k] = data[k + i - 1]
    BY <1>1, <1>2
  <2>3. data[i + k - 1] = s[k]
    BY <2>1, Zenon DEF Stands
  <2> QED
    BY <2>1, <2>2, <2>3
<1>4. t = s
  BY <1>1, <1>2, <1>3, SameSeq
<1> QED
  BY <1>4, Zenon DEF t, end

--------------------------------------------------------------------------------
(* A turn of pbParse.                                                          *)
ItemIs(field, value, next) ==
    [ok |-> TRUE, last |-> FALSE, field |-> field, value |-> value, next |-> next]

(* A turn that is not the last goes on further.                                *)
LEMMA ItemAdvances ==
    ASSUME NEW data \in Seq(Nat), NEW i \in 1 .. Len(data) + 1
    PROVE  \/ Item(data, i) \in {Error, Panic}
           \/ \E field, value : \E next \in i + 1 .. Len(data) + 1 :
                 Item(data, i) = ItemIs(field, value, next)
<1> DEFINE tag == ReadVarint(data, i)
           arg == ReadVarint(data, tag.next)
           bytes == Slice(data, arg.next, arg.n)
<1>0. Item(data, i) = ItemOf(tag, arg, bytes)
  BY DEF Item
<1> HIDE DEF tag
<1>1. CASE tag = Error
  BY <1>0, <1>1 DEF ItemOf, Error
<1>2. CASE \E n \in 0 .. Limit - 1, next \in i + 1 .. Len(data) + 1 :
              tag = [ok |-> TRUE, n |-> n, next |-> next]
  <2>1. PICK t \in 0 .. Limit - 1, j \in i + 1 .. Len(data) + 1 :
                tag = [ok |-> TRUE, n |-> t, next |-> j]
    BY <1>2
  <2>2. tag.ok /\ tag.n = t /\ tag.next = j
    BY <2>1
  <2>3. j \in Nat \ {0}
    OBVIOUS
  <2>4. arg = ReadVarint(data, j)
    BY <2>2
  <2> HIDE DEF arg
  <2>5. CASE arg = Error
    BY <1>0, <2>2, <2>5 DEF ItemOf, Error
  <2>6. CASE \E n \in 0 .. Limit - 1, next \in j + 1 .. Len(data) + 1 :
                arg = [ok |-> TRUE, n |-> n, next |-> next]
    <3>1. PICK v \in 0 .. Limit - 1, k \in j + 1 .. Len(data) + 1 :
                  arg = [ok |-> TRUE, n |-> v, next |-> k]
      BY <2>6
    <3>2. arg.ok /\ arg.n = v /\ arg.next = k
      BY <3>1
    <3>3. k \in 1 .. Len(data) + 1 /\ k \in i + 1 .. Len(data) + 1 /\ v \in Int
      BY Halves
    <3>4. bytes = Slice(data, k, v)
      BY <3>2
    <3> HIDE DEF bytes
    <3>5. CASE t % 8 \notin {0, 2}
      BY <1>0, <2>2, <3>5 DEF ItemOf
    <3>6. CASE t % 8 = 0
      <4>1. Item(data, i) = ItemIs(t \div 8, Signed(v), k)
        BY <1>0, <2>2, <3>2, <3>6 DEF ItemOf, ItemIs
      <4> QED
        BY <3>3, <4>1
    <3>7. CASE t % 8 = 2
      <4>1. CASE bytes \in {Error, Panic}
        BY <1>0, <2>2, <3>2, <3>7, <4>1 DEF ItemOf, Error, Panic
      <4>2. CASE \E end \in k .. Len(data) + 1 :
                    bytes = [ok |-> TRUE, value |-> SubSeq(data, k, end - 1), next |-> end]
        <5>1. PICK end \in k .. Len(data) + 1 :
                    bytes = [ok |-> TRUE, value |-> SubSeq(data, k, end - 1), next |-> end]
          BY <4>2
        <5>2. bytes.ok /\ bytes.value = SubSeq(data, k, end - 1) /\ bytes.next = end
          BY <5>1
        <5>3. Item(data, i) = ItemIs(t \div 8, bytes.value, end)
          BY <1>0, <2>2, <3>2, <3>7, <5>2 DEF ItemOf, ItemIs
        <5>4. end \in i + 1 .. Len(data) + 1
          BY <3>3
        <5> QED
          BY <5>3, <5>4
      <4>3. bytes \in {Error, Panic} \/ \E end \in k .. Len(data) + 1 :
                    bytes = [ok |-> TRUE, value |-> SubSeq(data, k, end - 1), next |-> end]
        BY <3>3, <3>4, SliceType, Zenon
      <4> QED
        BY <4>1, <4>2, <4>3
    <3> QED
      BY <3>5, <3>6, <3>7
  <2> QED
    BY <2>3, <2>4, <2>5, <2>6, ReadType
<1> QED
  BY <1>1, <1>2, ReadType DEF tag

(* A tag is one byte, and gives the field and the type back.                   *)
LEMMA TagIs ==
    ASSUME NEW f \in Fields, NEW type \in {0, 2}
    PROVE  \E t \in 0 .. Limit - 1 : /\ Tag(f, type) = Varint[t] /\ Tag(f, type) \in Seq(Nat)
                                     /\ Len(Tag(f, type)) = 1 /\ t % 8 = type /\ t \div 8 = f
<1>1. f \in Nat /\ 8 * f + 7 < More
  BY FieldsAssumption
<1>2. PICK t \in Nat : t = f * 8 + type
  BY <1>1
<1>3. t \in 0 .. More - 1 /\ t % 8 = type /\ t \div 8 = f
  BY <1>1, <1>2, Halves
<1>4. (f * 8 + type) % (2 * More) = t
  <2>1. PICK m \in Nat : m = 2 * More /\ t < m
    BY <1>3, Halves
  <2>2. t % m = t
    BY <2>1
  <2> QED
    BY <1>2, <2>1, <2>2
<1>5. Tag(f, type) = <<t>>
  BY <1>4 DEF Tag
<1>6. Varint[t] = <<t>> /\ t \in 0 .. Limit - 1
  BY <1>3, VarintOfOne
<1>7. <<t>> \in Seq(Nat) /\ Len(<<t>>) = 1
  OBVIOUS
<1> QED
  BY <1>3, <1>5, <1>6, <1>7

(* A field of a number is read if it came whole.                               *)
LEMMA VarRead ==
    ASSUME NEW data \in Seq(Nat), NEW i \in 1 .. Len(data) + 1,
           NEW f \in Fields, NEW v \in 0 .. Limit - 1, Stands(data, i, PbVar(f, v))
    PROVE  Item(data, i) = IF i + Len(PbVar(f, v)) <= Len(data) + 1
                           THEN ItemIs(f, Signed(v), i + Len(PbVar(f, v))) ELSE Error
<1> DEFINE tag == ReadVarint(data, i)
           arg == ReadVarint(data, tag.next)
           bytes == Slice(data, arg.next, arg.n)
<1>0. Item(data, i) = ItemOf(tag, arg, bytes)
  BY DEF Item
<1> HIDE DEF tag, bytes
<1>1. PICK t \in 0 .. Limit - 1 : /\ Tag(f, 0) = Varint[t] /\ Tag(f, 0) \in Seq(Nat)
                                  /\ Len(Tag(f, 0)) = 1 /\ t % 8 = 0 /\ t \div 8 = f
  BY TagIs
<1>2. PICK a \in Nat \ {0}, l \in Nat, k \in Nat : a = Len(Varint[v]) /\ l = Len(data) + 1 /\ k = i
  BY VarintLength
<1>3. k \in 1 .. l
  BY <1>2
<1>4. Len(PbVar(f, v)) = 1 + a
  <2>1. Len(Tag(f, 0) \o Varint[v]) = Len(Tag(f, 0)) + Len(Varint[v])
    BY <1>1, VarintLength, Concat
  <2> QED
    BY <1>1, <1>2, <2>1 DEF PbVar
<1>5. Stands(data, k, Varint[t]) /\ Stands(data, k + 1, Varint[v])
  <2>1. Stands(data, i, Tag(f, 0)) /\ Stands(data, i + Len(Tag(f, 0)), Varint[v])
    BY <1>1, VarintLength, StandsConcat DEF PbVar
  <2> QED
    BY <1>1, <1>2, <2>1
<1>6. tag = IF k + 1 <= l THEN [ok |-> TRUE, n |-> t, next |-> k + 1] ELSE Error
  <2>1. tag = IF k + Len(Varint[t]) <= Len(data) + 1
              THEN [ok |-> TRUE, n |-> t, next |-> k + Len(Varint[t])] ELSE Error
    BY <1>2, <1>3, <1>5, NumberRead DEF tag
  <2>2. Len(Varint[t]) = 1
    BY <1>1
  <2> QED
    BY <1>2, <2>1, <2>2, Zenon
<1>7. CASE ~(k + 1 <= l)
  <2>1. tag = Error
    BY <1>6, <1>7
  <2>2. Item(data, i) = Error
    BY <1>0, <2>1 DEF ItemOf, Error
  <2>3. ~(k + (1 + a) <= l)
    BY <1>2, <1>7
  <2> QED
    BY <1>2, <1>4, <2>2, <2>3
<1>8. CASE k + 1 <= l
  <2>1. tag = [ok |-> TRUE, n |-> t, next |-> k + 1]
    BY <1>6, <1>8
  <2>2. tag.ok /\ tag.n = t /\ tag.next = k + 1
    BY <2>1
  <2>3. arg = IF (k + 1) + a <= l THEN [ok |-> TRUE, n |-> v, next |-> (k + 1) + a] ELSE Error
    <3>1. k + 1 \in Nat \ {0} /\ k + 1 <= Len(data) + 1
      BY <1>2, <1>8
    <3>2. arg = IF (k + 1) + Len(Varint[v]) <= Len(data) + 1
                THEN [ok |-> TRUE, n |-> v, next |-> (k + 1) + Len(Varint[v])] ELSE Error
      BY <1>5, <2>2, <3>1, NumberRead
    <3> HIDE DEF arg
    <3> QED
      BY <1>2, <3>2, Zenon
  <2>4. (k + 1) + a = k + (1 + a)
    OBVIOUS
  <2> HIDE DEF arg
  <2>5. CASE k + (1 + a) <= l
    <3>1. arg = [ok |-> TRUE, n |-> v, next |-> k + (1 + a)]
      BY <2>3, <2>4, <2>5, Zenon
    <3>2. arg.ok /\ arg.n = v /\ arg.next = k + (1 + a)
      BY <3>1
    <3>3. Item(data, i) = ItemIs(f, Signed(v), k + (1 + a))
      BY <1>0, <1>1, <2>2, <3>2 DEF ItemOf, ItemIs
    <3> QED
      BY <1>2, <1>4, <2>5, <3>3
  <2>6. CASE ~(k + (1 + a) <= l)
    <3>1. arg = Error
      BY <2>3, <2>4, <2>6, Zenon
    <3>2. Item(data, i) = Error
      BY <1>0, <2>2, <3>1 DEF ItemOf, Error
    <3> QED
      BY <1>2, <1>4, <2>6, <3>2
  <2> QED
    BY <2>5, <2>6
<1> QED
  BY <1>7, <1>8

(* The bytes of a field with a byte string.                                    *)
LEMMA LenBytes ==
    ASSUME NEW f \in Fields, NEW s \in Seq(Nat), Len(s) < Pow2[Word - 1]
    PROVE  /\ Len(s) \in 0 .. Limit - 1 /\ Varint[Len(s)] \in Seq(Nat)
           /\ Len(Varint[Len(s)]) \in Nat \ {0} /\ Varint[Len(s)] \o s \in Seq(Nat)
           /\ PbLen(f, s) = Tag(f, 2) \o (Varint[Len(s)] \o s)
           /\ PbLen(f, s) \in Seq(Nat) /\ Len(PbLen(f, s)) = 1 + Len(Varint[Len(s)]) + Len(s)
<1>1. Len(s) \in Nat /\ Len(s) \in 0 .. Limit - 1
  BY Halves
<1>2. PICK w \in Seq(Nat) : w = Varint[Len(s)] /\ Len(w) \in Nat \ {0}
  BY <1>1, VarintLength
<1>3. PICK t \in Seq(Nat) : t = Tag(f, 2) /\ Len(t) = 1
  BY TagIs
<1>4. w \o s \in Seq(Nat) /\ Len(w \o s) = Len(w) + Len(s)
  BY Concat
<1>5. (t \o w) \o s = t \o (w \o s)
  BY Associative, SMTT(30)
<1>6. t \o (w \o s) \in Seq(Nat) /\ Len(t \o (w \o s)) = 1 + Len(w) + Len(s)
  <2>1. t \o (w \o s) \in Seq(Nat) /\ Len(t \o (w \o s)) = Len(t) + Len(w \o s)
    BY <1>4, Concat
  <2>2. PICK a \in Nat, b \in Nat : a = Len(w) /\ b = Len(s)
    BY <1>1, <1>2
  <2>3. 1 + (a + b) = 1 + a + b
    OBVIOUS
  <2> QED
    BY <1>3, <1>4, <2>1, <2>2, <2>3, Zenon
<1>7. PbLen(f, s) = (t \o w) \o s
  BY <1>2, <1>3, Zenon DEF PbLen
<1> QED
  BY <1>1, <1>2, <1>3, <1>4, <1>5, <1>6, <1>7

(* So is a byte string.                                                        *)
LEMMA LenRead ==
    ASSUME NEW data \in Seq(Nat), Held(data), NEW i \in 1 .. Len(data) + 1,
           NEW f \in Fields, NEW s \in Seq(Nat), i + Len(PbLen(f, s)) <= Pow2[Word - 1],
           Len(s) < Pow2[Word - 1], Stands(data, i, PbLen(f, s))
    PROVE  Item(data, i) = IF i + Len(PbLen(f, s)) <= Len(data) + 1
                           THEN ItemIs(f, s, i + Len(PbLen(f, s))) ELSE Error
<1> DEFINE tag == ReadVarint(data, i)
           arg == ReadVarint(data, tag.next)
           bytes == Slice(data, arg.next, arg.n)
<1>0. Item(data, i) = ItemOf(tag, arg, bytes)
  BY DEF Item
<1> HIDE DEF tag, bytes
<1>1. PICK t \in 0 .. Limit - 1 : /\ Tag(f, 2) = Varint[t] /\ Tag(f, 2) \in Seq(Nat)
                                  /\ Len(Tag(f, 2)) = 1 /\ t % 8 = 2 /\ t \div 8 = f
  BY TagIs
<1>2. PICK c \in Nat : c = Len(s)
  OBVIOUS
<1>3. PICK a \in Nat \ {0}, l \in Nat, k \in Nat : a = Len(Varint[c]) /\ l = Len(data) + 1 /\ k = i
  <2>1. Len(Varint[c]) \in Nat \ {0}
    BY <1>2, LenBytes
  <2> QED
    BY <2>1
<1>4. k \in 1 .. l
  BY <1>3
<1>5. Len(PbLen(f, s)) = 1 + a + c /\ k + (1 + a + c) <= Pow2[Word - 1]
  BY <1>2, <1>3, LenBytes
<1>6. Stands(data, k, Varint[t]) /\ Stands(data, k + 1, Varint[c]) /\ Stands(data, (k + 1) + a, s)
  <2>1. Varint[c] \in Seq(Nat) /\ Varint[c] \o s \in Seq(Nat)
    BY <1>2, LenBytes
  <2>2. Stands(data, k, Tag(f, 2) \o (Varint[c] \o s))
    BY <1>2, <1>3, LenBytes
  <2>3. Stands(data, k, Tag(f, 2)) /\ Stands(data, k + Len(Tag(f, 2)), Varint[c] \o s)
    BY <1>1, <2>1, <2>2, StandsConcat
  <2>4. k + 1 \in Nat
    OBVIOUS
  <2>5. Stands(data, k + 1, Varint[c] \o s)
    BY <1>1, <2>3, Zenon
  <2>6. Stands(data, k + 1, Varint[c]) /\ Stands(data, (k + 1) + Len(Varint[c]), s)
    BY <2>1, <2>4, <2>5, StandsConcat
  <2> QED
    BY <1>1, <1>3, <2>3, <2>6, Zenon
<1>7. tag = IF k + 1 <= l THEN [ok |-> TRUE, n |-> t, next |-> k + 1] ELSE Error
  <2>1. tag = IF k + Len(Varint[t]) <= Len(data) + 1
              THEN [ok |-> TRUE, n |-> t, next |-> k + Len(Varint[t])] ELSE Error
    BY <1>3, <1>4, <1>6, NumberRead DEF tag
  <2>2. Len(Varint[t]) = 1
    BY <1>1
  <2> QED
    BY <1>3, <2>1, <2>2, Zenon
<1>8. CASE ~(k + 1 <= l)
  <2>1. tag = Error
    BY <1>7, <1>8
  <2>2. Item(data, i) = Error
    BY <1>0, <2>1 DEF ItemOf, Error
  <2>3. ~(k + (1 + a + c) <= l)
    BY <1>2, <1>3, <1>8
  <2> QED
    BY <1>3, <1>5, <2>2, <2>3
<1>9. CASE k + 1 <= l
  <2>1. tag = [ok |-> TRUE, n |-> t, next |-> k + 1]
    BY <1>7, <1>9
  <2>2. tag.ok /\ tag.n = t /\ tag.next = k + 1
    BY <2>1
  <2>3. PICK j \in Nat : j = (k + 1) + a /\ k + (1 + a + c) = j + c
    OBVIOUS
  <2>4. arg = IF j <= l THEN [ok |-> TRUE, n |-> c, next |-> j] ELSE Error
    <3>1. k + 1 \in Nat \ {0} /\ k + 1 <= Len(data) + 1
      BY <1>3, <1>9
    <3>2. arg = IF (k + 1) + Len(Varint[c]) <= Len(data) + 1
                THEN [ok |-> TRUE, n |-> c, next |-> (k + 1) + Len(Varint[c])] ELSE Error
      <4>1. c \in 0 .. Limit - 1
        BY <1>2, LenBytes
      <4>2. ReadVarint(data, k + 1) = IF (k + 1) + Len(Varint[c]) <= Len(data) + 1
                THEN [ok |-> TRUE, n |-> c, next |-> (k + 1) + Len(Varint[c])] ELSE Error
        BY <1>6, <3>1, <4>1, NumberRead
      <4> QED
        BY <2>2, <4>2, Zenon
    <3> HIDE DEF arg
    <3> QED
      BY <1>3, <2>3, <3>2, Zenon
  <2> HIDE DEF arg
  <2>5. CASE j <= l
    <3>1. arg = [ok |-> TRUE, n |-> c, next |-> j]
      BY <2>4, <2>5, Zenon
    <3>2. arg.ok /\ arg.n = c /\ arg.next = j
      BY <3>1
    <3>3. bytes = Slice(data, j, c) /\ j \in 1 .. Len(data) + 1
      <4>1. j \in 1 .. l
        BY <2>3, <2>5
      <4> QED
        BY <1>3, <3>2, <4>1, Zenon DEF bytes
    <3>4. CASE j + c <= l
      <4>1. bytes = [ok |-> TRUE, value |-> SubSeq(data, j, j + c - 1), next |-> j + c]
        BY <1>2, <1>3, <3>3, <3>4, SliceWhole
      <4>2. SubSeq(data, j, j + c - 1) = s
        <5>1. Stands(data, j, s) /\ j + Len(s) <= Len(data) + 1
          BY <1>2, <1>3, <1>6, <2>3, <3>4, Zenon
        <5>2. SubSeq(data, j, j + Len(s) - 1) = s
          BY <3>3, <5>1, Standing
        <5> QED
          BY <1>2, <5>2, Zenon
      <4>3. bytes.ok /\ bytes.value = s /\ bytes.next = j + c
        BY <4>1, <4>2
      <4>4. Item(data, i) = ItemIs(f, s, j + c)
        <5>1. tag.n % 8 \in {0, 2} /\ tag.n % 8 # 0 /\ tag.n \div 8 = f
          BY <1>1, <2>2
        <5> QED
          BY <1>0, <2>2, <3>2, <4>3, <5>1, Zenon DEF ItemOf, ItemIs
      <4> QED
        BY <1>3, <1>5, <2>3, <3>4, <4>4
    <3>5. CASE ~(j + c <= l)
      <4>1. bytes = Error
        <5>1. j + c > l
          BY <3>5
        <5>2. j + c > Len(data) + 1 /\ j + c <= Pow2[Word - 1]
          BY <1>3, <1>5, <2>3, <5>1, Zenon
        <5> QED
          BY <1>2, <3>3, <5>2, SliceCut
      <4>2. Item(data, i) = Error
        BY <1>0, <1>1, <2>2, <3>2, <4>1 DEF ItemOf, Error
      <4> QED
        BY <1>3, <1>5, <2>3, <3>5, <4>2
    <3> QED
      BY <3>4, <3>5
  <2>6. CASE ~(j <= l)
    <3>1. arg = Error
      BY <2>4, <2>6, Zenon
    <3>2. Item(data, i) = Error
      BY <1>0, <2>2, <3>1 DEF ItemOf, Error
    <3>3. ~(j + c <= l)
      BY <2>6
    <3> QED
      BY <1>3, <1>5, <2>3, <3>2, <3>3
  <2> QED
    BY <2>5, <2>6
<1> QED
  BY <1>8, <1>9

(* Every element of a loop says where the next one begins, further on.         *)
Advances(elements, n) ==
    /\ DOMAIN elements = 1 .. n
    /\ \A j \in 1 .. n : ~elements[j].last => elements[j].next \in j + 1 .. n

(* A loop that goes on further with every turn is its first turn and the rest. *)
LEMMA ChainSteps ==
    ASSUME NEW n \in Nat, NEW elements, Advances(elements, n)
    PROVE  \A j \in 1 .. n :
              Chain(elements, j) = <<elements[j]>> \o (IF elements[j].last THEN <<>>
                                                       ELSE Chain(elements, elements[j].next))
<1> DEFINE Step(f, j) == <<elements[j]>> \o (IF elements[j].last THEN <<>> ELSE f[elements[j].next])
           Known(f, m) == f = [j \in n - m + 1 .. n |-> Step(f, j)]
           T == {m \in Nat : m <= n => \E f : Known(f, m)}
<1>1. 0 \in T
  <2>1. Known([j \in n - 0 + 1 .. n |-> <<>>], 0)
    <3>1. \A j \in n - 0 + 1 .. n : FALSE
      OBVIOUS
    <3> HIDE DEF Step
    <3> QED
      BY <3>1
  <2> QED
    BY <2>1
<1>2. ASSUME NEW m \in Nat, m \in T PROVE m + 1 \in T
  <2> HIDE DEF Known
  <2> SUFFICES ASSUME m + 1 <= n PROVE \E f : Known(f, m + 1)
    OBVIOUS
  <2> USE DEF Known
  <2>1. PICK f : Known(f, m)
    <3>1. m <= n
      OBVIOUS
    <3> HIDE DEF Known
    <3> QED
      BY <1>2, <3>1
  <2> DEFINE g == [j \in n - (m + 1) + 1 .. n |-> Step(f, j)]
  <2>2. \A j \in n - (m + 1) + 1 .. n : Step(g, j) = Step(f, j)
    <3>1. \A j \in n - m + 1 .. n : g[j] = f[j]
      <4>1. \A j \in n - m + 1 .. n : j \in n - (m + 1) + 1 .. n
        OBVIOUS
      <4> HIDE DEF Step
      <4> QED
        BY <2>1, <4>1
    <3>2. ASSUME NEW j \in n - (m + 1) + 1 .. n, ~elements[j].last
          PROVE  elements[j].next \in n - m + 1 .. n
      <4>1. j \in 1 .. n
        OBVIOUS
      <4>2. elements[j].next \in j + 1 .. n
        BY <3>2, <4>1 DEF Advances
      <4> QED
        BY <4>2
    <3> HIDE DEF g
    <3> QED
      BY <3>1, <3>2
  <2>3. Known(g, m + 1)
    <3> HIDE DEF Step
    <3> QED
      BY <2>2
  <2> HIDE DEF Known
  <2> QED
    BY <2>3
<1>3. n \in T
  <2> HIDE DEF T
  <2> QED
    BY <1>1, <1>2, Induction
<1>4. n - n + 1 = 1 /\ n <= n
  OBVIOUS
<1> DEFINE from == CHOOSE f : f = [j \in DOMAIN elements |-> Step(f, j)]
<1>5. from = [j \in 1 .. n |-> Step(from, j)]
  <2>1. \E f : f = [j \in 1 .. n |-> Step(f, j)]
    BY <1>3, <1>4
  <2>2. DOMAIN elements = 1 .. n
    BY DEF Advances
  <2> HIDE DEF Step
  <2> QED
    BY <2>1, <2>2
<1>6. \A j : Chain(elements, j) = from[j]
  BY DEF Chain
<1>7. \A j \in 1 .. n : from[j] = Step(from, j)
  <2> HIDE DEF from, Step
  <2> QED
    BY <1>5
<1> HIDE DEF from
<1> QED
  BY <1>6, <1>7

(* One element, and those from the next one on.                                *)
LEMMA Prepended ==
    ASSUME NEW R, NEW e \in R, NEW c \in Seq(R)
    PROVE  /\ <<e>> \o c \in Seq(R) /\ Len(c) \in Nat /\ Len(<<e>> \o c) = Len(c) + 1
           /\ (<<e>> \o c)[1] = e
           /\ \A k \in 1 .. Len(c) : (<<e>> \o c)[k + 1] = c[k]
<1>1. <<e>> \in Seq(R) /\ Len(<<e>>) = 1 /\ <<e>>[1] = e
  OBVIOUS
<1>2. /\ <<e>> \o c \in Seq(R) /\ Len(c) \in Nat /\ Len(<<e>> \o c) = Len(<<e>>) + Len(c)
      /\ \A k \in 1 .. Len(<<e>>) : (<<e>> \o c)[k] = <<e>>[k]
      /\ \A k \in 1 .. Len(c) : (<<e>> \o c)[Len(<<e>>) + k] = c[k]
  BY <1>1, Concat
<1>3. 1 \in 1 .. Len(<<e>>) /\ 1 + Len(c) = Len(c) + 1 /\ \A k \in 1 .. Len(c) : 1 + k = k + 1
  BY <1>1, <1>2
<1> QED
  BY <1>1, <1>2, <1>3, Zenon

(* The elements along a path of m positions.                                   *)
Path(elements, n, p, m) ==
    /\ p \in [1 .. m -> 1 .. n]
    /\ \A k \in 1 .. m - 1 : ~elements[p[k]].last /\ elements[p[k]].next = p[k + 1]
    /\ elements[p[m]].last

Along(elements, p, m) == [k \in 1 .. m |-> elements[p[k]]]

(* A loop follows the path of its turns.                                       *)
LEMMA ChainPath ==
    ASSUME NEW n \in Nat, NEW elements, Advances(elements, n),
           NEW m \in Nat \ {0}, NEW p, Path(elements, n, p, m)
    PROVE  Chain(elements, p[1]) = Along(elements, p, m)
<1>path. /\ p \in [1 .. m -> 1 .. n]
         /\ \A k \in 1 .. m - 1 : ~elements[p[k]].last /\ elements[p[k]].next = p[k + 1]
         /\ elements[p[m]].last
  BY DEF Path
<1> DEFINE R == {elements[j] : j \in 1 .. n}
           From(j) == [k \in 1 .. j + 1 |-> elements[p[m - j - 1 + k]]]
           T == {j \in Nat : j < m => Chain(elements, p[m - j]) = From(j)}
<1>00. \A j \in 1 .. n :
           Chain(elements, j) = <<elements[j]>> \o (IF elements[j].last THEN <<>>
                                                    ELSE Chain(elements, elements[j].next))
  BY ChainSteps
<1>0. \A j \in Nat : j < m => m - j \in 1 .. m /\ \A k \in 1 .. j + 1 : m - j - 1 + k \in 1 .. m
  OBVIOUS
<1>1. ASSUME NEW j \in Nat, j < m PROVE From(j) \in Seq(R)
  BY <1>0, <1>1, <1>path
<1>2. 0 \in T
  <2>1. Chain(elements, p[m]) = <<elements[p[m]]>> \o <<>>
    <3>1. m \in 1 .. m /\ p[m] \in 1 .. n
      BY <1>path
    <3>2. PICK j \in 1 .. n : j = p[m]
      BY <3>1
    <3>3. Chain(elements, j) = <<elements[j]>> \o (IF elements[j].last THEN <<>>
                                                  ELSE Chain(elements, elements[j].next))
      BY <1>00
    <3>4. elements[j].last
      BY <1>path, <3>2, Zenon
    <3>5. Chain(elements, j) = <<elements[j]>> \o <<>>
      BY <3>3, <3>4, Zenon
    <3> QED
      BY <3>2, <3>5, Zenon
  <2>2. From(0) = <<elements[p[m]]>>
    <3>1. m - 0 - 1 + 1 = m
      OBVIOUS
    <3> QED
      BY <3>1
  <2>3. <<elements[p[m]]>> \o <<>> = <<elements[p[m]]>>
    OBVIOUS
  <2>4. m - 0 = m
    OBVIOUS
  <2> HIDE DEF From
  <2> QED
    BY <2>1, <2>2, <2>3, <2>4
<1>3. ASSUME NEW j \in Nat, j \in T PROVE j + 1 \in T
  <2> SUFFICES ASSUME j + 1 < m PROVE Chain(elements, p[m - (j + 1)]) = From(j + 1)
    OBVIOUS
  <2>1. PICK a \in 1 .. m - 1 : a = m - (j + 1) /\ a + 1 = m - j
    OBVIOUS
  <2>2. Chain(elements, p[a + 1]) = From(j)
    <3>1. j < m
      OBVIOUS
    <3> HIDE DEF From
    <3> QED
      BY <1>3, <2>1, <3>1
  <2>3. a \in 1 .. m /\ p[a] \in 1 .. n
    BY <1>path, <2>1
  <2>4. Chain(elements, p[a]) = <<elements[p[a]]>> \o From(j)
    <3>1. ~elements[p[a]].last /\ elements[p[a]].next = p[a + 1]
      BY <1>path
    <3>2. Chain(elements, p[a]) = <<elements[p[a]]>> \o (IF elements[p[a]].last THEN <<>>
                                                       ELSE Chain(elements, elements[p[a]].next))
      BY <1>00, <2>3, Zenon
    <3> HIDE DEF From
    <3> QED
      BY <2>2, <3>1, <3>2, Zenon
  <2>5. From(j) \in Seq(R) /\ From(j + 1) \in Seq(R)
    <3>1. j < m /\ j + 1 \in Nat /\ j + 1 < m
      OBVIOUS
    <3> HIDE DEF From, R
    <3> QED
      BY <1>1, <3>1
  <2>6. elements[p[a]] \in R
    BY <2>3
  <2>7. Len(From(j)) = j + 1 /\ Len(From(j + 1)) = (j + 1) + 1
    OBVIOUS
  <2>8. From(j + 1)[1] = elements[p[a]]
    <3>1. m - (j + 1) - 1 + 1 = a /\ 1 \in 1 .. (j + 1) + 1
      BY <2>1
    <3> QED
      BY <3>1
  <2>9. \A k \in 1 .. j + 1 : From(j + 1)[k + 1] = From(j)[k]
    <3>1. \A k \in 1 .. j + 1 : m - (j + 1) - 1 + (k + 1) = m - j - 1 + k /\ k + 1 \in 1 .. (j + 1) + 1
      OBVIOUS
    <3> QED
      BY <3>1
  <2> HIDE DEF From, R
  <2>10. PICK c \in Seq(R), d \in Seq(R), e \in R : c = From(j) /\ d = From(j + 1) /\ e = elements[p[a]]
    BY <2>5, <2>6
  <2>11. /\ <<e>> \o c \in Seq(R) /\ Len(<<e>> \o c) = (j + 1) + 1 /\ (<<e>> \o c)[1] = e
         /\ \A k \in 1 .. j + 1 : (<<e>> \o c)[k + 1] = c[k]
    <3>1. Len(c) = j + 1
      BY <2>7, <2>10
    <3>2. /\ <<e>> \o c \in Seq(R) /\ Len(<<e>> \o c) = Len(c) + 1 /\ (<<e>> \o c)[1] = e
          /\ \A k \in 1 .. Len(c) : (<<e>> \o c)[k + 1] = c[k]
      BY <2>10, Prepended
    <3> QED
      BY <3>1, <3>2, Zenon
  <2>12. ASSUME NEW k \in 1 .. (j + 1) + 1 PROVE (<<e>> \o c)[k] = d[k]
    <3>1. k = 1 \/ (k - 1 \in 1 .. j + 1 /\ (k - 1) + 1 = k)
      OBVIOUS
    <3>2. CASE k = 1
      BY <2>8, <2>10, <2>11, <3>2, Zenon
    <3>3. CASE k - 1 \in 1 .. j + 1 /\ (k - 1) + 1 = k
      <4>1. (<<e>> \o c)[(k - 1) + 1] = c[k - 1] /\ d[(k - 1) + 1] = c[k - 1]
        BY <2>9, <2>10, <2>11, <3>3, Zenon
      <4> QED
        BY <3>3, <4>1, Zenon
    <3> QED
      BY <3>1, <3>2, <3>3, Zenon
  <2>13. <<e>> \o c = d
    <3>1. Len(<<e>> \o c) = Len(d) /\ \A k \in 1 .. Len(<<e>> \o c) : (<<e>> \o c)[k] = d[k]
      BY <2>7, <2>10, <2>11, <2>12, Zenon
    <3>2. PICK s \in Seq(R) : s = <<e>> \o c
      BY <2>11
    <3> QED
      BY <3>1, <3>2, SameSeq
  <2> QED
    BY <2>1, <2>4, <2>10, <2>13
<1>4. Nat \subseteq T
  <2> HIDE DEF T
  <2> QED
    BY <1>2, <1>3, Induction
<1>5. m - 1 \in Nat /\ m - 1 < m /\ m - (m - 1) = 1
  OBVIOUS
<1>6. Chain(elements, p[1]) = From(m - 1)
  <2>1. m - 1 \in T
    BY <1>4, <1>5
  <2> HIDE DEF From
  <2> QED
    BY <1>5, <2>1
<1>7. From(m - 1) = [k \in 1 .. m |-> elements[p[k]]]
  <2>1. (m - 1) + 1 = m /\ \A k \in 1 .. m : m - (m - 1) - 1 + k = k
    OBVIOUS
  <2> QED
    BY <2>1
<1> QED
  BY <1>6, <1>7 DEF Along

(* What is flattened, piece by piece.                                          *)
Joined(pieces, k) == FlattenSeq([i \in 1 .. k |-> pieces[i]])

(* The pieces of a sequence, put together one by one.                          *)
LEMMA JoinedSteps ==
    ASSUME NEW n \in Nat, NEW pieces, \A i \in 1 .. n : pieces[i] \in Seq(Nat)
    PROVE  /\ Joined(pieces, 0) = <<>>
           /\ \A k \in 1 .. n : Joined(pieces, k) = Joined(pieces, k - 1) \o pieces[k]
<1>1. Joined(pieces, 0) = <<>>
  <2>1. [i \in 1 .. 0 |-> pieces[i]] = <<>>
    OBVIOUS
  <2>2. Len(<<>>) = 0
    OBVIOUS
  <2> QED
    BY <2>1, <2>2 DEF Joined, FlattenSeq
<1> DEFINE Sums(f, k) == /\ Joined(pieces, k) = f[k] /\ f[1] = pieces[1]
                         /\ \A i \in 2 .. k : f[i] = f[i - 1] \o pieces[i]
<1>2. ASSUME NEW k \in 1 .. n PROVE \E f : Sums(f, k)
  <2> DEFINE ss == [i \in 1 .. k |-> pieces[i]]
  <2>1. k \in Nat /\ k = Len(ss) /\ k > 0
    OBVIOUS
  <2>2. ss[1] = pieces[1] /\ \A i \in 2 .. k : ss[i] = pieces[i]
    OBVIOUS
  <2>3. Joined(pieces, k) = FlattenSeq(ss)
    BY DEF Joined
  <2> HIDE DEF ss
  <2>4. PICK f : /\ FlattenSeq(ss) = f[k]
                 /\ f[1] = ss[1]
                 /\ \A i \in 2 .. k : f[i] = f[i - 1] \o ss[i]
    BY <2>1, FlattenSteps
  <2> QED
    BY <2>2, <2>3, <2>4
<1>3. ASSUME NEW k \in 1 .. n PROVE Joined(pieces, k) = Joined(pieces, k - 1) \o pieces[k]
  <2>1. PICK f : Sums(f, k)
    BY <1>2
  <2>2. CASE k = 1
    <3>1. pieces[1] \in Seq(Nat)
      BY <2>2
    <3>2. <<>> \o pieces[1] = pieces[1]
      BY <3>1
    <3>3. k - 1 = 0
      BY <2>2
    <3> QED
      BY <1>1, <2>1, <2>2, <3>2, <3>3
  <2>3. CASE k # 1
    <3>1. k - 1 \in 1 .. n /\ k \in 2 .. k /\ k - 1 \in Nat
      BY <2>3
    <3>2. PICK g : Sums(g, k - 1)
      BY <1>2, <3>1
    <3> DEFINE T == {j \in Nat : j + 1 <= k - 1 => f[j + 1] = g[j + 1]}
    <3>3. 0 \in T
      <4>1. 0 + 1 = 1
        OBVIOUS
      <4> QED
        BY <2>1, <3>2, <4>1
    <3>4. ASSUME NEW j \in Nat, j \in T PROVE j + 1 \in T
      <4>1. ASSUME (j + 1) + 1 <= k - 1 PROVE f[(j + 1) + 1] = g[(j + 1) + 1]
        <5>1. PICK a \in 2 .. k - 1 : a = (j + 1) + 1 /\ a - 1 = j + 1 /\ a \in 2 .. k
          BY <4>1
        <5>2. f[a - 1] = g[a - 1]
          BY <3>4, <5>1
        <5> QED
          BY <2>1, <3>2, <5>1, <5>2
      <4> QED
        BY <4>1
    <3>5. Nat \subseteq T
      <4> HIDE DEF T
      <4> QED
        BY <3>3, <3>4, Induction
    <3>6. PICK j \in Nat : j + 1 = k - 1
      BY <3>1
    <3>7. f[k - 1] = g[k - 1]
      BY <3>5, <3>6
    <3> QED
      BY <2>1, <3>1, <3>2, <3>7
  <2> QED
    BY <2>2, <2>3
<1> QED
  BY <1>1, <1>3

(* The pieces are byte strings, one behind the other.                          *)
LEMMA JoinedType ==
    ASSUME NEW n \in Nat, NEW pieces, \A i \in 1 .. n : pieces[i] \in Seq(Nat)
    PROVE  /\ \A k \in 0 .. n : Joined(pieces, k) \in Seq(Nat) /\ Len(Joined(pieces, k)) \in Nat
           /\ \A k \in 1 .. n : Len(Joined(pieces, k)) = Len(Joined(pieces, k - 1)) + Len(pieces[k])
           /\ \A k \in 0 .. n : \A j \in 0 .. k : Len(Joined(pieces, j)) <= Len(Joined(pieces, k))
<1> DEFINE T == {k \in Nat : k <= n => /\ Joined(pieces, k) \in Seq(Nat)
                                       /\ \A j \in 0 .. k : Len(Joined(pieces, j)) \in Nat /\ Len(Joined(pieces, j)) <= Len(Joined(pieces, k))}
<1>1. 0 \in T
  <2>1. Joined(pieces, 0) = <<>>
    BY JoinedSteps, Zenon
  <2>2. <<>> \in Seq(Nat) /\ Len(<<>>) \in Nat /\ Len(<<>>) <= Len(<<>>) /\ \A j \in 0 .. 0 : j = 0
    OBVIOUS
  <2>3. \A j \in 0 .. 0 : Len(Joined(pieces, j)) \in Nat /\ Len(Joined(pieces, j)) <= Len(Joined(pieces, 0))
    BY <2>1, <2>2, Zenon
  <2>4. Joined(pieces, 0) \in Seq(Nat)
    BY <2>1, <2>2, Zenon
  <2> QED
    BY <2>3, <2>4
<1>2. ASSUME NEW k \in Nat, Joined(pieces, k) \in Seq(Nat), k + 1 <= n
      PROVE  /\ Joined(pieces, k + 1) \in Seq(Nat)
             /\ Len(Joined(pieces, k + 1)) = Len(Joined(pieces, k)) + Len(pieces[k + 1])
             /\ Len(Joined(pieces, k)) \in Nat /\ Len(pieces[k + 1]) \in Nat
             /\ Len(Joined(pieces, k + 1)) \in Nat
  <2>1. k + 1 \in 1 .. n /\ (k + 1) - 1 = k
    BY <1>2
  <2>2. Joined(pieces, k + 1) = Joined(pieces, k) \o pieces[k + 1] /\ pieces[k + 1] \in Seq(Nat)
    <3>1. \A i \in 1 .. n : Joined(pieces, i) = Joined(pieces, i - 1) \o pieces[i]
      BY JoinedSteps
    <3> QED
      BY <2>1, <3>1
  <2>3. PICK s \in Seq(Nat), t \in Seq(Nat) : s = Joined(pieces, k) /\ t = pieces[k + 1]
    BY <1>2, <2>2
  <2>4. s \o t \in Seq(Nat) /\ Len(s \o t) = Len(s) + Len(t) /\ Len(s) \in Nat /\ Len(t) \in Nat
         /\ Len(s \o t) \in Nat
    BY Concat
  <2> QED
    BY <2>2, <2>3, <2>4, Zenon
<1>3. ASSUME NEW k \in Nat, k \in T PROVE k + 1 \in T
  <2>1. ASSUME k + 1 <= n
        PROVE  /\ Joined(pieces, k + 1) \in Seq(Nat)
               /\ \A j \in 0 .. k + 1 : Len(Joined(pieces, j)) \in Nat /\ Len(Joined(pieces, j)) <= Len(Joined(pieces, k + 1))
    <3>1. Joined(pieces, k) \in Seq(Nat) 
          /\ \A j \in 0 .. k : Len(Joined(pieces, j)) \in Nat /\ Len(Joined(pieces, j)) <= Len(Joined(pieces, k))
      BY <1>3, <2>1
    <3>2. PICK a \in Nat, b \in Nat, c \in Nat :
              a = Len(Joined(pieces, k)) /\ b = Len(pieces[k + 1]) /\ c = Len(Joined(pieces, k + 1)) /\ c = a + b
      BY <1>2, <2>1, <3>1, Zenon
    <3>3. ASSUME NEW j \in 0 .. k + 1 PROVE Len(Joined(pieces, j)) \in Nat /\ Len(Joined(pieces, j)) <= c
      <4>1. CASE j = k + 1
        BY <3>2, <4>1
      <4>2. CASE j \in 0 .. k
        <5>1. PICK d \in Nat : d = Len(Joined(pieces, j)) /\ d <= a
          BY <3>1, <3>2, <4>2
        <5> QED
          BY <3>2, <5>1
      <4> QED
        BY <4>1, <4>2
    <3> QED
      BY <1>2, <2>1, <3>1, <3>2, <3>3
  <2> QED
    BY <2>1
<1>4. Nat \subseteq T
  <2> HIDE DEF T
  <2> QED
    BY <1>1, <1>3, Induction
<1>5. ASSUME NEW k \in 0 .. n PROVE Joined(pieces, k) \in Seq(Nat) /\ Len(Joined(pieces, k)) \in Nat
  <2>1. Joined(pieces, k) \in Seq(Nat)
    BY <1>4
  <2>2. \A s \in Seq(Nat) : Len(s) \in Nat
    OBVIOUS
  <2> QED
    BY <2>1, <2>2, Zenon
<1>6. \A k \in 0 .. n : \A j \in 0 .. k : Len(Joined(pieces, j)) <= Len(Joined(pieces, k))
  BY <1>4
<1>7. ASSUME NEW k \in 1 .. n PROVE Len(Joined(pieces, k)) = Len(Joined(pieces, k - 1)) + Len(pieces[k])
  <2>1. k - 1 \in Nat /\ (k - 1) + 1 = k /\ k - 1 \in 0 .. n
    OBVIOUS
  <2>2. Joined(pieces, k - 1) \in Seq(Nat) /\ (k - 1) + 1 <= n
    BY <1>5, <2>1
  <2>3. Len(Joined(pieces, (k - 1) + 1)) = Len(Joined(pieces, k - 1)) + Len(pieces[(k - 1) + 1])
    BY <1>2, <2>1, <2>2, Zenon
  <2> QED
    BY <2>1, <2>3, Zenon
<1> QED
  BY <1>5, <1>6, <1>7

(* What stands in the whole stands where the pieces before it end.             *)
LEMMA PieceStands ==
    ASSUME NEW n \in Nat, NEW pieces, \A i \in 1 .. n : pieces[i] \in Seq(Nat),
           NEW data \in Seq(Nat), NEW i \in Nat, Stands(data, i, Joined(pieces, n)), NEW k \in 1 .. n
    PROVE  Stands(data, i + Len(Joined(pieces, k - 1)), pieces[k])
<1> DEFINE T == {m \in Nat : m <= n => Stands(data, i, Joined(pieces, n - m))}
<1>1. 0 \in T
  <2>1. n - 0 = n
    OBVIOUS
  <2> QED
    BY <2>1
<1>2. ASSUME NEW j \in 1 .. n, Stands(data, i, Joined(pieces, j))
      PROVE  Stands(data, i, Joined(pieces, j - 1)) /\ Stands(data, i + Len(Joined(pieces, j - 1)), pieces[j])
  <2>1. Joined(pieces, j) = Joined(pieces, j - 1) \o pieces[j]
    BY JoinedSteps, Zenon
  <2>2. j - 1 \in 0 .. n
    OBVIOUS
  <2>3. Joined(pieces, j - 1) \in Seq(Nat) /\ pieces[j] \in Seq(Nat)
    BY <2>2, JoinedType, Zenon
  <2>4. Stands(data, i, Joined(pieces, j - 1) \o pieces[j])
    BY <1>2, <2>1, Zenon
  <2> QED
    BY <2>3, <2>4, StandsConcat
<1>3. ASSUME NEW m \in Nat, m \in T PROVE m + 1 \in T
  <2>1. ASSUME m + 1 <= n PROVE Stands(data, i, Joined(pieces, n - (m + 1)))
    <3>1. n - m \in 1 .. n /\ n - (m + 1) = (n - m) - 1 /\ m <= n
      BY <2>1
    <3>2. Stands(data, i, Joined(pieces, n - m))
      BY <1>3, <3>1
    <3>3. Stands(data, i, Joined(pieces, (n - m) - 1))
      BY <1>2, <3>1, <3>2, Zenon
    <3> QED
      BY <3>1, <3>3, Zenon
  <2> QED
    BY <2>1
<1>4. Nat \subseteq T
  <2> HIDE DEF T
  <2> QED
    BY <1>1, <1>3, Induction
<1>5. n - k \in Nat /\ n - k <= n /\ n - (n - k) = k
  OBVIOUS
<1>6. Stands(data, i, Joined(pieces, k))
  <2>1. n - k \in T
    BY <1>4, <1>5
  <2> QED
    BY <1>5, <2>1
<1> QED
  BY <1>2, <1>6

(* A field of a message is a number or a byte string.                          *)
LEMMA FieldIs ==
    ASSUME NEW f \in Field
    PROVE  \/ \E n \in Fields, v \in 0 .. Limit - 1 :
                 f.field = n /\ FieldBytes(f) = PbVar(n, v) /\ Meant(f) = Signed(v)
           \/ \E n \in Fields, s \in Seq(Nat) :
                 f.field = n /\ FieldBytes(f) = PbLen(n, s) /\ Meant(f) = s /\ Len(s) < Pow2[Word - 1]
<1>1. CASE f \in [field : Fields, type : {"var"}, value : Values]
  <2>1. PICK n \in Fields, v \in Values : f.field = n /\ f.type = "var" /\ f.value = v
    BY <1>1
  <2>2. v \in 0 .. Limit - 1
    BY InputsAssumption
  <2>3. FieldBytes(f) = PbVar(n, v) /\ Meant(f) = Signed(v)
    BY <2>1 DEF FieldBytes, Meant
  <2> QED
    BY <2>1, <2>2, <2>3
<1>2. CASE f \in [field : Fields, type : {"len"}, value : Strings]
  <2>1. PICK n \in Fields, s \in Strings : f.field = n /\ f.type # "var" /\ f.value = s
    BY <1>2
  <2>2. s \in Seq(Nat) /\ Len(s) < Pow2[Word - 1]
    BY InputsAssumption
  <2>3. FieldBytes(f) = PbLen(n, s) /\ Meant(f) = s
    BY <2>1 DEF FieldBytes, Meant
  <2> QED
    BY <2>1, <2>2, <2>3
<1> QED
  BY <1>1, <1>2 DEF Field

(* The bytes of a field with a number.                                         *)
LEMMA VarBytes ==
    ASSUME NEW f \in Fields, NEW v \in 0 .. Limit - 1
    PROVE  PbVar(f, v) \in Seq(Nat) /\ Len(PbVar(f, v)) \in Nat \ {0}
<1>1. PICK w \in Seq(Nat) : w = Varint[v] /\ Len(w) \in Nat
  BY VarintLength
<1>2. PICK t \in Seq(Nat) : t = Tag(f, 0) /\ Len(t) = 1
  BY TagIs
<1>3. t \o w \in Seq(Nat) /\ Len(t \o w) = Len(t) + Len(w)
  BY Concat
<1>4. Len(t \o w) \in Nat \ {0}
  <2>1. PICK a \in Nat : a = Len(w)
    BY <1>1
  <2>2. 1 + a \in Nat \ {0}
    OBVIOUS
  <2> QED
    BY <1>2, <1>3, <2>1, <2>2, Zenon
<1> QED
  BY <1>1, <1>2, <1>3, <1>4, Zenon DEF PbVar

(* The bytes of a field.                                                       *)
LEMMA FieldBytesType ==
    ASSUME NEW f \in Field PROVE FieldBytes(f) \in Seq(Nat) /\ Len(FieldBytes(f)) \in Nat \ {0}
<1>1. CASE \E n \in Fields, v \in 0 .. Limit - 1 :
              f.field = n /\ FieldBytes(f) = PbVar(n, v) /\ Meant(f) = Signed(v)
  BY <1>1, VarBytes, Zenon
<1>2. CASE \E n \in Fields, s \in Seq(Nat) :
              f.field = n /\ FieldBytes(f) = PbLen(n, s) /\ Meant(f) = s /\ Len(s) < Pow2[Word - 1]
  <2>1. PICK n \in Fields, s \in Seq(Nat) : FieldBytes(f) = PbLen(n, s) /\ Len(s) < Pow2[Word - 1]
    BY <1>2
  <2>2. /\ PbLen(n, s) \in Seq(Nat) /\ Len(PbLen(n, s)) = 1 + Len(Varint[Len(s)]) + Len(s)
        /\ Len(Varint[Len(s)]) \in Nat \ {0} /\ Len(s) \in 0 .. Limit - 1
    BY <2>1, LenBytes
  <2>3. PICK a \in Nat, b \in Nat : a = Len(Varint[Len(s)]) /\ b = Len(s)
    BY <2>2
  <2>4. 1 + a + b \in Nat \ {0}
    OBVIOUS
  <2> QED
    BY <2>1, <2>2, <2>3, <2>4, Zenon
<1> QED
  BY <1>1, <1>2, FieldIs

(* A field is read if it came whole.                                           *)
LEMMA FieldRead ==
    ASSUME NEW data \in Seq(Nat), Held(data), NEW i \in 1 .. Len(data) + 1, NEW f \in Field,
           i + Len(FieldBytes(f)) <= Pow2[Word - 1], Stands(data, i, FieldBytes(f))
    PROVE  Item(data, i) = IF i + Len(FieldBytes(f)) <= Len(data) + 1
                           THEN ItemIs(f.field, Meant(f), i + Len(FieldBytes(f))) ELSE Error
<1>1. CASE \E n \in Fields, v \in 0 .. Limit - 1 :
              f.field = n /\ FieldBytes(f) = PbVar(n, v) /\ Meant(f) = Signed(v)
  <2>1. PICK n \in Fields, v \in 0 .. Limit - 1 :
              f.field = n /\ FieldBytes(f) = PbVar(n, v) /\ Meant(f) = Signed(v)
    BY <1>1
  <2>2. Stands(data, i, PbVar(n, v))
    BY <2>1, Zenon
  <2>3. Item(data, i) = IF i + Len(PbVar(n, v)) <= Len(data) + 1
                        THEN ItemIs(n, Signed(v), i + Len(PbVar(n, v))) ELSE Error
    BY <2>2, VarRead
  <2> QED
    BY <2>1, <2>3, Zenon
<1>2. CASE \E n \in Fields, s \in Seq(Nat) :
              f.field = n /\ FieldBytes(f) = PbLen(n, s) /\ Meant(f) = s /\ Len(s) < Pow2[Word - 1]
  <2>1. PICK n \in Fields, s \in Seq(Nat) :
              f.field = n /\ FieldBytes(f) = PbLen(n, s) /\ Meant(f) = s /\ Len(s) < Pow2[Word - 1]
    BY <1>2
  <2>2. Stands(data, i, PbLen(n, s)) /\ i + Len(PbLen(n, s)) <= Pow2[Word - 1]
    BY <2>1, Zenon
  <2>3. Item(data, i) = IF i + Len(PbLen(n, s)) <= Len(data) + 1
                        THEN ItemIs(n, s, i + Len(PbLen(n, s))) ELSE Error
    BY <2>1, <2>2, LenRead
  <2> QED
    BY <2>1, <2>3, Zenon
<1> QED
  BY <1>1, <1>2, FieldIs

(* At the end of the data there is no tag.                                     *)
LEMMA ItemAtEnd ==
    ASSUME NEW data \in Seq(Nat) PROVE Item(data, Len(data) + 1) = Error
<1>1. Len(data) + 1 \in Nat \ {0} /\ (Len(data) + 1) + 1 .. Len(data) + 1 = {}
  OBVIOUS
<1>2. ReadVarint(data, Len(data) + 1) = Error
  <2>1. PICK l \in Nat \ {0} : l = Len(data) + 1
    BY <1>1
  <2>2. \/ ReadVarint(data, l) = Error
        \/ \E n \in 0 .. Limit - 1, next \in l + 1 .. Len(data) + 1 :
              ReadVarint(data, l) = [ok |-> TRUE, n |-> n, next |-> next]
    BY ReadType
  <2>3. l + 1 .. Len(data) + 1 = {}
    BY <1>1, <2>1
  <2> QED
    BY <2>1, <2>2, <2>3
<1> QED
  BY <1>2 DEF Item, ItemOf, Error

Pieces(fields) == [n \in DOMAIN fields |-> FieldBytes(fields[n])]

(* A message is the pieces of its fields.                                      *)
LEMMA MessageIs ==
    ASSUME NEW m \in Nat, NEW fields \in [1 .. m -> Field]
    PROVE  /\ \A k \in 1 .. m : Pieces(fields)[k] = FieldBytes(fields[k]) /\ Pieces(fields)[k] \in Seq(Nat)
           /\ Message(fields) = Joined(Pieces(fields), m)
           /\ \A k \in 0 .. m : Message(SubSeq(fields, 1, k)) = Joined(Pieces(fields), k)
<1>1. \A k \in 1 .. m : Pieces(fields)[k] = FieldBytes(fields[k])
  BY DEF Pieces
<1>2. \A k \in 1 .. m : Pieces(fields)[k] \in Seq(Nat)
  BY <1>1, FieldBytesType
<1>3. Message(fields) = Joined(Pieces(fields), m)
  <2>1. [n \in DOMAIN fields |-> FieldBytes(fields[n])] = [n \in 1 .. m |-> Pieces(fields)[n]]
    BY <1>1
  <2> QED
    BY <2>1 DEF Message, Joined
<1>4. ASSUME NEW k \in 0 .. m PROVE Message(SubSeq(fields, 1, k)) = Joined(Pieces(fields), k)
  <2>1. /\ DOMAIN SubSeq(fields, 1, k) = 1 .. k
        /\ \A n \in 1 .. k : SubSeq(fields, 1, k)[n] = fields[n]
    <3>1. fields \in Seq(Field) /\ Len(fields) = m
      OBVIOUS
    <3> QED
      BY <3>1
  <2>2. [n \in DOMAIN SubSeq(fields, 1, k) |-> FieldBytes(SubSeq(fields, 1, k)[n])]
            = [n \in 1 .. k |-> Pieces(fields)[n]]
    <3>1. \A n \in 1 .. k : FieldBytes(SubSeq(fields, 1, k)[n]) = Pieces(fields)[n]
      <4>1. \A n \in 1 .. k : n \in 1 .. m
        OBVIOUS
      <4> QED
        BY <1>1, <2>1, <4>1, Zenon
    <3> QED
      BY <2>1, <3>1, Zenon
  <2> QED
    BY <2>2 DEF Message, Joined
<1> QED
  BY <1>1, <1>2, <1>3, <1>4

(* What pbParse's loop takes from a message that is cut behind k bytes: the    *)
(* fields that came whole, and the end.                                        *)
CameWhole(fields, k) == {n \in DOMAIN fields : Len(Message(SubSeq(fields, 1, n))) <= k}

CutTo(items, fields, w, next) ==
    items = [j \in 1 .. w + 1 |-> IF j <= w
                THEN ItemIs(fields[j].field, Meant(fields[j]), next[j]) ELSE Error]

(* The turns of pbParse on a message that is cut: whole fields, and the end.   *)
LEMMA CutItems ==
    ASSUME NEW m \in Nat, NEW fields \in [1 .. m -> Field], Held(Message(fields)),
           NEW k \in 0 .. Len(Message(fields))
    PROVE  \E w \in 0 .. m : \E next :
              /\ CameWhole(fields, k) = 1 .. w
              /\ CutTo(Items(SubSeq(Message(fields), 1, k)), fields, w, next)
<1>0. PICK data : data = SubSeq(Message(fields), 1, k)
  OBVIOUS
<1> DEFINE pieces == Pieces(fields)
           P(j) == Len(Joined(pieces, j))
           elements == [i \in 1 .. Len(data) + 1 |-> Item(data, i)]
<1>1. /\ \A j \in 1 .. m : pieces[j] = FieldBytes(fields[j]) /\ pieces[j] \in Seq(Nat)
      /\ Message(fields) = Joined(pieces, m)
      /\ \A j \in 0 .. m : Message(SubSeq(fields, 1, j)) = Joined(pieces, j)
  BY MessageIs
<1> HIDE DEF pieces
<1>2. \A j \in 1 .. m : pieces[j] \in Seq(Nat)
  BY <1>1, Zenon
<1>3. /\ \A j \in 0 .. m : Joined(pieces, j) \in Seq(Nat) /\ P(j) \in Nat
      /\ \A j \in 1 .. m : P(j) = P(j - 1) + Len(pieces[j])
      /\ \A j \in 0 .. m : \A n \in 0 .. j : P(n) <= P(j)
  BY <1>2, JoinedType, Zenon
<1>4. P(0) = 0
  <2>1. Joined(pieces, 0) = <<>>
    BY <1>2, JoinedSteps, Zenon
  <2>2. Len(<<>>) = 0
    OBVIOUS
  <2> QED
    BY <2>1, <2>2, Zenon
<1>5. Message(fields) \in Seq(Nat) /\ Len(Message(fields)) = P(m)
  <2>1. m \in 0 .. m
    OBVIOUS
  <2> QED
    BY <1>1, <1>3, <2>1, Zenon
<1>6. data \in Seq(Nat) /\ Len(data) = k /\ \A n \in 1 .. k : data[n] = Message(fields)[n]
  BY <1>0, <1>5, Prefix
<1>7. Held(data)
  <2>1. PICK h \in Nat : h = Pow2[Word - 1]
    BY Halves
  <2>2. PICK l \in Nat : l = Len(Message(fields)) /\ l < h /\ k <= l /\ k \in Nat
    BY <1>5, <2>1 DEF Held
  <2>3. k < h
    BY <2>2
  <2> QED
    BY <1>6, <2>1, <2>3 DEF Held
<1>8. Stands(data, 1, Joined(pieces, m))
  <2>1. \A n \in 1 .. Len(Joined(pieces, m)) : 1 + n - 1 = n /\ (n <= k => n \in 1 .. k)
    BY <1>3
  <2> QED
    BY <1>1, <1>6, <2>1, Zenon DEF Stands
<1>9. \A j \in 1 .. m : Stands(data, 1 + P(j - 1), pieces[j])
  <2>1. ASSUME NEW j \in 1 .. m PROVE Stands(data, 1 + Len(Joined(pieces, j - 1)), pieces[j])
    BY <1>2, <1>6, <1>8, PieceStands
  <2> QED
    BY <2>1
<1>10. PICK w \in 0 .. m : P(w) <= k /\ \A j \in 0 .. m : P(j) <= k => j <= w
  <2> DEFINE S == {j \in 0 .. m : P(j) <= k}
  <2>1. S \in SUBSET Nat /\ S # {} /\ \A j \in S : j <= m
    <3>1. 0 \in S
      BY <1>4
    <3> QED
      BY <3>1
  <2>2. Max(S) \in S /\ \A j \in S : j <= Max(S)
    <3> HIDE DEF S
    <3> QED
      BY <2>1, MaxExists
  <2> QED
    BY <2>2
<1>11. \A j \in 0 .. m : P(j) <= k <=> j <= w
  <2>1. ASSUME NEW j \in 0 .. m, j <= w PROVE P(j) <= k
    <3>1. j \in 0 .. w /\ P(w) \in Nat /\ P(j) \in Nat
      BY <1>3, <2>1
    <3>2. P(j) <= P(w)
      BY <1>3, <3>1
    <3> HIDE DEF P
    <3> QED
      BY <1>10, <3>1, <3>2
  <2> QED
    BY <1>10, <2>1
<1>12. {n \in DOMAIN fields : Len(Message(SubSeq(fields, 1, n))) <= k} = 1 .. w
  <2>1. \A n \in 1 .. m : Len(Message(SubSeq(fields, 1, n))) = P(n) /\ n \in 0 .. m
    BY <1>1
  <2>2. DOMAIN fields = 1 .. m /\ \A n \in 1 .. m : n <= w <=> n \in 1 .. w
    OBVIOUS
  <2>3. \A n \in 1 .. w : n \in 1 .. m
    OBVIOUS
  <2> HIDE DEF P
  <2> QED
    BY <1>11, <2>1, <2>2, <2>3
<1>13. Advances(elements, k + 1)
  <2>1. DOMAIN elements = 1 .. k + 1
    BY <1>6
  <2>2. ASSUME NEW j \in 1 .. k + 1, ~elements[j].last PROVE elements[j].next \in j + 1 .. k + 1
    <3>1. elements[j] = Item(data, j)
      BY <1>6
    <3>2. \/ Item(data, j) \in {Error, Panic}
          \/ \E field, value : \E next \in j + 1 .. Len(data) + 1 :
                Item(data, j) = ItemIs(field, value, next)
      BY <1>6, ItemAdvances
    <3>3. Error.last /\ Panic.last
      BY DEF Error, Panic
    <3>4. PICK next \in j + 1 .. k + 1 : \E field, value : Item(data, j) = ItemIs(field, value, next)
      <4>1. Item(data, j) # Error /\ Item(data, j) # Panic
        BY <2>2, <3>1, <3>3, Zenon
      <4>2. Len(data) + 1 = k + 1
        BY <1>6, Zenon
      <4> HIDE DEF elements
      <4> QED
        BY <3>2, <4>1, <4>2
    <3>5. \A field, value : ItemIs(field, value, next).next = next
      BY DEF ItemIs
    <3> HIDE DEF elements
    <3> QED
      BY <3>1, <3>4, <3>5, Zenon
  <2> QED
    BY <2>1, <2>2 DEF Advances
<1> DEFINE p == [j \in 1 .. w + 1 |-> 1 + P(j - 1)]
           next == [j \in 1 .. w |-> 1 + P(j)]
<1>14. ASSUME NEW j \in 1 .. w + 1 PROVE p[j] \in 1 .. k + 1
  <2>1. j - 1 \in 0 .. m /\ j - 1 <= w
    OBVIOUS
  <2>2. P(j - 1) \in Nat /\ P(j - 1) <= k
    BY <1>3, <1>11, <2>1
  <2> HIDE DEF P
  <2> QED
    BY <2>2
<1>15. ASSUME NEW j \in 1 .. w + 1, j <= m
       PROVE  elements[p[j]] = IF j <= w THEN ItemIs(fields[j].field, Meant(fields[j]), 1 + P(j)) ELSE Error
  <2>1. j \in 1 .. m /\ fields[j] \in Field /\ pieces[j] = FieldBytes(fields[j])
    BY <1>1, <1>15
  <2>2. PICK a \in Nat, b \in Nat : a = P(j - 1) /\ b = P(j) /\ b = a + Len(pieces[j]) /\ (b <= k <=> j <= w)
    <3>1. j - 1 \in 0 .. m /\ j \in 0 .. m
      BY <2>1
    <3> QED
      BY <1>3, <1>11, <2>1, <3>1
  <2>3. p[j] = 1 + a /\ 1 + a \in 1 .. Len(data) + 1
    BY <1>6, <1>14, <2>2
  <2>4. PICK i \in 1 .. Len(data) + 1 : i = 1 + a
    BY <2>3
  <2>5. i + Len(FieldBytes(fields[j])) = 1 + b
    <3>1. PICK c \in Nat : c = Len(FieldBytes(fields[j]))
      BY <2>1, FieldBytesType
    <3> QED
      BY <2>1, <2>2, <2>4, <3>1
  <2>6. 1 + b <= Pow2[Word - 1]
    <3>1. PICK h \in Nat : h = Pow2[Word - 1]
      BY Halves
    <3>2. PICK l \in Nat : l = P(m) /\ l < h /\ b <= l
      <4>1. j \in 0 .. m /\ m \in 0 .. m
        BY <2>1
      <4> QED
        BY <1>3, <1>5, <2>2, <3>1, <4>1 DEF Held
    <3> QED
      BY <3>1, <3>2
  <2>7. Stands(data, i, FieldBytes(fields[j]))
    BY <1>9, <2>1, <2>2, <2>4, Zenon
  <2>8. Item(data, i) = IF 1 + b <= Len(data) + 1
                        THEN ItemIs(fields[j].field, Meant(fields[j]), 1 + b) ELSE Error
    <3>1. i + Len(FieldBytes(fields[j])) <= Pow2[Word - 1]
      BY <2>5, <2>6, Zenon
    <3>2. Item(data, i) = IF i + Len(FieldBytes(fields[j])) <= Len(data) + 1
                        THEN ItemIs(fields[j].field, Meant(fields[j]), i + Len(FieldBytes(fields[j]))) ELSE Error
      BY <1>6, <1>7, <2>1, <2>7, <3>1, FieldRead
    <3> QED
      BY <2>5, <3>2, Zenon
  <2>9. 1 + b <= Len(data) + 1 <=> j <= w
    <3>1. Len(data) = k /\ (b <= k <=> j <= w)
      BY <1>6, <2>2, Zenon
    <3>2. 1 + b <= k + 1 <=> b <= k
      OBVIOUS
    <3> QED
      BY <3>1, <3>2, Zenon
  <2>10. elements[p[j]] = Item(data, i)
    BY <2>3, <2>4
  <2> QED
    BY <2>2, <2>8, <2>9, <2>10, Zenon
<1>16. elements[p[w + 1]] = Error
  <2>0. w + 1 \in 1 .. w + 1 /\ ~(w + 1 <= w)
    OBVIOUS
  <2>1. CASE w + 1 <= m
    BY <1>15, <2>0, <2>1, Zenon
  <2>2. CASE w = m
    <3>1. p[w + 1] = 1 + P(m) /\ P(m) = k
      <4>1. p[w + 1] = 1 + P(m)
        BY <2>2
      <4>2. PICK a \in Nat : a = P(m) /\ a <= k /\ k <= a
        <5>1. m \in 0 .. m
          OBVIOUS
        <5> QED
          BY <1>3, <1>5, <1>10, <2>2, <5>1
      <4> HIDE DEF P
      <4> QED
        BY <4>1, <4>2
    <3>2. p[w + 1] = Len(data) + 1 /\ Len(data) + 1 \in 1 .. Len(data) + 1
      BY <1>6, <3>1
    <3>3. elements[Len(data) + 1] = Item(data, Len(data) + 1)
      BY <3>2
    <3> QED
      BY <1>6, <3>2, <3>3, ItemAtEnd
  <2> QED
    BY <2>1, <2>2
<1>17. Chain(elements, p[1]) = [j \in 1 .. w + 1 |-> elements[p[j]]]
  <2>1. w + 1 \in Nat \ {0} /\ p \in [1 .. w + 1 -> 1 .. k + 1] /\ k + 1 \in Nat
    <3>1. p = [j \in 1 .. w + 1 |-> p[j]]
      OBVIOUS
    <3> HIDE DEF p
    <3> QED
      BY <1>14, <3>1
  <2>2. ASSUME NEW j \in 1 .. (w + 1) - 1
        PROVE  ~elements[p[j]].last /\ elements[p[j]].next = p[j + 1]
    <3>1. j \in 1 .. w + 1 /\ j <= m /\ j <= w /\ j + 1 \in 1 .. w + 1 /\ (j + 1) - 1 = j
      OBVIOUS
    <3>2. elements[p[j]] = ItemIs(fields[j].field, Meant(fields[j]), 1 + P(j))
      BY <1>15, <3>1, Zenon
    <3>3. p[j + 1] = 1 + P(j)
      BY <3>1
    <3> HIDE DEF elements, p, P
    <3> QED
      BY <3>2, <3>3 DEF ItemIs
  <2>3. elements[p[w + 1]].last
    <3>1. Error.last
      BY DEF Error
    <3> QED
      BY <1>16, <3>1, Zenon
  <2> HIDE DEF elements, p
  <2>4. Path(elements, k + 1, p, w + 1)
    BY <2>1, <2>2, <2>3 DEF Path
  <2>5. Chain(elements, p[1]) = Along(elements, p, w + 1)
    BY <1>13, <2>1, <2>4, ChainPath
  <2> QED
    BY <2>5 DEF Along
<1>18. p[1] = 1
  <2>1. 1 \in 1 .. w + 1 /\ 1 - 1 = 0
    OBVIOUS
  <2> QED
    BY <1>4, <2>1
<1>19. \A j \in 1 .. w + 1 : elements[p[j]] = IF j <= w
                             THEN ItemIs(fields[j].field, Meant(fields[j]), next[j]) ELSE Error
  <2>1. ASSUME NEW j \in 1 .. w + 1 PROVE elements[p[j]] = IF j <= w
                             THEN ItemIs(fields[j].field, Meant(fields[j]), next[j]) ELSE Error
    <3>1. CASE j <= w
      <4>1. j <= m /\ next[j] = 1 + P(j)
        BY <3>1
      <4> HIDE DEF elements, p, next
      <4> QED
        BY <1>15, <3>1, <4>1, Zenon
    <3>2. CASE ~(j <= w)
      <4>1. j = w + 1
        BY <3>2
      <4> HIDE DEF elements, p, next
      <4> QED
        BY <1>16, <3>2, <4>1, Zenon
    <3> QED
      BY <3>1, <3>2
  <2> HIDE DEF elements, p, next
  <2> QED
    BY <2>1
<1>20. Chain(elements, 1) = [j \in 1 .. w + 1 |-> IF j <= w
                               THEN ItemIs(fields[j].field, Meant(fields[j]), next[j]) ELSE Error]
  <2> HIDE DEF elements, p, next
  <2>1. [j \in 1 .. w + 1 |-> elements[p[j]]] = [j \in 1 .. w + 1 |-> IF j <= w
                               THEN ItemIs(fields[j].field, Meant(fields[j]), next[j]) ELSE Error]
    BY <1>19
  <2> QED
    BY <1>17, <1>18, <2>1, Zenon
<1>21. Items(data) = Chain(elements, 1)
  BY DEF Items
<1> HIDE DEF next, elements
<1>22. CutTo(Items(data), fields, w, next)
  BY <1>20, <1>21, Zenon DEF CutTo
<1>23. CameWhole(fields, k) = 1 .. w
  BY <1>12, Zenon DEF CameWhole
<1> QED
  BY <1>0, <1>22, <1>23, Zenon

(* A message that is cut has the fields that came whole, with their last       *)
(* values.                                                                     *)
ReadsWhole(fields, whole, read) ==
    /\ ~read.panic
    /\ DOMAIN read.fields = {fields[n].field : n \in whole}
    /\ \A n \in whole :
          (\A m \in whole : m > n => fields[m].field # fields[n].field) =>
              read.fields[fields[n].field] = Meant(fields[n])

(* What pbParse makes of those turns.                                          *)
LEMMA CutRead ==
    ASSUME NEW m \in Nat, NEW fields \in [1 .. m -> Field], Held(Message(fields)),
           NEW k \in 0 .. Len(Message(fields))
    PROVE  ReadsWhole(fields, CameWhole(fields, k), PbParse(SubSeq(Message(fields), 1, k)))
<1> DEFINE data == SubSeq(Message(fields), 1, k)
           items == Items(data)
           front == Front(items)
           read == PbParse(data)
           whole == CameWhole(fields, k)
<1>1. PICK w \in 0 .. m : \E next :
          /\ whole = 1 .. w
          /\ items = [j \in 1 .. w + 1 |-> IF j <= w
                         THEN ItemIs(fields[j].field, Meant(fields[j]), next[j]) ELSE Error]
  <2>1. PICK w \in 0 .. m : \E next : whole = 1 .. w /\ CutTo(items, fields, w, next)
    BY CutItems, Zenon
  <2> QED
    BY <2>1 DEF CutTo
<1>2. read = [panic |-> Last(items).panic, fields |-> LastValues(front)]
  BY Zenon DEF PbParse
<1> HIDE DEF data, items, read, whole
<1>3. /\ Len(items) = w + 1 /\ items[w + 1] = Error
      /\ \A j \in 1 .. w : items[j].field = fields[j].field /\ items[j].value = Meant(fields[j])
  <2>0. PICK next : items = [j \in 1 .. w + 1 |-> IF j <= w
                         THEN ItemIs(fields[j].field, Meant(fields[j]), next[j]) ELSE Error]
    BY <1>1, Zenon
  <2>1. Len(items) = w + 1 /\ w + 1 \in 1 .. w + 1 /\ ~(w + 1 <= w)
    BY <2>0
  <2>2. items[w + 1] = Error
    BY <2>0, <2>1
  <2>3. ASSUME NEW j \in 1 .. w PROVE items[j].field = fields[j].field /\ items[j].value = Meant(fields[j])
    <3>1. items[j] = ItemIs(fields[j].field, Meant(fields[j]), next[j])
      BY <2>0
    <3> QED
      BY <3>1 DEF ItemIs
  <2> QED
    BY <2>1, <2>2, <2>3
<1>4. ~read.panic
  <2>1. Last(items) = Error
    BY <1>3 DEF Last
  <2>2. ~Error.panic
    BY DEF Error
  <2>3. read.panic = Last(items).panic
    BY <1>2
  <2> QED
    BY <2>1, <2>2, <2>3, Zenon
<1>5. DOMAIN front = 1 .. w /\ \A j \in 1 .. w : front[j] = items[j]
  <2>1. front = SubSeq(items, 1, w)
    BY <1>3 DEF Front
  <2>2. items \in Seq({items[j] : j \in 1 .. w + 1})
    BY <1>1
  <2>3. PICK S : items \in Seq(S)
    BY <2>2
  <2>4. w \in 0 .. Len(items)
    BY <1>3
  <2>5. SubSeq(items, 1, w) \in Seq(S) /\ Len(SubSeq(items, 1, w)) = w
        /\ \A j \in 1 .. w : SubSeq(items, 1, w)[j] = items[j]
    BY <2>3, <2>4, Prefix
  <2>6. DOMAIN SubSeq(items, 1, w) = 1 .. w
    BY <2>5
  <2> HIDE DEF front
  <2> QED
    BY <2>1, <2>5, <2>6, Zenon
<1> HIDE DEF front
<1>6. \A j \in 1 .. w : front[j].field = fields[j].field /\ front[j].value = Meant(fields[j])
  BY <1>3, <1>5, Zenon
<1>7. read.fields = [f \in {front[j].field : j \in 1 .. w} |->
                        front[Max({j \in 1 .. w : front[j].field = f})].value]
  <2>1. read.fields = LastValues(front)
    BY <1>2
  <2> QED
    BY <1>5, <2>1, Zenon DEF LastValues
<1>8. DOMAIN read.fields = {fields[n].field : n \in whole}
  <2>1. {front[j].field : j \in 1 .. w} = {fields[n].field : n \in whole}
    BY <1>1, <1>6, SMTT(30)
  <2> QED
    BY <1>7, <2>1
<1>9. ASSUME NEW n \in whole, \A j \in whole : j > n => fields[j].field # fields[n].field
      PROVE  read.fields[fields[n].field] = Meant(fields[n])
  <2> DEFINE same == {j \in 1 .. w : front[j].field = fields[n].field}
  <2>1. n \in 1 .. w /\ same \in SUBSET Nat
    BY <1>1
  <2>2. n \in same /\ \A j \in same : j <= n
    <3>1. n \in same
      BY <1>6, <2>1
    <3>2. ASSUME NEW j \in same PROVE j <= n
      <4>1. j \in 1 .. w /\ fields[j].field = fields[n].field
        BY <1>6
      <4>2. ~(j > n)
        BY <1>1, <1>9, <4>1
      <4> QED
        BY <2>1, <4>1, <4>2
    <3> QED
      BY <3>1, <3>2
  <2>3. Max(same) = n
    <3> HIDE DEF same
    <3> QED
      BY <2>1, <2>2, MaxOf
  <2>4. fields[n].field \in {front[j].field : j \in 1 .. w}
    BY <1>6, <2>1
  <2>5. read.fields[fields[n].field] = front[Max(same)].value
    BY <1>7, <2>4
  <2> QED
    BY <1>6, <2>1, <2>3, <2>5
<1>10. ReadsWhole(fields, whole, read)
  BY <1>4, <1>8, <1>9 DEF ReadsWhole
<1> QED
  BY <1>10 DEF read, whole, data

(* Every number is read back, and every message cut anywhere.                  *)
LEMMA MessagesRead == CodecsInit => MessagesAreRead
<1> SUFFICES ASSUME CodecsInit PROVE MessagesAreRead
  OBVIOUS
<1>1. ASSUME input.kind = "number", NEW before \in Strings, NEW after \in Strings
      PROVE  ReadVarint(before \o Varint[input.n] \o after, Len(before) + 1)
                  = [ok |-> TRUE, n |-> input.n, next |-> Len(before) + Len(Varint[input.n]) + 1]
  <2>1. input \in [kind : {"number"}, n : 0 .. Limit - 1]
    BY <1>1 DEF CodecsInit
  <2>2. PICK n \in 0 .. Limit - 1 : n = input.n
    BY <2>1
  <2>3. PICK v \in Seq(Nat) : v = Varint[n]
    BY VarintLength
  <2>4. before \in Seq(Nat) /\ after \in Seq(Nat)
    BY InputsAssumption
  <2>5. PICK data \in Seq(Nat) : /\ data = before \o v \o after
                                 /\ Len(data) = Len(before) + Len(v) + Len(after)
                                 /\ \A k \in 1 .. Len(v) : data[Len(before) + k] = v[k]
    <3>1. PICK s \in Seq(Nat) : /\ s = before \o v /\ Len(s) = Len(before) + Len(v)
                                /\ \A k \in 1 .. Len(v) : s[Len(before) + k] = v[k]
      <4>1. before \o v \in Seq(Nat) /\ Len(before \o v) = Len(before) + Len(v)
            /\ \A k \in 1 .. Len(v) : (before \o v)[Len(before) + k] = v[k]
        BY <2>4, Concat
      <4> QED
        BY <4>1, Zenon
    <3>2. /\ s \o after \in Seq(Nat) /\ Len(s \o after) = Len(s) + Len(after)
          /\ \A k \in 1 .. Len(s) : (s \o after)[k] = s[k]
      BY <2>4, Concat
    <3>3. \A k \in 1 .. Len(v) : Len(before) + k \in 1 .. Len(s)
      BY <2>4, <3>1
    <3> QED
      BY <3>1, <3>2, <3>3
  <2>6. PICK b \in Nat, l \in Nat, a \in Nat : b = Len(before) /\ l = Len(v) /\ a = Len(after)
    BY <2>4
  <2>7. Stands(data, b + 1, v)
    <3>1. \A k \in 1 .. l : (b + 1) + k - 1 = b + k
      OBVIOUS
    <3> QED
      BY <2>5, <2>6, <3>1, Zenon DEF Stands
  <2>8. b + 1 \in Nat \ {0} /\ b + 1 <= Len(data) + 1 /\ (b + 1) + l <= Len(data) + 1 /\ (b + 1) + l = b + l + 1
    <3>1. Len(data) = b + l + a
      BY <2>5, <2>6
    <3> QED
      BY <3>1
  <2>9. ReadVarint(data, b + 1) = IF (b + 1) + Len(Varint[n]) <= Len(data) + 1
               THEN [ok |-> TRUE, n |-> n, next |-> (b + 1) + Len(Varint[n])] ELSE Error
    BY <2>3, <2>7, <2>8, NumberRead
  <2> QED
    BY <2>2, <2>3, <2>5, <2>6, <2>8, <2>9, Zenon
<1>2. ASSUME input.kind = "message", Held(Message(input.fields)), NEW k \in 0 .. Len(Message(input.fields))
      PROVE  ReadsWhole(input.fields, CameWhole(input.fields, k), PbParse(SubSeq(Message(input.fields), 1, k)))
  <2>1. input \in [kind : {"message"}, fields : BoundedSeq(Field, MaxFields)]
    BY <1>2 DEF CodecsInit
  <2>2. PICK m \in 0 .. MaxFields : input.fields \in [1 .. m -> Field]
    BY <2>1 DEF BoundedSeq, SeqOf
  <2>3. m \in Nat
    BY InputsAssumption
  <2> QED
    BY <1>2, <2>2, <2>3, CutRead
<1> QED
  BY <1>1, <1>2 DEF MessagesAreRead, ReadsWhole, CameWhole

(* The numeral is not needed any more.                                         *)
LEMMA Bytes256 == Byte \in Nat \ {0} /\ Full \in Nat \ {0}
BY DEF Byte, Full

(* The least element of a set.                                                 *)
LEMMA MinOf ==
    ASSUME NEW S \in SUBSET Nat, NEW x \in S, \A y \in S : x <= y
    PROVE  Min(S) = x
<1>1. \A y \in S : (\A z \in S : y <= z) => y = x
  <2> SUFFICES ASSUME NEW y \in S, \A z \in S : y <= z PROVE y = x
    OBVIOUS
  <2>1. y >= x /\ y <= x /\ y \in Nat /\ x \in Nat
    OBVIOUS
  <2> QED
    BY <2>1
<1> QED
  BY <1>1 DEF Min

(* A length that is read is a number, and what follows it begins further on.   *)
LEMMA LengthType ==
    ASSUME NEW data \in Seq(Nat), NEW i \in 1 .. Len(data) + 1, NEW nibble \in Nat, NEW least \in Nat
    PROVE  \/ ReadLength(data, i, nibble, least) = Error
           \/ \E n \in Nat, next \in i .. Len(data) + 1 :
                 ReadLength(data, i, nibble, least) = [ok |-> TRUE, n |-> n, next |-> next]
<1> DEFINE last == {j \in i .. Len(data) : data[j] # Full}
<1>1. CASE nibble < 15
  <2>1. ReadLength(data, i, nibble, least) = [ok |-> TRUE, n |-> least + nibble, next |-> i]
    BY <1>1, Zenon DEF ReadLength
  <2>2. least + nibble \in Nat /\ i \in i .. Len(data) + 1
    OBVIOUS
  <2> QED
    BY <2>1, <2>2
<1>2. CASE ~(nibble < 15) /\ last = {}
  <2>1. ReadLength(data, i, nibble, least) = Error
    BY <1>2, Zenon DEF ReadLength
  <2> QED
    BY <2>1
<1>3. CASE ~(nibble < 15) /\ last # {}
  <2>1. PICK x \in last : \A y \in last : x <= y
    <3>1. last \in SUBSET Nat
      OBVIOUS
    <3> HIDE DEF last
    <3> QED
      BY <1>3, <3>1, MinExists
  <2>2. Min(last) = x
    <3>1. last \in SUBSET Nat
      OBVIOUS
    <3> HIDE DEF last
    <3> QED
      BY <2>1, <3>1, MinOf
  <2>3. x \in i .. Len(data) /\ data[x] \in Nat
    OBVIOUS
  <2>4. ReadLength(data, i, nibble, least)
            = [ok |-> TRUE, n |-> least + 15 + Full * (x - i) + data[x], next |-> x + 1]
    BY <1>3, <2>2, Zenon DEF ReadLength
  <2>5. x - i \in Nat /\ x + 1 \in i .. Len(data) + 1
    BY <2>3
  <2>6. least + 15 + Full * (x - i) + data[x] \in Nat
    <3>1. PICK a \in Nat, b \in Nat, c \in Nat : a = Full /\ b = x - i /\ c = data[x]
      BY <2>3, <2>5, Bytes256
    <3>2. a * b \in Nat
      OBVIOUS
    <3>3. PICK d \in Nat : d = a * b
      BY <3>2
    <3>4. least + 15 + d + c \in Nat
      OBVIOUS
    <3> QED
      BY <3>1, <3>3, <3>4, Zenon
  <2> QED
    BY <2>4, <2>5, <2>6
<1> QED
  BY <1>1, <1>2, <1>3, Zenon

(* The bytes of a length beyond its four bits.                                 *)
LEMMA RestBytes ==
    ASSUME NEW n \in Nat
    PROVE  /\ LengthRest(n) \in Seq(Nat) /\ n \div Full \in Nat /\ Len(LengthRest(n)) = (n \div Full) + 1
           /\ \A k \in 1 .. n \div Full : LengthRest(n)[k] = Full
           /\ LengthRest(n)[(n \div Full) + 1] = n % Full
           /\ n % Full \in Nat /\ n % Full # Full /\ Full * (n \div Full) + (n % Full) = n
<1>1. /\ n \div Full \in Nat /\ n % Full \in Nat /\ n % Full # Full /\ Full * (n \div Full) + (n % Full) = n
  <2>1. PICK m \in Nat \ {0} : m = Full
    BY Bytes256
  <2>2. n \div m \in Nat /\ n % m \in Nat /\ n % m # m /\ (m * (n \div m)) + (n % m) = n
    OBVIOUS
  <2> QED
    BY <2>1, <2>2, Zenon
<1>2. PICK q \in Nat, r \in Nat : q = n \div Full /\ r = n % Full
  BY <1>1, Zenon
<1>3. PICK s \in Seq(Nat) : s = [k \in 1 .. q |-> Full] /\ Len(s) = q /\ \A k \in 1 .. q : s[k] = Full
  <2>1. PICK f : f = [k \in 1 .. q |-> Full]
    OBVIOUS
  <2>2. f \in Seq(Nat) /\ Len(f) = q /\ \A k \in 1 .. q : f[k] = Full
    BY <2>1, Bytes256
  <2> QED
    BY <2>1, <2>2, Zenon
<1>4. PICK t \in Seq(Nat) : t = <<r>> /\ Len(t) = 1 /\ t[1] = r
  <2>1. <<r>> \in Seq(Nat) /\ Len(<<r>>) = 1 /\ <<r>>[1] = r
    OBVIOUS
  <2> QED
    BY <2>1, Zenon
<1>5. /\ s \o t \in Seq(Nat) /\ Len(s \o t) = Len(s) + Len(t)
      /\ \A k \in 1 .. Len(s) : (s \o t)[k] = s[k]
      /\ \A k \in 1 .. Len(t) : (s \o t)[Len(s) + k] = t[k]
  BY Concat
<1>6. LengthRest(n) = s \o t
  BY <1>2, <1>3, <1>4, Zenon DEF LengthRest
<1>7. (s \o t)[q + 1] = r
  <2>1. 1 \in 1 .. Len(t)
    BY <1>4
  <2>2. (s \o t)[Len(s) + 1] = t[1]
    BY <1>5, <2>1, Zenon
  <2> QED
    BY <1>3, <1>4, <2>2, Zenon
<1>8. PICK u \in Seq(Nat) : u = s \o t
  BY <1>5
<1>9. Len(u) = q + 1 /\ (\A k \in 1 .. q : u[k] = Full) /\ u[q + 1] = r /\ u = LengthRest(n)
  BY <1>3, <1>4, <1>5, <1>6, <1>7, <1>8, Zenon
<1> QED
  BY <1>1, <1>2, <1>9, Zenon

(* The part of a length that its token does not hold.                          *)
LEMMA FurtherBytes ==
    ASSUME NEW n \in Nat
    PROVE  Further(n) \in Seq(Nat) /\ Len(Further(n)) \in Nat /\ Nibble(n) \in 0 .. 15
<1>1. CASE n < 15
  <2>1. Further(n) = <<>> /\ Nibble(n) = n
    BY <1>1, Zenon DEF Further, Nibble
  <2>2. <<>> \in Seq(Nat) /\ Len(<<>>) \in Nat /\ n \in 0 .. 15
    BY <1>1
  <2> QED
    BY <2>1, <2>2, Zenon
<1>2. CASE ~(n < 15)
  <2>1. Further(n) = LengthRest(n - 15) /\ Nibble(n) = 15
    BY <1>2, Zenon DEF Further, Nibble
  <2>2. n - 15 \in Nat /\ 15 \in 0 .. 15
    BY <1>2
  <2>3. LengthRest(n - 15) \in Seq(Nat)
    BY <2>2, RestBytes
  <2>4. \A s \in Seq(Nat) : Len(s) \in Nat
    OBVIOUS
  <2> QED
    BY <2>1, <2>2, <2>3, <2>4, Zenon
<1> QED
  BY <1>1, <1>2

(* A length is read back, wherever its bytes stand.                            *)
LEMMA LengthRead ==
    ASSUME NEW data \in Seq(Nat), NEW i \in 1 .. Len(data) + 1, NEW n \in Nat, NEW least \in Nat,
           Stands(data, i, Further(n)), i + Len(Further(n)) <= Len(data) + 1
    PROVE  ReadLength(data, i, Nibble(n), least)
               = [ok |-> TRUE, n |-> least + n, next |-> i + Len(Further(n))]
<1> DEFINE last == {j \in i .. Len(data) : data[j] # Full}
<1>1. CASE n < 15
  <2>1. Further(n) = <<>> /\ Nibble(n) = n
    BY <1>1, Zenon DEF Further, Nibble
  <2>2. ReadLength(data, i, n, least) = [ok |-> TRUE, n |-> least + n, next |-> i]
    BY <1>1, Zenon DEF ReadLength
  <2>3. i + Len(<<>>) = i
    OBVIOUS
  <2> QED
    BY <2>1, <2>2, <2>3, Zenon
<1>2. CASE ~(n < 15)
  <2>1. Further(n) = LengthRest(n - 15) /\ Nibble(n) = 15
    BY <1>2, Zenon DEF Further, Nibble
  <2>2. PICK m \in Nat : m = n - 15
    BY <1>2
  <2>3. PICK s \in Seq(Nat), q \in Nat, r \in Nat :
            /\ r # Full /\ s = LengthRest(m) /\ Len(s) = q + 1 /\ (\A k \in 1 .. q : s[k] = Full)
            /\ s[q + 1] = r /\ Full * q + r = m
    <3>1. PICK s \in Seq(Nat), q \in Nat, r \in Nat :
              s = LengthRest(m) /\ q = m \div Full /\ r = m % Full
      BY RestBytes, Zenon
    <3>2. /\ m % Full # Full /\ Len(LengthRest(m)) = (m \div Full) + 1
          /\ (\A k \in 1 .. m \div Full : LengthRest(m)[k] = Full)
          /\ LengthRest(m)[(m \div Full) + 1] = m % Full /\ Full * (m \div Full) + (m % Full) = m
      BY RestBytes, Zenon
    <3>3. /\ r # Full /\ s = LengthRest(m) /\ Len(s) = q + 1 /\ (\A k \in 1 .. q : s[k] = Full)
          /\ s[q + 1] = r /\ Full * q + r = m
      BY <3>1, <3>2, Zenon
    <3> QED
      BY <3>3, Zenon
  <2>4. s = Further(n)
    BY <2>1, <2>2, <2>3, Zenon
  <2>5. Stands(data, i, s) /\ i + Len(s) <= Len(data) + 1
    BY <2>4, Zenon
  <2>6. PICK l \in Nat : l = Len(data) /\ i \in 1 .. l + 1 /\ i + q <= l
    <3>1. PICK l \in Nat : l = Len(data)
      OBVIOUS
    <3>2. i + (q + 1) <= l + 1
      BY <2>3, <2>5, <3>1, Zenon
    <3>3. i \in 1 .. l + 1 /\ i \in Nat
      BY <3>1
    <3>4. i + q <= l
      BY <3>2, <3>3
    <3> QED
      BY <3>1, <3>3, <3>4, Zenon
  <2>7. data[i + q] = r
    <3>1. q + 1 \in 1 .. Len(s) /\ i + (q + 1) - 1 = i + q /\ i + q <= Len(data)
      BY <2>3, <2>6
    <3>2. data[i + (q + 1) - 1] = s[q + 1]
      BY <2>5, <3>1, Zenon DEF Stands
    <3> QED
      BY <2>3, <3>1, <3>2, Zenon
  <2>8. ASSUME NEW k \in 1 .. q PROVE data[i + k - 1] = Full
    <3>1. k \in 1 .. Len(s) /\ i + k - 1 <= Len(data)
      BY <2>3, <2>6
    <3>2. data[i + k - 1] = s[k]
      BY <2>5, <3>1, Zenon DEF Stands
    <3> QED
      BY <2>3, <3>2, Zenon
  <2>nat. i + q \in Nat /\ i \in Nat
    BY <2>6
  <2>9. i + q \in last /\ last \in SUBSET Nat /\ \A y \in last : i + q <= y
    <3>1. i + q \in last
      BY <2>3, <2>6, <2>7
    <3>2. ASSUME NEW y \in last PROVE i + q <= y
      <4>1. y \in i .. l /\ data[y] # Full
        BY <2>6
      <4>2. CASE y < i + q
        <5>1. PICK k \in 1 .. q : y = i + k - 1
          <6>1. y - i + 1 \in 1 .. q /\ y = i + (y - i + 1) - 1
            BY <4>1, <4>2
          <6> QED
            BY <6>1
        <5> QED
          BY <2>8, <4>1, <5>1
      <4> QED
        BY <4>1, <4>2
    <3> QED
      BY <3>1, <3>2
  <2>at. PICK x \in Nat : x = i + q /\ x - i = q
    BY <2>nat
  <2>10. Min(last) = x /\ last # {}
    <3>1. x \in last /\ \A y \in last : x <= y
      BY <2>9, <2>at, Zenon
    <3> HIDE DEF last
    <3> QED
      BY <2>9, <3>1, MinOf
  <2>11. ReadLength(data, i, 15, least)
            = [ok |-> TRUE, n |-> least + 15 + Full * (x - i) + data[x], next |-> x + 1]
    <3>1. ~(15 < 15)
      OBVIOUS
    <3> QED
      BY <2>10, <3>1, Zenon DEF ReadLength
  <2>12. least + 15 + Full * (x - i) + data[x] = least + n
    <3>1. PICK z \in Nat : z = Full * q
      BY Bytes256
    <3>2. z + r = m
      BY <2>3, <3>1, Zenon
    <3>3. least + 15 + z + r = least + n
      BY <2>2, <3>2
    <3> QED
      BY <2>7, <2>at, <3>1, <3>3, Zenon
  <2>13. i + q + 1 = i + Len(Further(n))
    <3>1. i + q + 1 = i + (q + 1)
      BY <2>6
    <3> QED
      BY <2>3, <2>4, <3>1, Zenon
  <2> QED
    BY <2>1, <2>at, <2>11, <2>12, <2>13, Zenon
<1> QED
  BY <1>1, <1>2

(* A turn of lz4Decompress, when what it reads is named.                       *)
BlockOf(data, i, lit, at, match) ==
    IF i > Len(data) THEN [ok |-> TRUE, last |-> TRUE, lit |-> <<>>]
    ELSE IF ~lit.ok THEN Error
    ELSE IF at - 1 > Len(data) THEN Error
    ELSE IF at > Len(data) THEN [ok |-> TRUE, last |-> TRUE, lit |-> SubSeq(data, lit.next, at - 1)]
    ELSE IF at + 1 > Len(data) THEN Error
    ELSE IF ~match.ok THEN Error
    ELSE [ok |-> TRUE, last |-> FALSE, lit |-> SubSeq(data, lit.next, at - 1),
          off |-> data[at] + Byte * data[at + 1], len |-> match.n, next |-> match.next]

(* What a block of literals and a match comes to.                              *)
LEMMA BlockIs ==
    ASSUME NEW data, NEW i, NEW lit, NEW at, NEW match,
           lit = ReadLength(data, i + 1, data[i] \div 16, 0),
           at = lit.next + lit.n,
           match = ReadLength(data, at + 2, data[i] % 16, 4)
    PROVE  Lz4Block(data, i) = BlockOf(data, i, lit, at, match)
BY Zenon DEF Lz4Block, BlockOf

(* A turn of lz4Decompress goes on further, or it is the last.                 *)
LEMMA BlockAdvances ==
    ASSUME NEW data \in Seq(Nat), NEW i \in 1 .. Len(data) + 1, ~Lz4Block(data, i).last
    PROVE  Lz4Block(data, i).next \in i + 1 .. Len(data) + 1
<1> DEFINE lit == ReadLength(data, i + 1, data[i] \div 16, 0)
           at == lit.next + lit.n
           match == ReadLength(data, at + 2, data[i] % 16, 4)
           literals == SubSeq(data, lit.next, at - 1)
           block == Lz4Block(data, i)
<1>0. block = BlockOf(data, i, lit, at, match)
  BY BlockIs
<1>1. ~block.last
  OBVIOUS
<1> HIDE DEF block, literals
<1>2. Error.last /\ [ok |-> TRUE, last |-> TRUE, lit |-> <<>>].last /\ [ok |-> TRUE, last |-> TRUE, lit |-> literals].last
  BY DEF Error
<1> HIDE DEF lit, match
<1>3. /\ ~(i > Len(data)) /\ lit.ok /\ ~(at - 1 > Len(data)) /\ ~(at > Len(data))
      /\ ~(at + 1 > Len(data)) /\ match.ok
      /\ block = [ok |-> TRUE, last |-> FALSE, lit |-> literals, off |-> data[at] + Byte * data[at + 1],
                  len |-> match.n, next |-> match.next]
  BY <1>0, <1>1, <1>2, Zenon DEF BlockOf, literals
<1>4. block.next = match.next
  BY <1>3
<1>5. i \in 1 .. Len(data) /\ data[i] \in Nat
  <2>1. i \in 1 .. Len(data)
    BY <1>3
  <2> QED
    BY <2>1
<1>6. data[i] \div 16 \in Nat /\ data[i] % 16 \in Nat
  BY <1>5
<1>7. ~Error.ok
  BY DEF Error
<1>8. PICK n \in Nat, next \in i + 1 .. Len(data) + 1 : lit = [ok |-> TRUE, n |-> n, next |-> next]
  <2>1. i + 1 \in 1 .. Len(data) + 1 /\ 0 \in Nat
    BY <1>5
  <2>2. \/ lit = Error
        \/ \E n \in Nat, next \in i + 1 .. Len(data) + 1 : lit = [ok |-> TRUE, n |-> n, next |-> next]
    BY <1>6, <2>1, LengthType DEF lit
  <2> QED
    BY <1>3, <1>7, <2>2, Zenon
<1>9. at \in Nat /\ at + 2 \in i + 1 .. Len(data) + 1 /\ at + 2 \in 1 .. Len(data) + 1
  <2>1. lit.n = n /\ lit.next = next
    BY <1>8
  <2>2. PICK a \in Nat : a = next + n /\ at = a
    BY <2>1
  <2>3. ~(a + 1 > Len(data))
    BY <1>3, <2>2, Zenon
  <2>4. a + 2 \in i + 1 .. Len(data) + 1 /\ a + 2 \in 1 .. Len(data) + 1
    BY <2>2, <2>3
  <2> QED
    BY <2>2, <2>4, Zenon
<1> HIDE DEF at
<1>10. PICK len \in Nat, end \in at + 2 .. Len(data) + 1 : match = [ok |-> TRUE, n |-> len, next |-> end]
  <2>1. \/ match = Error
        \/ \E len \in Nat, end \in at + 2 .. Len(data) + 1 : match = [ok |-> TRUE, n |-> len, next |-> end]
    BY <1>6, <1>9, LengthType, 4 \in Nat, ZenonT(60) DEF match
  <2> QED
    BY <1>3, <1>7, <2>1, Zenon
<1>11. match.next = end /\ end \in i + 1 .. Len(data) + 1
  <2>1. match.next = end
    BY <1>10
  <2> QED
    BY <1>9, <2>1
<1> QED
  BY <1>4, <1>11 DEF block

(* The token, and what stands behind it.                                       *)
LEMMA TokenStands ==
    ASSUME NEW data \in Seq(Nat), NEW i \in 1 .. Len(data) + 1, NEW b \in Nat, NEW s \in Seq(Nat),
           Stands(data, i, <<b>> \o s)
    PROVE  /\ i <= Len(data) => data[i] = b
           /\ Stands(data, i + 1, s)
<1>1. <<b>> \in Seq(Nat) /\ Len(<<b>>) = 1 /\ <<b>>[1] = b /\ i \in Nat
  OBVIOUS
<1>2. Stands(data, i, <<b>>) /\ Stands(data, i + Len(<<b>>), s)
  BY <1>1, StandsConcat
<1>3. 1 \in 1 .. Len(<<b>>) /\ i + 1 - 1 = i
  BY <1>1
<1> QED
  BY <1>1, <1>2, <1>3, Zenon DEF Stands

(* A byte before a string.                                                     *)
LEMMA TokenLength ==
    ASSUME NEW b \in Nat, NEW s \in Seq(Nat)
    PROVE  <<b>> \o s \in Seq(Nat) /\ Len(<<b>> \o s) = 1 + Len(s)
<1>1. <<b>> \in Seq(Nat) /\ Len(<<b>>) = 1
  OBVIOUS
<1>2. <<b>> \o s \in Seq(Nat) /\ Len(<<b>> \o s) = Len(<<b>>) + Len(s)
  BY <1>1, Concat
<1> QED
  BY <1>1, <1>2, Zenon

(* Literals alone: a token, what is left of their number, and themselves.      *)
LEMMA AllLiteralIs ==
    ASSUME NEW t \in Seq(Nat)
    PROVE  /\ Lz4AllLiteral(t) = <<Nibble(Len(t)) * 16>> \o (Further(Len(t)) \o t)
           /\ Nibble(Len(t)) * 16 \in Nat /\ (Nibble(Len(t)) * 16) \div 16 = Nibble(Len(t))
           /\ Further(Len(t)) \in Seq(Nat) /\ Further(Len(t)) \o t \in Seq(Nat)
           /\ Lz4AllLiteral(t) \in Seq(Nat)
           /\ Len(Lz4AllLiteral(t)) = 1 + (Len(Further(Len(t))) + Len(t))
<1>1. PICK l \in Nat : l = Len(t)
  OBVIOUS
<1>2. PICK f \in Seq(Nat), n \in 0 .. 15 : f = Further(l) /\ n = Nibble(l)
  BY FurtherBytes
<1>3. f \o t \in Seq(Nat) /\ Len(f \o t) = Len(f) + Len(t)
  BY Concat
<1>4. n * 16 \in Nat /\ (n * 16) \div 16 = n
  OBVIOUS
<1>5. Lz4AllLiteral(t) = <<n * 16>> \o (f \o t)
  <2>1. CASE l < 15
    <3>1. Lz4AllLiteral(t) = <<l * 16>> \o t
      BY <1>1, <2>1, Zenon DEF Lz4AllLiteral
    <3>2. n = l /\ f = <<>>
      BY <1>2, <2>1, Zenon DEF Further, Nibble
    <3>3. <<>> \o t = t
      OBVIOUS
    <3> QED
      BY <3>1, <3>2, <3>3, Zenon
  <2>2. CASE ~(l < 15)
    <3>1. Lz4AllLiteral(t) = <<15 * 16>> \o LengthRest(l - 15) \o t
      BY <1>1, <2>2, Zenon DEF Lz4AllLiteral
    <3>2. n = 15 /\ f = LengthRest(l - 15)
      BY <1>2, <2>2, Zenon DEF Further, Nibble
    <3>3. PICK a \in Seq(Nat) : a = <<n * 16>>
      <4>1. PICK b \in Nat : b = n * 16
        BY <1>4
      <4>2. <<b>> \in Seq(Nat)
        OBVIOUS
      <4> QED
        BY <4>1, <4>2, Zenon
    <3>4. (a \o f) \o t = a \o (f \o t)
      BY Associative, SMTT(30)
    <3> QED
      BY <3>1, <3>2, <3>3, <3>4, Zenon
  <2> QED
    BY <2>1, <2>2
<1>6. PICK b \in Nat : b = n * 16
  BY <1>4
<1>7. <<b>> \o (f \o t) \in Seq(Nat) /\ Len(<<b>> \o (f \o t)) = 1 + Len(f \o t)
  BY <1>3, TokenLength
<1> QED
  BY <1>1, <1>2, <1>3, <1>4, <1>5, <1>6, <1>7, Zenon

(* Literals are read back, wherever they stand.                                *)
LEMMA LiteralsRead ==
    ASSUME NEW data \in Seq(Nat), NEW i \in 1 .. Len(data) + 1, NEW t \in Seq(Nat),
           Stands(data, i, Further(Len(t)) \o t),
           i + (Len(Further(Len(t))) + Len(t)) <= Len(data) + 1
    PROVE  /\ ReadLength(data, i, Nibble(Len(t)), 0)
                  = [ok |-> TRUE, n |-> Len(t), next |-> i + Len(Further(Len(t)))]
           /\ (i + Len(Further(Len(t)))) + Len(t) = i + (Len(Further(Len(t))) + Len(t))
           /\ SubSeq(data, i + Len(Further(Len(t))), (i + Len(Further(Len(t)))) + Len(t) - 1) = t
<1>0. PICK lit : lit = ReadLength(data, i, Nibble(Len(t)), 0)
  OBVIOUS
<1>1. PICK l \in Nat : l = Len(t)
  OBVIOUS
<1>2. PICK f \in Seq(Nat) : f = Further(l)
  BY FurtherBytes
<1>3. PICK m \in Nat, e \in Nat, j \in Nat : m = Len(f) /\ e = Len(data) + 1 /\ j = i
  OBVIOUS
<1>4. j \in 1 .. e /\ j + (m + l) <= e
  BY <1>1, <1>2, <1>3, Zenon
<1>5. j + m <= e /\ j + m \in 1 .. e /\ (j + m) + l <= e /\ (j + m) + l = j + (m + l) /\ 0 + l = l
  BY <1>4
<1>6. Stands(data, j, f) /\ Stands(data, j + m, t)
  <2>1. Stands(data, j, f \o t)
    BY <1>1, <1>2, <1>3, Zenon
  <2>2. Stands(data, j, f) /\ Stands(data, j + Len(f), t)
    BY <2>1, StandsConcat
  <2> QED
    BY <1>3, <2>2, Zenon
<1>7. lit = [ok |-> TRUE, n |-> 0 + l, next |-> j + Len(Further(l))]
  <2>1. Stands(data, i, Further(l)) /\ i + Len(Further(l)) <= Len(data) + 1
    BY <1>2, <1>3, <1>5, <1>6, Zenon
  <2>2. ReadLength(data, i, Nibble(l), 0) = [ok |-> TRUE, n |-> 0 + l, next |-> i + Len(Further(l))]
    BY <2>1, LengthRead, 0 \in Nat, ZenonT(60)
  <2> QED
    BY <1>0, <1>1, <1>3, <2>2, Zenon
<1>8. lit = [ok |-> TRUE, n |-> l, next |-> j + m]
  BY <1>2, <1>3, <1>5, <1>7, Zenon
<1>10. SubSeq(data, j + m, (j + m) + l - 1) = t
  <2>1. PICK k \in 1 .. Len(data) + 1 : k = j + m
    BY <1>3, <1>5
  <2>2. Stands(data, k, t) /\ k + Len(t) <= Len(data) + 1
    BY <1>1, <1>3, <1>5, <1>6, <2>1, Zenon
  <2>3. SubSeq(data, k, k + Len(t) - 1) = t
    BY <2>2, Standing
  <2> QED
    BY <1>1, <2>1, <2>3, Zenon
<1> QED
  BY <1>0, <1>1, <1>2, <1>3, <1>5, <1>8, <1>10, Zenon

(* Compressed data that is literals alone is one block.                        *)
LEMMA LastBlock ==
    ASSUME NEW data \in Seq(Nat), NEW i \in 1 .. Len(data) + 1, NEW t \in Seq(Nat),
           Stands(data, i, Lz4AllLiteral(t)), i + Len(Lz4AllLiteral(t)) = Len(data) + 1
    PROVE  Lz4Block(data, i) = [ok |-> TRUE, last |-> TRUE, lit |-> t] /\ i \in 1 .. Len(data)
<1>1. PICK n \in Nat, b \in Nat, s \in Seq(Nat) :
          /\ n = Nibble(Len(t)) /\ b = n * 16 /\ b \div 16 = n
          /\ s = Further(Len(t)) \o t /\ Lz4AllLiteral(t) = <<b>> \o s
  <2>1. Nibble(Len(t)) \in Nat
    <3>1. PICK k \in Nat : k = Len(t)
      OBVIOUS
    <3>2. PICK n \in 0 .. 15 : n = Nibble(k)
      BY FurtherBytes
    <3>3. n \in Nat
      OBVIOUS
    <3> QED
      BY <3>1, <3>2, <3>3, Zenon
  <2> QED
    BY <2>1, AllLiteralIs, Zenon
<1>2. PICK m \in Nat, l \in Nat, e \in Nat : m = Len(Further(Len(t))) /\ l = Len(t) /\ e = Len(data)
  <2>1. Len(t) \in Nat /\ Len(data) \in Nat
    OBVIOUS
  <2> QED
    BY <2>1, FurtherBytes, Zenon
<1>3. i + (1 + (m + l)) = e + 1
  <2>1. Len(Lz4AllLiteral(t)) = 1 + (Len(Further(Len(t))) + Len(t))
    BY AllLiteralIs
  <2> QED
    BY <1>2, <2>1, Zenon
<1>4. i \in 1 .. e /\ i + 1 \in 1 .. e + 1 /\ (i + 1) + (m + l) = e + 1 /\ e + 1 - 1 = e /\ e + 1 > e
      /\ ~(i > e) /\ ~(e > e) /\ (i + 1) + (m + l) <= e + 1
  BY <1>2, <1>3
<1>5. data[i] = b /\ Stands(data, i + 1, s)
  <2>1. Stands(data, i, <<b>> \o s)
    BY <1>1, Zenon
  <2>2. i <= Len(data)
    BY <1>2, <1>4
  <2> QED
    BY <2>1, <2>2, TokenStands
<1>6. PICK lit : lit = ReadLength(data, i + 1, data[i] \div 16, 0)
  OBVIOUS
<1>7. /\ lit = [ok |-> TRUE, n |-> l, next |-> (i + 1) + m]
      /\ ((i + 1) + m) + l = e + 1 /\ SubSeq(data, (i + 1) + m, ((i + 1) + m) + l - 1) = t
  <2>1. PICK j \in 1 .. Len(data) + 1 : j = i + 1
    BY <1>2, <1>4
  <2>2. lit = ReadLength(data, j, Nibble(Len(t)), 0)
    BY <1>1, <1>5, <1>6, <2>1, Zenon
  <2>3. Stands(data, j, Further(Len(t)) \o t)
        /\ j + (Len(Further(Len(t))) + Len(t)) <= Len(data) + 1
    BY <1>1, <1>2, <1>4, <1>5, <2>1, Zenon
  <2>4. /\ ReadLength(data, j, Nibble(Len(t)), 0)
               = [ok |-> TRUE, n |-> Len(t), next |-> j + Len(Further(Len(t)))]
        /\ (j + Len(Further(Len(t)))) + Len(t) = j + (Len(Further(Len(t))) + Len(t))
        /\ SubSeq(data, j + Len(Further(Len(t))), (j + Len(Further(Len(t)))) + Len(t) - 1) = t
    BY <2>3, LiteralsRead
  <2> QED
    BY <1>2, <1>4, <2>1, <2>2, <2>4, Zenon
<1>8. lit.ok /\ lit.n = l /\ lit.next = (i + 1) + m
  BY <1>7
<1>9. Lz4Block(data, i) = [ok |-> TRUE, last |-> TRUE, lit |-> t]
  <2>1. ((i + 1) + m) + l = e + 1 /\ SubSeq(data, (i + 1) + m, ((i + 1) + m) + l - 1) = t
    BY <1>7, Zenon
  <2>2. PICK at, match : at = lit.next + lit.n /\ match = ReadLength(data, at + 2, data[i] % 16, 4)
    OBVIOUS
  <2>3. at = e + 1 /\ SubSeq(data, lit.next, at - 1) = t
    BY <1>8, <2>1, <2>2
  <2>4. ~(i > Len(data)) /\ ~(at - 1 > Len(data)) /\ at > Len(data)
    BY <1>2, <1>4, <2>3
  <2>5. Lz4Block(data, i) = BlockOf(data, i, lit, at, match)
    BY <1>6, <2>2, BlockIs, Zenon
  <2> QED
    BY <1>8, <2>3, <2>4, <2>5, Zenon DEF BlockOf
<1> QED
  BY <1>2, <1>4, <1>9, Zenon

Start == [ok |-> TRUE, out |-> <<>>]

Turns(data) == [i \in 1 .. Len(data) + 1 |-> Lz4Block(data, i)]

(* The output is written block by block.                                       *)
WrittenFrom(after, data, blocks, n) ==
    /\ Lz4Decompress(data) = after[n] /\ after[0] = Start
    /\ \A k \in 1 .. n : after[k] = Lz4Written(after[k - 1], blocks[k])

(* The output of lz4Decompress, block by block.                                *)
LEMMA DecompressSteps ==
    ASSUME NEW data, NEW blocks, blocks = Chain(Turns(data), 1), NEW n \in Nat, n = Len(blocks)
    PROVE  \E after : WrittenFrom(after, data, blocks, n)
<1> DEFINE Step(f, k) == IF k = 0 THEN Start ELSE Lz4Written(f[k - 1], blocks[k])
           Known(f, m) == f = [k \in 0 .. m |-> Step(f, k)]
           T == {m \in Nat : \E f : Known(f, m)}
<1>1. 0 \in T
  <2> DEFINE g == [k \in 0 .. 0 |-> Start]
  <2>1. \A k \in 0 .. 0 : Step(g, k) = Start
    OBVIOUS
  <2>2. g = [k \in 0 .. 0 |-> Step(g, k)]
    <3> HIDE DEF Step
    <3> QED
      BY <2>1
  <2> HIDE DEF g, Step
  <2> QED
    BY <2>2
<1>2. ASSUME NEW m \in Nat, m \in T PROVE m + 1 \in T
  <2>1. PICK f : Known(f, m)
    BY <1>2
  <2> DEFINE g == [k \in 0 .. m + 1 |-> Step(f, k)]
  <2>2. \A k \in 0 .. m + 1 : Step(g, k) = Step(f, k)
    <3>1. \A k \in 0 .. m : k \in 0 .. m + 1 /\ g[k] = f[k]
      <4>1. \A k \in 0 .. m : k \in 0 .. m + 1
        OBVIOUS
      <4> HIDE DEF Step
      <4> QED
        BY <2>1, <4>1
    <3>2. \A k \in 0 .. m + 1 : k = 0 \/ k - 1 \in 0 .. m
      OBVIOUS
    <3> HIDE DEF g
    <3> QED
      BY <3>1, <3>2
  <2>3. Known(g, m + 1)
    <3> HIDE DEF Step
    <3> QED
      BY <2>2
  <2> HIDE DEF Known
  <2> QED
    BY <2>3
<1>3. n \in T
  <2> HIDE DEF T
  <2> QED
    BY <1>1, <1>2, Induction
<1> DEFINE after == CHOOSE f : f = [k \in 0 .. n |-> Step(f, k)]
<1>4. after = [k \in 0 .. n |-> Step(after, k)]
  <2>1. \E f : f = [k \in 0 .. n |-> Step(f, k)]
    BY <1>3
  <2> HIDE DEF Step
  <2> QED
    BY <2>1
<1>5. Lz4Decompress(data) = after[n]
  BY Zenon DEF Lz4Decompress, Start, Turns
<1>6. \A k \in 0 .. n : after[k] = Step(after, k)
  <2> HIDE DEF after, Step
  <2> QED
    BY <1>4
<1>7. after[0] = Start /\ \A k \in 1 .. n : after[k] = Lz4Written(after[k - 1], blocks[k])
  <2>1. 0 \in 0 .. n /\ \A k \in 1 .. n : k \in 0 .. n /\ k # 0
    OBVIOUS
  <2> HIDE DEF after
  <2> QED
    BY <1>6, <2>1
<1> HIDE DEF after
<1> QED
  BY <1>5, <1>7 DEF WrittenFrom

(* A block that is not the last goes on further.                               *)
LEMMA BlocksAdvance ==
    ASSUME NEW data \in Seq(Nat)
    PROVE  Advances(Turns(data), Len(data) + 1)
<1>1. DOMAIN Turns(data) = 1 .. Len(data) + 1
      /\ \A i \in 1 .. Len(data) + 1 : Turns(data)[i] = Lz4Block(data, i)
  BY DEF Turns
<1>2. \A i \in 1 .. Len(data) + 1 : ~Lz4Block(data, i).last => Lz4Block(data, i).next \in i + 1 .. Len(data) + 1
  BY BlockAdvances
<1> QED
  BY <1>1, <1>2, Zenon DEF Advances

(* Compressed data of one block, and of two.                                   *)
LEMMA OneBlock ==
    ASSUME NEW data \in Seq(Nat), NEW b, Lz4Block(data, 1) = b, b.last
    PROVE  Lz4Decompress(data) = Lz4Written(Start, b)
<1>1. PICK n \in Nat : n = Len(data) + 1 /\ 1 \in 1 .. n
  OBVIOUS
<1>2. PICK e : e = Turns(data) /\ Advances(e, n) /\ \A i \in 1 .. n : e[i] = Lz4Block(data, i)
  <2>1. \A i \in 1 .. n : Turns(data)[i] = Lz4Block(data, i)
    BY <1>1 DEF Turns
  <2>2. Advances(Turns(data), n)
    BY <1>1, BlocksAdvance, Zenon
  <2> QED
    BY <2>1, <2>2, Zenon
<1>3. PICK p : p = [k \in 1 .. 1 |-> 1]
  OBVIOUS
<1>4. Path(e, n, p, 1) /\ p[1] = 1
  <2>1. p \in [1 .. 1 -> 1 .. n] /\ p[1] = 1
    BY <1>1, <1>3
  <2>2. \A k \in 1 .. 1 - 1 : FALSE
    OBVIOUS
  <2>3. e[1].last
    BY <1>1, <1>2
  <2> QED
    BY <2>1, <2>2, <2>3 DEF Path
<1>5. Chain(e, 1) = Along(e, p, 1)
  <2>1. 1 \in Nat \ {0}
    OBVIOUS
  <2> QED
    BY <1>2, <1>4, <2>1, ChainPath
<1>6. PICK c : c = Chain(Turns(data), 1) /\ c = [k \in 1 .. 1 |-> e[p[k]]]
  BY <1>2, <1>5 DEF Along
<1>7. Len(c) = 1 /\ c[1] = b
  BY <1>1, <1>2, <1>4, <1>6
<1>8. PICK after : Lz4Decompress(data) = after[1] /\ after[0] = Start
                   /\ \A k \in 1 .. 1 : after[k] = Lz4Written(after[k - 1], c[k])
  <2>1. 1 \in Nat /\ 1 = Len(c)
    BY <1>7
  <2>2. c = Chain(Turns(data), 1)
    BY <1>6, Zenon
  <2>3. \E after : WrittenFrom(after, data, c, 1)
    BY <2>1, <2>2, DecompressSteps, Zenon
  <2> QED
    BY <2>3 DEF WrittenFrom
<1>9. 1 \in 1 .. 1 /\ 1 - 1 = 0
  OBVIOUS
<1> QED
  BY <1>7, <1>8, <1>9, Zenon

(* The output of a block with a match, and of the literals at the end.         *)
LEMMA TwoBlocks ==
    ASSUME NEW data \in Seq(Nat), NEW b1, NEW b2, NEW i \in 1 .. Len(data) + 1,
           Lz4Block(data, 1) = b1, ~b1.last, b1.next = i, Lz4Block(data, i) = b2, b2.last
    PROVE  Lz4Decompress(data) = Lz4Written(Lz4Written(Start, b1), b2)
<1>1. PICK n \in Nat : n = Len(data) + 1 /\ 1 \in 1 .. n /\ i \in 1 .. n
  OBVIOUS
<1>2. PICK e : e = Turns(data) /\ Advances(e, n) /\ \A j \in 1 .. n : e[j] = Lz4Block(data, j)
  <2>1. \A j \in 1 .. n : Turns(data)[j] = Lz4Block(data, j)
    BY <1>1 DEF Turns
  <2>2. Advances(Turns(data), n)
    BY <1>1, BlocksAdvance, Zenon
  <2> QED
    BY <2>1, <2>2, Zenon
<1>3. PICK p : p = [k \in 1 .. 2 |-> IF k = 1 THEN 1 ELSE i]
  OBVIOUS
<1>4. Path(e, n, p, 2) /\ p[1] = 1 /\ p[2] = i
  <2>1. p \in [1 .. 2 -> 1 .. n] /\ p[1] = 1 /\ p[2] = i
    BY <1>1, <1>3
  <2>2. \A k \in 1 .. 2 - 1 : k = 1 /\ k + 1 = 2
    OBVIOUS
  <2>3. e[1] = b1 /\ e[i] = b2
    BY <1>1, <1>2
  <2>4. \A k \in 1 .. 2 - 1 : ~e[p[k]].last /\ e[p[k]].next = p[k + 1]
    BY <2>1, <2>2, <2>3
  <2>5. e[p[2]].last
    BY <2>1, <2>3
  <2> QED
    BY <2>1, <2>4, <2>5 DEF Path
<1>5. Chain(e, 1) = Along(e, p, 2)
  <2>1. 2 \in Nat \ {0}
    OBVIOUS
  <2>2. Chain(e, p[1]) = Along(e, p, 2)
    BY <1>2, <1>4, <2>1, ChainPath
  <2> QED
    BY <1>4, <2>2
<1>6. PICK c : c = Chain(Turns(data), 1) /\ c = [k \in 1 .. 2 |-> e[p[k]]]
  BY <1>2, <1>5 DEF Along
<1>7. Len(c) = 2 /\ c[1] = b1 /\ c[2] = b2
  BY <1>1, <1>2, <1>4, <1>6
<1>8. PICK after : Lz4Decompress(data) = after[2] /\ after[0] = Start
                   /\ \A k \in 1 .. 2 : after[k] = Lz4Written(after[k - 1], c[k])
  <2>1. 2 \in Nat /\ 2 = Len(c)
    BY <1>7
  <2>2. c = Chain(Turns(data), 1)
    BY <1>6, Zenon
  <2>3. \E after : WrittenFrom(after, data, c, 2)
    BY <2>1, <2>2, DecompressSteps, Zenon
  <2> QED
    BY <2>3 DEF WrittenFrom
<1>9. 1 \in 1 .. 2 /\ 1 - 1 = 0 /\ 2 \in 1 .. 2 /\ 2 - 1 = 1
  OBVIOUS
<1> QED
  BY <1>7, <1>8, <1>9, Zenon

(* What stands at a position, when it is put together of two.                  *)
LEMMA Offset ==
    ASSUME NEW off \in 0 .. Byte * Byte - 1
    PROVE  off % Byte \in Nat /\ off \div Byte \in Nat /\ (off % Byte) + Byte * (off \div Byte) = off
<1>1. PICK b \in Nat \ {0} : b = Byte
  BY Bytes256
<1>2. off \in Nat
  <2>1. PICK c : c = Byte * Byte - 1
    OBVIOUS
  <2> QED
    OBVIOUS
<1>3. off % b \in Nat /\ off \div b \in Nat /\ (off % b) + b * (off \div b) = off
  BY <1>2
<1> QED
  BY <1>1, <1>3, Zenon

(* The halves of a token.                                                      *)
LEMMA TokenIs ==
    ASSUME NEW a \in 0 .. 15, NEW b \in 0 .. 15
    PROVE  a * 16 + b \in Nat /\ (a * 16 + b) \div 16 = a /\ (a * 16 + b) % 16 = b
OBVIOUS

LEMMA TokenBefore ==
    ASSUME NEW b \in Nat, NEW s \in Seq(Nat), NEW u \in Seq(Nat)
    PROVE  (<<b>> \o s) \o u = <<b>> \o (s \o u)
<1>1. PICK t \in Seq(Nat) : t = <<b>>
  <2>1. <<b>> \in Seq(Nat)
    OBVIOUS
  <2> QED
    BY <2>1, Zenon
<1>2. (t \o s) \o u = t \o (s \o u)
  BY Associative, SMTT(30)
<1> QED
  BY <1>1, <1>2, Zenon

(* The parts of compressed data with one match, and where they stand.          *)
Laid(data, tok, f, first, lo, hi, g, z, at, next) ==
    /\ data \in Seq(Nat)
    /\ at = 2 + (Len(f) + Len(first)) /\ next = (at + 2) + Len(g) /\ next + Len(z) = Len(data) + 1
    /\ data[1] = tok /\ Stands(data, 2, f \o first)
    /\ data[at] = lo /\ data[at + 1] = hi
    /\ Stands(data, at + 2, g) /\ Stands(data, next, z)

(* The parts of compressed data stand one behind the other.                    *)
LEMMA PartsStand ==
    ASSUME NEW tok \in Nat, NEW f \in Seq(Nat), NEW first \in Seq(Nat), NEW lo \in Nat, NEW hi \in Nat,
           NEW g \in Seq(Nat), NEW z \in Seq(Nat)
    PROVE  \E at \in Nat, next \in Nat :
              Laid(<<tok>> \o f \o first \o <<lo, hi>> \o g \o z, tok, f, first, lo, hi, g, z, at, next)
<1>0. (<<tok>> \o f) \o first = <<tok>> \o (f \o first)
  BY TokenBefore
<1>1. PICK o \in Seq(Nat) : o = <<lo, hi>> /\ Len(o) = 2 /\ o[1] = lo /\ o[2] = hi
  <2>1. <<lo, hi>> \in Seq(Nat) /\ Len(<<lo, hi>>) = 2 /\ <<lo, hi>>[1] = lo /\ <<lo, hi>>[2] = hi
    OBVIOUS
  <2> QED
    BY <2>1, Zenon
<1>2. PICK t \in Seq(Nat) : t = <<tok>> /\ Len(t) = 1
  <2>1. <<tok>> \in Seq(Nat) /\ Len(<<tok>>) = 1
    OBVIOUS
  <2> QED
    BY <2>1, Zenon
<1>3. PICK s2 \in Seq(Nat) : s2 = f \o first /\ Len(s2) = Len(f) + Len(first)
  BY Concat
<1>4. PICK s3 \in Seq(Nat) : s3 = t \o s2 /\ Len(s3) = Len(t) + Len(s2)
  BY Concat
<1>5. PICK s4 \in Seq(Nat) : s4 = s3 \o o /\ Len(s4) = Len(s3) + Len(o)
  BY Concat
<1>6. PICK s5 \in Seq(Nat) : s5 = s4 \o g /\ Len(s5) = Len(s4) + Len(g)
  BY Concat
<1>7. PICK data \in Seq(Nat) : data = s5 \o z /\ Len(data) = Len(s5) + Len(z)
  BY Concat
<1>8. data = <<tok>> \o f \o first \o <<lo, hi>> \o g \o z
  <2> QED
    BY <1>1, <1>2, <1>3, <1>4, <1>5, <1>6, <1>7, <1>0, Zenon
<1>9. PICK m \in Nat, l \in Nat, c \in Nat, d \in Nat :
          m = Len(f) /\ l = Len(first) /\ c = Len(g) /\ d = Len(z)
  OBVIOUS
<1>10. PICK at \in Nat, next \in Nat : at = 2 + (m + l) /\ next = (at + 2) + c
  OBVIOUS
<1>11. Len(s3) = 1 + (m + l) /\ Len(s4) = (1 + (m + l)) + 2 /\ Len(s5) = ((1 + (m + l)) + 2) + c
       /\ Len(data) = (((1 + (m + l)) + 2) + c) + d
  BY <1>1, <1>2, <1>3, <1>4, <1>5, <1>6, <1>7, <1>9, ZenonT(60)
<1>12. 1 + (1 + (m + l)) = at /\ 1 + ((1 + (m + l)) + 2) = at + 2 /\ 1 + (((1 + (m + l)) + 2) + c) = next
       /\ next + d = ((((1 + (m + l)) + 2) + c) + d) + 1
  BY <1>10
<1>13. Stands(data, 1, data)
  <2>1. \A k \in 1 .. Len(data) : 1 + k - 1 = k
    OBVIOUS
  <2> QED
    BY <2>1, Zenon DEF Stands
<1>14. 1 \in Nat
  OBVIOUS
<1>15. Stands(data, 1, s5) /\ Stands(data, 1 + Len(s5), z)
  BY <1>7, <1>13, <1>14, StandsConcat
<1>16. Stands(data, 1, s4) /\ Stands(data, 1 + Len(s4), g)
  BY <1>6, <1>14, <1>15, StandsConcat
<1>17. Stands(data, 1, s3) /\ Stands(data, 1 + Len(s3), o)
  BY <1>5, <1>14, <1>16, StandsConcat
<1>18. next <= Len(data) + 1 /\ 1 <= Len(data) /\ at + 1 <= Len(data) /\ 1 \in 1 .. Len(data) + 1
  BY <1>10, <1>11
<1>19. data[1] = tok /\ Stands(data, 2, s2)
  <2>1. Stands(data, 1, <<tok>> \o s2)
    BY <1>2, <1>4, <1>17, Zenon
  <2>2. (1 <= Len(data) => data[1] = tok) /\ Stands(data, 1 + 1, s2)
    BY <1>18, <2>1, TokenStands
  <2>3. 1 + 1 = 2
    OBVIOUS
  <2> QED
    BY <1>18, <2>2, <2>3, Zenon
<1>20. data[at] = lo /\ data[at + 1] = hi
  <2>1. Stands(data, at, o)
    BY <1>11, <1>12, <1>17, Zenon
  <2>2. 1 \in 1 .. 2 /\ 2 \in 1 .. 2 /\ at + 1 - 1 = at /\ at + 2 - 1 = at + 1 /\ at <= Len(data)
    BY <1>18
  <2> QED
    BY <1>1, <1>18, <2>1, <2>2, Zenon DEF Stands
<1>21. Stands(data, at + 2, g) /\ Stands(data, next, z)
  BY <1>11, <1>12, <1>15, <1>16, Zenon
<1>22. Laid(data, tok, f, first, lo, hi, g, z, at, next)
  BY <1>3, <1>9, <1>10, <1>11, <1>12, <1>19, <1>20, <1>21, Zenon DEF Laid
<1> QED
  BY <1>8, <1>22, Zenon

MatchIs(first, off, len, next) ==
    [ok |-> TRUE, last |-> FALSE, lit |-> first, off |-> off, len |-> len, next |-> next]

LastIs(second) == [ok |-> TRUE, last |-> TRUE, lit |-> second]

(* The length of a match is read back.                                         *)
LEMMA MatchRead ==
    ASSUME NEW data \in Seq(Nat), NEW i \in 1 .. Len(data) + 1, NEW n \in Nat,
           Stands(data, i, Further(n)), i + Len(Further(n)) <= Len(data) + 1
    PROVE  ReadLength(data, i, Nibble(n), 4)
               = [ok |-> TRUE, n |-> 4 + n, next |-> i + Len(Further(n))]
BY LengthRead

(* Compressed data with one match is two blocks.                               *)
LEMMA MatchBlock ==
    ASSUME NEW first \in Seq(Nat), NEW off \in 0 .. Byte * Byte - 1, NEW len \in Nat, len >= 4,
           NEW second \in Seq(Nat), NEW data, data = Compressed(first, off, len, second)
    PROVE  data \in Seq(Nat)
           /\ \E next \in 1 .. Len(data) + 1 :
                 /\ Lz4Block(data, 1) = MatchIs(first, off, len, next)
                 /\ Lz4Block(data, next) = LastIs(second)
<1>1. PICK l \in Nat, m \in Nat : l = Len(first) /\ m = len - 4 /\ 4 + m = len
  OBVIOUS
<1>2. PICK a \in 0 .. 15, f \in Seq(Nat) : a = Nibble(l) /\ f = Further(l)
  BY FurtherBytes
<1>3. PICK b \in 0 .. 15, g \in Seq(Nat) : b = Nibble(m) /\ g = Further(m)
  BY FurtherBytes
<1>4. PICK tok \in Nat : tok = a * 16 + b /\ tok \div 16 = a /\ tok % 16 = b
  BY TokenIs
<1>5. PICK lo \in Nat, hi \in Nat : lo = off % Byte /\ hi = off \div Byte /\ lo + Byte * hi = off
  BY Offset, Zenon
<1>6. PICK z \in Seq(Nat) : z = Lz4AllLiteral(second)
  BY AllLiteralIs, Zenon
<1>7. data = <<tok>> \o f \o first \o <<lo, hi>> \o g \o z
  BY <1>1, <1>2, <1>3, <1>4, <1>5, <1>6, Zenon DEF Compressed
<1>8. PICK at \in Nat, next \in Nat : Laid(data, tok, f, first, lo, hi, g, z, at, next)
  <2>1. PICK at \in Nat, next \in Nat :
            Laid(<<tok>> \o f \o first \o <<lo, hi>> \o g \o z, tok, f, first, lo, hi, g, z, at, next)
    BY PartsStand
  <2> QED
    BY <1>7, <2>1, Zenon
<1>9. /\ data \in Seq(Nat)
      /\ at = 2 + (Len(f) + Len(first)) /\ next = (at + 2) + Len(g) /\ next + Len(z) = Len(data) + 1
      /\ data[1] = tok /\ Stands(data, 2, f \o first)
      /\ data[at] = lo /\ data[at + 1] = hi
      /\ Stands(data, at + 2, g) /\ Stands(data, next, z)
  BY <1>8, Zenon DEF Laid
<1>10. PICK e \in Nat, fl \in Nat, gl \in Nat, zl \in Nat :
           e = Len(data) /\ fl = Len(f) /\ gl = Len(g) /\ zl = Len(z)
  BY <1>9, SMTT(30)
<1>11. at = 2 + (fl + l) /\ next = (at + 2) + gl /\ next + zl = e + 1
  BY <1>1, <1>9, <1>10, Zenon
<1>12. /\ next \in 1 .. e + 1 /\ 2 \in 1 .. e + 1 /\ at + 2 \in 1 .. e + 1 /\ (at + 2) + gl <= e + 1
       /\ 2 + (fl + l) <= e + 1 /\ (2 + fl) + l = at /\ ~(1 > e) /\ ~(at - 1 > e) /\ ~(at > e) /\ ~(at + 1 > e)
       /\ 1 + 1 = 2
  BY <1>11
<1>13. PICK lit : lit = ReadLength(data, 2, a, 0)
  OBVIOUS
<1>14. lit = [ok |-> TRUE, n |-> l, next |-> 2 + fl] /\ SubSeq(data, 2 + fl, (2 + fl) + l - 1) = first
  <2>1. 2 \in 1 .. Len(data) + 1 /\ Stands(data, 2, Further(Len(first)) \o first)
        /\ 2 + (Len(Further(Len(first))) + Len(first)) <= Len(data) + 1
    BY <1>1, <1>2, <1>9, <1>10, <1>12, Zenon
  <2>2. /\ ReadLength(data, 2, Nibble(Len(first)), 0)
               = [ok |-> TRUE, n |-> Len(first), next |-> 2 + Len(Further(Len(first)))]
        /\ SubSeq(data, 2 + Len(Further(Len(first))), (2 + Len(Further(Len(first)))) + Len(first) - 1) = first
    BY <1>9, <2>1, LiteralsRead, ZenonT(60)
  <2> QED
    BY <1>1, <1>2, <1>10, <1>13, <2>2, Zenon
<1>15. lit.ok /\ lit.n = l /\ lit.next = 2 + fl
  BY <1>14
<1>16. PICK match : match = ReadLength(data, at + 2, b, 4)
  OBVIOUS
<1>17. match = [ok |-> TRUE, n |-> len, next |-> next]
  <2>1. PICK i \in 1 .. Len(data) + 1 : i = at + 2
    BY <1>10, <1>12
  <2>2. Stands(data, i, Further(m)) /\ i + Len(Further(m)) <= Len(data) + 1
    BY <1>3, <1>9, <1>10, <1>12, <2>1, Zenon
  <2>3. ReadLength(data, i, Nibble(m), 4) = [ok |-> TRUE, n |-> 4 + m, next |-> i + Len(Further(m))]
    <3>1. data \in Seq(Nat)
      BY <1>9, Zenon
    <3> QED
      BY <2>2, <3>1, MatchRead, Zenon
  <2> QED
    BY <1>1, <1>3, <1>10, <1>11, <1>16, <2>1, <2>3, Zenon
<1>18. match.ok /\ match.n = len /\ match.next = next
  BY <1>17
<1>19. Lz4Block(data, 1) = MatchIs(first, off, len, next)
  <2>1. lit = ReadLength(data, 1 + 1, data[1] \div 16, 0)
    BY <1>4, <1>9, <1>12, <1>13, Zenon
  <2>2. at = lit.next + lit.n
    BY <1>12, <1>15, Zenon
  <2>3. match = ReadLength(data, at + 2, data[1] % 16, 4)
    BY <1>4, <1>9, <1>16, Zenon
  <2>4. Lz4Block(data, 1) = BlockOf(data, 1, lit, at, match)
    <3>1. PICK i : i = 1
      OBVIOUS
    <3>2. /\ lit = ReadLength(data, i + 1, data[i] \div 16, 0)
          /\ match = ReadLength(data, at + 2, data[i] % 16, 4)
      BY <2>1, <2>3, <3>1, Zenon
    <3>3. Lz4Block(data, i) = BlockOf(data, i, lit, at, match)
      BY <2>2, <3>2, BlockIs
    <3> QED
      BY <3>1, <3>3, Zenon
  <2>5. SubSeq(data, lit.next, at - 1) = first
    <3>1. SubSeq(data, 2 + fl, (2 + fl) + l - 1) = first /\ (2 + fl) + l = at
      BY <1>12, <1>14, Zenon
    <3>2. SubSeq(data, 2 + fl, at - 1) = first
      BY <3>1
    <3> QED
      BY <1>15, <3>2, Zenon
  <2>6. data[at] + Byte * data[at + 1] = off
    BY <1>5, <1>9, Zenon
  <2> QED
    BY <1>10, <1>12, <1>15, <1>18, <2>4, <2>5, <2>6, Zenon DEF BlockOf, MatchIs
<1>20. Lz4Block(data, next) = LastIs(second)
  <2>1. next \in 1 .. Len(data) + 1 /\ Stands(data, next, Lz4AllLiteral(second))
        /\ next + Len(Lz4AllLiteral(second)) = Len(data) + 1
    BY <1>6, <1>9, <1>10, <1>12, Zenon
  <2> QED
    BY <1>9, <2>1, LastBlock, Zenon DEF LastIs
<1> QED
  BY <1>9, <1>10, <1>12, <1>19, <1>20, Zenon

(* Remainders.                                                                 *)
LEMMA Modulo ==
    ASSUME NEW d \in Nat \ {0}
    PROVE  /\ \A x \in 0 .. d - 1 : x % d = x
           /\ \A x \in Nat : x >= d => x - d \in Nat /\ (x - d) % d = x % d
           /\ \A x \in Nat : x % d \in 0 .. d - 1
<1>1. \A x \in 0 .. d - 1 : x % d = x
  OBVIOUS
<1>2. \A x \in Nat : x % d \in 0 .. d - 1
  OBVIOUS
<1>3. ASSUME NEW x \in Nat, x >= d PROVE x - d \in Nat /\ (x - d) % d = x % d
  <2>1. x - d \in Nat
    BY <1>3
  <2>2. PICK q \in Nat : q = x \div d /\ q * d <= x /\ x < q * d + d
    BY Division
  <2>3. q * d \in Nat
    OBVIOUS
  <2>4. q # 0
    <3>1. 0 * d = 0
      OBVIOUS
    <3> QED
      BY <1>3, <2>2, <3>1
  <2>5. PICK p \in Nat : p = q - 1 /\ p * d = q * d - d
    <3>1. q - 1 \in Nat /\ (q - 1) * d = q * d - d
      BY <2>4
    <3> QED
      BY <3>1
  <2>6. p * d <= x - d /\ x - d < p * d + d
    BY <2>2, <2>3, <2>5
  <2>7. (x - d) \div d = p
    BY <2>1, <2>6, Division
  <2>8. \A y \in Nat : y % d = y - (y \div d) * d
    OBVIOUS
  <2>9. x % d = x - q * d /\ (x - d) % d = (x - d) - p * d
    BY <2>1, <2>2, <2>7, <2>8, Zenon
  <2>10. (x - d) % d = x % d
    BY <2>3, <2>5, <2>9
  <2> QED
    BY <2>1, <2>10
<1> QED
  BY <1>1, <1>2, <1>3

(* A match that is copied: every byte equals the one its offset before it.     *)
LEMMA CopiedIs ==
    ASSUME NEW first \in Seq(Nat), NEW off \in 1 .. Len(first), NEW len \in Nat
    PROVE  /\ Copied(first, off, len) \in Seq(Nat)
           /\ Len(Copied(first, off, len)) = Len(first) + len
           /\ \A k \in 1 .. Len(first) : Copied(first, off, len)[k] = first[k]
           /\ \A p \in Len(first) + 1 .. Len(first) + len :
                 p - off \in 1 .. p - 1 /\ Copied(first, off, len)[p] = Copied(first, off, len)[p - off]
<1>1. PICK n \in Nat : n = Len(first) /\ off \in 1 .. n /\ off \in Nat \ {0}
  OBVIOUS
<1> DEFINE At(j) == n - off + 1 + ((j - 1) % off)
           c == [j \in 1 .. len |-> first[At(j)]]
<1>2. ASSUME NEW j \in 1 .. len PROVE At(j) \in 1 .. n
  <2>1. PICK x \in 0 .. off - 1 : x = (j - 1) % off
    <3>1. j - 1 \in Nat
      OBVIOUS
    <3> QED
      BY <1>1, <3>1, Modulo
  <2>2. n - off + 1 + x \in 1 .. n
    BY <1>1
  <2> QED
    BY <2>1, <2>2, Zenon
<1>3. c \in Seq(Nat) /\ Len(c) = len /\ \A j \in 1 .. len : c[j] = first[At(j)]
  <2>1. \A j \in 1 .. len : first[At(j)] \in Nat
    <3>1. \A k \in 1 .. n : first[k] \in Nat
      BY <1>1
    <3> HIDE DEF At
    <3> QED
      BY <1>2, <3>1
  <2> HIDE DEF At
  <2> QED
    BY <2>1
<1>4. Copied(first, off, len) = first \o c
  BY <1>1, Zenon DEF Copied
<1> HIDE DEF c
<1>5. PICK s \in Seq(Nat) : /\ s = first \o c /\ Len(s) = n + len
                            /\ \A k \in 1 .. n : s[k] = first[k]
                            /\ \A j \in 1 .. len : s[n + j] = c[j]
  <2>1. /\ first \o c \in Seq(Nat) /\ Len(first \o c) = Len(first) + Len(c)
        /\ \A k \in 1 .. Len(first) : (first \o c)[k] = first[k]
        /\ \A j \in 1 .. Len(c) : (first \o c)[Len(first) + j] = c[j]
    <3>1. c \in Seq(Nat)
      BY <1>3, Zenon
    <3> QED
      BY <3>1, Concat
  <2>2. PICK s \in Seq(Nat) : s = first \o c
    BY <2>1
  <2>3. /\ s = first \o c /\ Len(s) = n + len
        /\ \A k \in 1 .. n : s[k] = first[k]
        /\ \A j \in 1 .. len : s[n + j] = c[j]
    BY <1>1, <1>3, <2>1, <2>2, Zenon
  <2> QED
    BY <2>3, Zenon
<1>6. ASSUME NEW p \in n + 1 .. n + len PROVE p - off \in 1 .. p - 1 /\ s[p] = s[p - off]
  <2>1. p - off \in 1 .. p - 1
    BY <1>1
  <2>2. PICK j \in 1 .. len : p = n + j
    <3>1. p - n \in 1 .. len /\ p = n + (p - n)
      OBVIOUS
    <3> QED
      BY <3>1
  <2>3. s[p] = first[At(j)]
    BY <1>3, <1>5, <2>2, Zenon
  <2>4. CASE j <= off
    <3>1. j - 1 \in 0 .. off - 1
      BY <1>1, <2>4
    <3>2. (j - 1) % off = j - 1
      BY <1>1, <3>1, Modulo
    <3>3. At(j) = p - off /\ p - off \in 1 .. n
      <4>1. n - off + 1 + (j - 1) = p - off /\ p - off \in 1 .. n
        BY <1>1, <2>2, <2>4
      <4> QED
        BY <3>2, <4>1, Zenon
    <3> HIDE DEF At
    <3> QED
      BY <1>5, <2>1, <2>3, <3>3
  <2>5. CASE j > off
    <3>1. PICK i \in 1 .. len, x \in Nat : i = j - off /\ x = j - 1 /\ x >= off /\ x - off = i - 1 /\ p - off = n + i
      BY <1>1, <2>2, <2>5
    <3>2. (x - off) % off = x % off
      BY <1>1, <3>1, Modulo
    <3>3. At(i) = At(j)
      BY <3>1, <3>2
    <3>4. s[n + i] = first[At(i)]
      BY <1>3, <1>5
    <3> HIDE DEF At
    <3> QED
      BY <2>1, <2>3, <3>1, <3>3, <3>4
  <2> QED
    BY <1>1, <2>4, <2>5
<1> QED
  BY <1>1, <1>4, <1>5, <1>6, Zenon

(* What LZ4's format says of the output.                                       *)
Exact(r, first, off, len, second) ==
    /\ r.ok = (off \in 1 .. Len(first))
    /\ r.ok => /\ Len(r.out) = Len(first) + len + Len(second)
               /\ SubSeq(r.out, 1, Len(first)) = first
               /\ \A p \in Len(first) + 1 .. Len(first) + len : r.out[p] = r.out[p - off]
               /\ SubSeq(r.out, Len(first) + len + 1, Len(r.out)) = second

(* The output of literals only, and of a match that begins outside the output. *)
LEMMA WrittenIs ==
    ASSUME NEW first \in Seq(Nat), NEW second \in Seq(Nat), NEW off, NEW len, NEW next
    PROVE  /\ Lz4Written(Start, LastIs(first)) = [ok |-> TRUE, out |-> first]
           /\ off \notin 1 .. Len(first) =>
                 Lz4Written(Lz4Written(Start, MatchIs(first, off, len, next)), LastIs(second)) = Error
<1>1. <<>> \o first = first
  OBVIOUS
<1>2. PICK b : b = MatchIs(first, off, len, next) /\ b.ok /\ ~b.last /\ b.lit = first /\ b.off = off /\ b.len = len
  <2>1. PICK b : b = MatchIs(first, off, len, next)
    OBVIOUS
  <2>2. b.ok /\ ~b.last /\ b.lit = first /\ b.off = off /\ b.len = len
    BY <2>1 DEF MatchIs
  <2> QED
    BY <2>1, <2>2, Zenon
<1>last. \A t : LastIs(t).ok /\ LastIs(t).last /\ LastIs(t).lit = t
  BY DEF LastIs
<1>3. PICK f : f = LastIs(first) /\ f.ok /\ f.last /\ f.lit = first
  BY <1>last, Zenon
<1>4. PICK e : e = LastIs(second) /\ e.ok /\ e.last /\ e.lit = second
  BY <1>last, Zenon
<1>5. Start.ok /\ Start.out = <<>>
  BY DEF Start
<1>6. Lz4Written(Start, f) = [ok |-> TRUE, out |-> first]
  BY <1>1, <1>3, <1>5, Zenon DEF Lz4Written
<1>7. ASSUME off \notin 1 .. Len(first) PROVE Lz4Written(Lz4Written(Start, b), e) = Error
  <2>1. Lz4Written(Start, b) = Error
    BY <1>1, <1>2, <1>5, <1>7, Zenon DEF Lz4Written
  <2>2. ~Error.ok
    BY DEF Error
  <2> QED
    BY <2>1, <2>2, Zenon DEF Lz4Written
<1> QED
  BY <1>2, <1>3, <1>4, <1>6, <1>7, Zenon

(* The output of a match that begins inside it.                                *)
LEMMA WrittenMatch ==
    ASSUME NEW first \in Seq(Nat), NEW second \in Seq(Nat), NEW off, NEW len, NEW next,
           off \in 1 .. Len(first)
    PROVE  Lz4Written(Lz4Written(Start, MatchIs(first, off, len, next)), LastIs(second))
               = [ok |-> TRUE, out |-> Copied(first, off, len) \o second]
<1>1. <<>> \o first = first
  OBVIOUS
<1>2. PICK b : b = MatchIs(first, off, len, next) /\ b.ok /\ ~b.last /\ b.lit = first /\ b.off = off /\ b.len = len
  <2>1. PICK b : b = MatchIs(first, off, len, next)
    OBVIOUS
  <2>2. b.ok /\ ~b.last /\ b.lit = first /\ b.off = off /\ b.len = len
    BY <2>1 DEF MatchIs
  <2> QED
    BY <2>1, <2>2, Zenon
<1>3. LastIs(second).ok /\ LastIs(second).last /\ LastIs(second).lit = second
  BY DEF LastIs
<1>4. Start.ok /\ Start.out = <<>>
  BY DEF Start
<1>5. Lz4Written(Start, b) = [ok |-> TRUE, out |-> Copied(first, off, len)]
  BY <1>1, <1>2, <1>4, Zenon DEF Lz4Written
<1>6. PICK w : w = Lz4Written(Start, b) /\ w.ok /\ w.out = Copied(first, off, len)
  BY <1>5
<1>7. Lz4Written(w, LastIs(second)) = [ok |-> TRUE, out |-> Copied(first, off, len) \o second]
  BY <1>3, <1>6, Zenon DEF Lz4Written
<1> QED
  BY <1>2, <1>6, <1>7, Zenon

(* Compressed data with one match: exact at every length and every offset.     *)
LEMMA MatchIsExact ==
    ASSUME NEW first \in Seq(Nat), NEW off \in 0 .. Byte * Byte - 1, NEW len \in Nat, len >= 4,
           NEW second \in Seq(Nat)
    PROVE  Exact(Lz4Decompress(Compressed(first, off, len, second)), first, off, len, second)
<1>0. ASSUME NEW next, off \in 1 .. Len(first)
      PROVE  Lz4Written(Lz4Written(Start, MatchIs(first, off, len, next)), LastIs(second))
                 = [ok |-> TRUE, out |-> Copied(first, off, len) \o second]
  BY <1>0, WrittenMatch
<1>1. PICK data \in Seq(Nat) : \E next \in 1 .. Len(data) + 1 :
          /\ data = Compressed(first, off, len, second)
          /\ Lz4Block(data, 1) = MatchIs(first, off, len, next)
          /\ Lz4Block(data, next) = LastIs(second)
  BY MatchBlock
<1>2. PICK next \in 1 .. Len(data) + 1 :
          /\ data = Compressed(first, off, len, second)
          /\ Lz4Block(data, 1) = MatchIs(first, off, len, next)
          /\ Lz4Block(data, next) = LastIs(second)
  BY <1>1
<1>3. PICK r : r = Lz4Decompress(data)
  OBVIOUS
<1>4. r = Lz4Written(Lz4Written(Start, MatchIs(first, off, len, next)), LastIs(second))
  <2>1. PICK b1, b2 : b1 = MatchIs(first, off, len, next) /\ b2 = LastIs(second)
    OBVIOUS
  <2>2. ~b1.last /\ b1.next = next /\ b2.last
    BY <2>1 DEF MatchIs, LastIs
  <2>3. Lz4Block(data, 1) = b1 /\ Lz4Block(data, next) = b2
    BY <1>2, <2>1, Zenon
  <2>4. Lz4Decompress(data) = Lz4Written(Lz4Written(Start, b1), b2)
    BY <2>2, <2>3, TwoBlocks
  <2> QED
    BY <1>3, <2>1, <2>4, Zenon
<1>5. CASE off \notin 1 .. Len(first)
  <2>1. r = Error
    BY <1>4, <1>5, WrittenIs
  <2>2. Error.ok = FALSE
    BY DEF Error
  <2> QED
    <3>1. (off \in 1 .. Len(first)) = FALSE
      BY <1>5
    <3>2. r.ok = FALSE
      BY <2>1, <2>2, Zenon
    <3>3. r.ok = (off \in 1 .. Len(first))
      BY <3>1, <3>2, Zenon
    <3> QED
      BY <1>2, <1>3, <3>2, <3>3, Zenon DEF Exact
<1>6. CASE off \in 1 .. Len(first)
  <2>1. r = [ok |-> TRUE, out |-> Copied(first, off, len) \o second]
    BY <1>0, <1>4, <1>6, Zenon
  <2>2. PICK n \in Nat, m \in Nat : n = Len(first) /\ m = Len(second)
    OBVIOUS
  <2>3. PICK w \in Seq(Nat) : /\ w = Copied(first, off, len) /\ Len(w) = n + len
                              /\ \A k \in 1 .. n : w[k] = first[k]
                              /\ \A p \in n + 1 .. n + len : p - off \in 1 .. p - 1 /\ w[p] = w[p - off]
    BY <1>6, <2>2, CopiedIs, ZenonT(60)
  <2>4. PICK out \in Seq(Nat) : /\ out = w \o second /\ Len(out) = (n + len) + m
                                /\ \A k \in 1 .. n + len : out[k] = w[k]
                                /\ \A k \in 1 .. m : out[(n + len) + k] = second[k]
    <3>1. /\ w \o second \in Seq(Nat) /\ Len(w \o second) = Len(w) + Len(second)
          /\ \A k \in 1 .. Len(w) : (w \o second)[k] = w[k]
          /\ \A k \in 1 .. Len(second) : (w \o second)[Len(w) + k] = second[k]
      BY Concat
    <3>2. PICK out \in Seq(Nat) : out = w \o second
      BY <3>1
    <3>3. /\ out = w \o second /\ Len(out) = (n + len) + m
          /\ \A k \in 1 .. n + len : out[k] = w[k]
          /\ \A k \in 1 .. m : out[(n + len) + k] = second[k]
      BY <2>2, <2>3, <3>1, <3>2, Zenon
    <3> QED
      BY <3>3, Zenon
  <2>5. r.ok = TRUE /\ r.out = out
    BY <2>1, <2>3, <2>4
  <2>6. SubSeq(out, 1, n) = first
    <3>1. n \in 0 .. Len(out)
      BY <2>4
    <3>2. /\ SubSeq(out, 1, n) \in Seq(Nat) /\ Len(SubSeq(out, 1, n)) = n
          /\ \A i \in 1 .. n : SubSeq(out, 1, n)[i] = out[i]
      BY <3>1, Prefix
    <3>3. \A i \in 1 .. n : i \in 1 .. n + len
      OBVIOUS
    <3>4. \A i \in 1 .. n : SubSeq(out, 1, n)[i] = first[i]
      BY <2>3, <2>4, <3>2, <3>3, Zenon
    <3> QED
      BY <2>2, <3>2, <3>4, SameSeq
  <2>7. ASSUME NEW p \in n + 1 .. n + len PROVE out[p] = out[p - off]
    <3>1. p \in 1 .. n + len /\ p - off \in 1 .. n + len /\ w[p] = w[p - off]
      <4>1. p - off \in 1 .. p - 1 /\ w[p] = w[p - off]
        BY <2>3
      <4>2. PICK q \in 1 .. p - 1 : q = p - off
        BY <4>1
      <4>3. p \in 1 .. n + len /\ q \in 1 .. n + len
        OBVIOUS
      <4> QED
        BY <4>1, <4>2, <4>3, Zenon
    <3> QED
      BY <2>4, <3>1, Zenon
  <2>8. SubSeq(out, n + len + 1, (n + len) + m) = second
    <3>1. PICK i \in 1 .. Len(out) + 1 : i = n + len + 1 /\ i + m <= Len(out) + 1 /\ i + m - 1 = (n + len) + m
      BY <2>4
    <3>2. Stands(out, i, second)
      <4>1. \A k \in 1 .. Len(second) : k \in 1 .. m /\ i + k - 1 = (n + len) + k
        BY <2>2, <3>1
      <4> QED
        BY <2>4, <4>1, Zenon DEF Stands
    <3>3. SubSeq(out, i, i + Len(second) - 1) = second
      BY <2>2, <3>1, <3>2, Standing
    <3> QED
      BY <2>2, <3>1, <3>3, Zenon
  <2>9. Len(out) = n + len + m
    BY <2>4
  <2> QED
    BY <1>2, <1>3, <1>6, <2>2, <2>4, <2>5, <2>6, <2>7, <2>8, <2>9, Zenon DEF Exact
<1> QED
  BY <1>5, <1>6

(* What lz4AllLiteral packs is given back.                                     *)
LEMMA LiteralsAreRead ==
    ASSUME NEW t \in Seq(Nat)
    PROVE  Lz4Decompress(Lz4AllLiteral(t)) = [ok |-> TRUE, out |-> t]
<1>1. PICK data \in Seq(Nat) : data = Lz4AllLiteral(t)
  BY AllLiteralIs
<1>2. Stands(data, 1, Lz4AllLiteral(t))
  <2>1. \A k \in 1 .. Len(data) : 1 + k - 1 = k
    OBVIOUS
  <2> QED
    BY <1>1, <2>1, Zenon DEF Stands
<1>3. PICK i \in 1 .. Len(data) + 1 : i = 1 /\ i + Len(data) = Len(data) + 1
  OBVIOUS
<1>4. Lz4Block(data, i) = LastIs(t)
  <2>1. Stands(data, i, Lz4AllLiteral(t)) /\ i + Len(Lz4AllLiteral(t)) = Len(data) + 1
    BY <1>1, <1>2, <1>3, Zenon
  <2> QED
    BY <2>1, LastBlock DEF LastIs
<1>5. PICK b : b = LastIs(t) /\ b.last
  <2>1. LastIs(t).last
    BY DEF LastIs
  <2> QED
    BY <2>1, Zenon
<1>6. Lz4Decompress(data) = Lz4Written(Start, b)
  <2>1. Lz4Block(data, 1) = b /\ b.last
    BY <1>3, <1>4, <1>5, Zenon
  <2> QED
    BY <2>1, OneBlock
<1> QED
  BY <1>1, <1>5, <1>6, WrittenIs, Zenon

(* What is compressed is read back, at every length and every offset.          *)
LEMMA Lz4Exact == CodecsInit => Lz4IsExact
<1> SUFFICES ASSUME CodecsInit, input.kind = "lz4" PROVE Lz4IsExact
  BY DEF Lz4IsExact
<1>1. input \in [kind : {"lz4"}, first : Texts, off : Offsets, len : Lengths, second : Strings]
  BY DEF CodecsInit
<1>2. input.first \in Texts /\ input.off \in Offsets /\ input.len \in Lengths /\ input.second \in Strings
  BY <1>1
<1>3. input.first \in Seq(Nat) /\ input.second \in Seq(Nat)
  BY <1>2, InputsAssumption
<1>4. input.off \in 0 .. Byte * Byte - 1 /\ input.len \in Nat /\ input.len >= 4
  BY <1>2, MatchesAssumption
<1>5. Lz4Decompress(Lz4AllLiteral(input.first)) = [ok |-> TRUE, out |-> input.first]
  BY <1>3, LiteralsAreRead
<1>6. Exact(Lz4Decompress(Compressed(input.first, input.off, input.len, input.second)),
            input.first, input.off, input.len, input.second)
  BY <1>3, <1>4, MatchIsExact
<1> QED
  BY <1>5, <1>6, Zenon DEF Lz4IsExact, Exact

(* A turn of the loops of decodeWpkgHead goes on further, or it is the last.   *)
LEMMA EntryAdvances ==
    ASSUME NEW data \in Seq(Nat), NEW i \in 1 .. Len(data) + 1, NEW strings \in BOOLEAN,
           ~Entry(data, i, strings).last
    PROVE  Entry(data, i, strings).next \in i + 1 .. Len(data) + 1
<1>0. PICK field, arg, bytes, e :
          /\ field = ReadVarint(data, i) /\ arg = ReadVarint(data, field.next)
          /\ bytes = Slice(data, arg.next, arg.n) /\ e = Entry(data, i, strings)
          /\ e = EntryOf(field, arg, bytes, strings)
  BY Zenon DEF Entry
<1>1. ~e.last
  BY <1>0, Zenon
<1>2. Error.last /\ Panic.last /\ ~Error.ok /\ ~Panic.ok
  BY DEF Error, Panic
<1>3. [ok |-> TRUE, last |-> TRUE, next |-> field.next].last
  OBVIOUS
<1>4. /\ field.ok /\ field.n # 0 /\ arg.ok
      /\ \/ ~strings /\ e = ItemIs(field.n, arg.n, arg.next)
         \/ strings /\ bytes.ok /\ e = ItemIs(field.n, bytes.value, bytes.next)
         \/ strings /\ ~bytes.ok /\ e = bytes
  BY <1>0, <1>1, <1>2, <1>3, Zenon DEF EntryOf, ItemIs
<1>5. PICK f \in 0 .. Limit - 1, j \in i + 1 .. Len(data) + 1 : field = [ok |-> TRUE, n |-> f, next |-> j]
  <2>1. i \in Nat \ {0}
    OBVIOUS
  <2>2. \/ ReadVarint(data, i) = Error
        \/ \E n \in 0 .. Limit - 1, next \in i + 1 .. Len(data) + 1 :
              ReadVarint(data, i) = [ok |-> TRUE, n |-> n, next |-> next]
    BY <2>1, ReadType
  <2> QED
    BY <1>0, <1>2, <1>4, <2>2, Zenon
<1>6. PICK v \in 0 .. Limit - 1, k \in j + 1 .. Len(data) + 1 : arg = [ok |-> TRUE, n |-> v, next |-> k]
  <2>1. j \in Nat \ {0} /\ field.next = j
    BY <1>5
  <2>2. \/ ReadVarint(data, j) = Error
        \/ \E n \in 0 .. Limit - 1, next \in j + 1 .. Len(data) + 1 :
              ReadVarint(data, j) = [ok |-> TRUE, n |-> n, next |-> next]
    BY <2>1, ReadType
  <2>3. arg = ReadVarint(data, j)
    BY <1>0, <2>1, Zenon
  <2> QED
    BY <1>2, <1>4, <2>2, <2>3, Zenon
<1>7. k \in 1 .. Len(data) + 1 /\ k \in i + 1 .. Len(data) + 1 /\ v \in Int /\ arg.next = k /\ arg.n = v
  <2>1. k \in 1 .. Len(data) + 1 /\ k \in i + 1 .. Len(data) + 1
    OBVIOUS
  <2>2. v \in Int
    BY Halves
  <2>3. arg.next = k /\ arg.n = v
    BY <1>6
  <2> QED
    BY <2>1, <2>2, <2>3
<1>8. \A field1, value, next : ItemIs(field1, value, next).next = next
  BY DEF ItemIs
<1>9. CASE ~strings
  <2>1. e = ItemIs(field.n, arg.n, arg.next)
    BY <1>4, <1>9, Zenon
  <2>2. ItemIs(field.n, arg.n, arg.next).next = arg.next
    BY <1>8
  <2>3. e.next = k
    BY <1>7, <2>1, <2>2
  <2> QED
    BY <1>0, <1>7, <2>3
<1>10. CASE strings
  <2>1. bytes = Slice(data, k, v)
    BY <1>0, <1>7, Zenon
  <2>2. \/ bytes = Error
        \/ bytes = Panic
        \/ \E end \in k .. Len(data) + 1 :
              bytes = [ok |-> TRUE, value |-> SubSeq(data, k, end - 1), next |-> end]
    BY <1>7, <2>1, SliceType, Zenon
  <2>3. PICK end \in k .. Len(data) + 1 :
            bytes = [ok |-> TRUE, value |-> SubSeq(data, k, end - 1), next |-> end]
    BY <1>1, <1>2, <1>4, <1>10, <2>2, Zenon
  <2>4. bytes.ok /\ bytes.next = end /\ end \in i + 1 .. Len(data) + 1
    <3>1. bytes.ok /\ bytes.next = end
      BY <2>3
    <3>2. end \in i + 1 .. Len(data) + 1
      BY <1>7
    <3> QED
      BY <3>1, <3>2
  <2> QED
    <3>1. e = ItemIs(field.n, bytes.value, bytes.next)
      BY <1>4, <1>10, <2>4, Zenon
    <3>2. ItemIs(field.n, bytes.value, bytes.next).next = bytes.next
      BY <1>8
    <3>3. e.next = end
      BY <2>4, <3>1, <3>2
    <3> QED
      BY <1>0, <2>4, <3>3
<1> QED
  BY <1>9, <1>10

ClosingIs(next) == [ok |-> TRUE, last |-> TRUE, next |-> next]

(* A list ends with the number zero.                                           *)
LEMMA ZeroRead ==
    ASSUME NEW data \in Seq(Nat), NEW i \in 1 .. Len(data) + 1, NEW strings,
           Stands(data, i, << 0 >>)
    PROVE  Entry(data, i, strings) = IF i + 1 <= Len(data) + 1 THEN ClosingIs(i + 1) ELSE Error
<1>1. Varint[0] = <<0>> /\ 0 \in 0 .. Limit - 1
  <2>1. 0 \in 0 .. More - 1
    BY Halves
  <2> QED
    BY <2>1, VarintOfOne
<1>2. Len(<<0>>) = 1 /\ i \in Nat \ {0} /\ i <= Len(data) + 1
  OBVIOUS
<1>3. PICK field, arg, bytes : Entry(data, i, strings) = EntryOf(field, arg, bytes, strings)
                               /\ field = ReadVarint(data, i)
  BY Zenon DEF Entry
<1>4. field = IF i + Len(Varint[0]) <= Len(data) + 1
              THEN [ok |-> TRUE, n |-> 0, next |-> i + Len(Varint[0])] ELSE Error
  <2>1. Stands(data, i, Varint[0])
    BY <1>1, Zenon
  <2> QED
    BY <1>1, <1>2, <1>3, <2>1, NumberRead
<1>5. field = IF i + 1 <= Len(data) + 1 THEN [ok |-> TRUE, n |-> 0, next |-> i + 1] ELSE Error
  BY <1>1, <1>2, <1>4, Zenon
<1>6. CASE i + 1 <= Len(data) + 1
  <2>1. field.ok /\ field.n = 0 /\ field.next = i + 1
    BY <1>5, <1>6
  <2> QED
    BY <1>3, <1>6, <2>1, Zenon DEF EntryOf, ClosingIs
<1>7. CASE ~(i + 1 <= Len(data) + 1)
  <2>1. ~field.ok
    BY <1>5, <1>7 DEF Error
  <2> QED
    BY <1>3, <1>7, <2>1, Zenon DEF EntryOf
<1> QED
  BY <1>6, <1>7

(* A number of a field, and the number behind it.                              *)
TwoRead(data, i, f, v, rest, b, a) ==
    /\ b = Len(Varint[f]) /\ a = Len(Varint[v])
    /\ ReadVarint(data, i) = IF i + b <= Len(data) + 1
                             THEN [ok |-> TRUE, n |-> f, next |-> i + b] ELSE Error
    /\ i + b <= Len(data) + 1 =>
          ReadVarint(data, i + b) = IF (i + b) + a <= Len(data) + 1
                                    THEN [ok |-> TRUE, n |-> v, next |-> (i + b) + a] ELSE Error
    /\ Stands(data, (i + b) + a, rest)
    /\ Varint[f] \o (Varint[v] \o rest) \in Seq(Nat)
    /\ Len(Varint[f] \o (Varint[v] \o rest)) = b + (a + Len(rest))

(* Two numbers, one behind the other.                                          *)
LEMMA TwoNumbers ==
    ASSUME NEW data \in Seq(Nat), NEW i \in 1 .. Len(data) + 1,
           NEW f \in 0 .. Limit - 1, NEW v \in 0 .. Limit - 1, NEW rest \in Seq(Nat),
           Stands(data, i, Varint[f] \o (Varint[v] \o rest))
    PROVE  \E b \in Nat \ {0}, a \in Nat \ {0} : TwoRead(data, i, f, v, rest, b, a)
<1>1. PICK s \in Seq(Nat), b \in Nat \ {0} : s = Varint[f] /\ b = Len(s)
  BY VarintLength
<1>2. PICK t \in Seq(Nat), a \in Nat \ {0} : t = Varint[v] /\ a = Len(t)
  BY VarintLength
<1>3. PICK u \in Seq(Nat) : u = t \o rest /\ Len(u) = a + Len(rest)
  <2>1. t \o rest \in Seq(Nat) /\ Len(t \o rest) = Len(t) + Len(rest)
    BY Concat
  <2> QED
    BY <1>2, <2>1, Zenon
<1>4. s \o u \in Seq(Nat) /\ Len(s \o u) = Len(s) + Len(u)
  BY Concat
<1>5. i \in Nat /\ i + b \in Nat /\ i \in Nat \ {0} /\ i <= Len(data) + 1 /\ i + b \in Nat \ {0}
  OBVIOUS
<1>6. Stands(data, i, s) /\ Stands(data, i + b, u)
  <2>1. Stands(data, i, s \o u)
    BY <1>1, <1>2, <1>3, Zenon
  <2>2. Stands(data, i, s) /\ Stands(data, i + Len(s), u)
    BY <1>5, <2>1, StandsConcat
  <2> QED
    BY <1>1, <2>2, Zenon
<1>7. Stands(data, i + b, t) /\ Stands(data, (i + b) + a, rest)
  <2>0. PICK j \in Nat : j = i + b
    BY <1>5
  <2>1. Stands(data, j, t \o rest)
    BY <1>3, <1>6, <2>0, Zenon
  <2>2. Stands(data, j, t) /\ Stands(data, j + Len(t), rest)
    BY <2>1, StandsConcat
  <2> QED
    BY <1>2, <2>0, <2>2, Zenon
<1>8. ReadVarint(data, i) = IF i + b <= Len(data) + 1
                            THEN [ok |-> TRUE, n |-> f, next |-> i + b] ELSE Error
  <2>1. Stands(data, i, Varint[f])
    BY <1>1, <1>6, Zenon
  <2>2. ReadVarint(data, i) = IF i + Len(Varint[f]) <= Len(data) + 1
                              THEN [ok |-> TRUE, n |-> f, next |-> i + Len(Varint[f])] ELSE Error
    BY <1>5, <2>1, NumberRead
  <2> QED
    BY <1>1, <2>2, Zenon
<1>9. ASSUME i + b <= Len(data) + 1
      PROVE  ReadVarint(data, i + b) = IF (i + b) + a <= Len(data) + 1
                                       THEN [ok |-> TRUE, n |-> v, next |-> (i + b) + a] ELSE Error
  <2>0. PICK j \in Nat \ {0} : j = i + b /\ j <= Len(data) + 1
    BY <1>5, <1>9, Zenon
  <2>1. Stands(data, j, Varint[v])
    BY <1>2, <1>7, <2>0, Zenon
  <2>2. ReadVarint(data, j) = IF j + Len(Varint[v]) <= Len(data) + 1
                              THEN [ok |-> TRUE, n |-> v, next |-> j + Len(Varint[v])] ELSE Error
    BY <2>0, <2>1, NumberRead
  <2> QED
    BY <1>2, <2>0, <2>2, Zenon
<1>10. Varint[f] \o (Varint[v] \o rest) = s \o u /\ Len(s \o u) = b + (a + Len(rest))
  BY <1>1, <1>2, <1>3, <1>4, Zenon
<1> QED
  BY <1>1, <1>2, <1>4, <1>7, <1>8, <1>9, <1>10, Zenon DEF TwoRead

(* A field of a head with a number: read if it came whole.                     *)
LEMMA IntRead ==
    ASSUME NEW data \in Seq(Nat), NEW i \in 1 .. Len(data) + 1,
           NEW f \in 1 .. Limit - 1, NEW v \in 0 .. Limit - 1,
           Stands(data, i, Varint[f] \o Varint[v])
    PROVE  /\ Varint[f] \o Varint[v] \in Seq(Nat) /\ Len(Varint[f] \o Varint[v]) \in Nat \ {0}
           /\ Entry(data, i, FALSE) = IF i + Len(Varint[f] \o Varint[v]) <= Len(data) + 1
                                      THEN ItemIs(f, v, i + Len(Varint[f] \o Varint[v])) ELSE Error
<1>0. f \in 0 .. Limit - 1 /\ f # 0
  OBVIOUS
<1>1. Varint[v] \o <<>> = Varint[v] /\ <<>> \in Seq(Nat) /\ Len(<<>>) = 0
  <2>1. Varint[v] \in Seq(Nat)
    BY VarintLength
  <2>2. Varint[v] \o <<>> = Varint[v]
    BY <2>1
  <2>3. <<>> \in Seq(Nat)
    OBVIOUS
  <2>4. Len(<<>>) = 0
    OBVIOUS
  <2> QED
    BY <2>2, <2>3, <2>4
<1>2. PICK b \in Nat \ {0}, a \in Nat \ {0} :
          /\ b = Len(Varint[f]) /\ a = Len(Varint[v])
          /\ ReadVarint(data, i) = IF i + b <= Len(data) + 1
                                   THEN [ok |-> TRUE, n |-> f, next |-> i + b] ELSE Error
          /\ i + b <= Len(data) + 1 =>
                ReadVarint(data, i + b) = IF (i + b) + a <= Len(data) + 1
                                          THEN [ok |-> TRUE, n |-> v, next |-> (i + b) + a] ELSE Error
          /\ Stands(data, (i + b) + a, <<>>)
          /\ Varint[f] \o (Varint[v] \o <<>>) \in Seq(Nat)
          /\ Len(Varint[f] \o (Varint[v] \o <<>>)) = b + (a + Len(<<>>))
  <2>1. Stands(data, i, Varint[f] \o (Varint[v] \o <<>>))
    BY <1>1, Zenon
  <2> QED
    <3>1. PICK b \in Nat \ {0}, a \in Nat \ {0} : TwoRead(data, i, f, v, <<>>, b, a)
      BY <1>0, <1>1, <2>1, TwoNumbers
    <3> QED
      BY <3>1, Zenon DEF TwoRead
<1>3. b + (a + 0) = b + a /\ i + (b + a) = (i + b) + a /\ b + a \in Nat \ {0}
      /\ (i + (b + a) <= Len(data) + 1 => i + b <= Len(data) + 1)
  OBVIOUS
<1>4. Varint[f] \o Varint[v] \in Seq(Nat) /\ Len(Varint[f] \o Varint[v]) = b + a
  BY <1>1, <1>2, <1>3, Zenon
<1>5. PICK field, arg, bytes : /\ Entry(data, i, FALSE) = EntryOf(field, arg, bytes, FALSE)
                               /\ field = ReadVarint(data, i) /\ arg = ReadVarint(data, field.next)
  BY Zenon DEF Entry
<1>6. ~Error.ok
  BY DEF Error
<1>7. CASE ~(i + b <= Len(data) + 1)
  <2>1. field = Error
    BY <1>2, <1>5, <1>7, Zenon
  <2>2. Entry(data, i, FALSE) = Error
    BY <1>5, <1>6, <2>1, Zenon DEF EntryOf
  <2> QED
    BY <1>3, <1>4, <1>7, <2>2, Zenon
<1>8. CASE i + b <= Len(data) + 1
  <2>1. field = [ok |-> TRUE, n |-> f, next |-> i + b]
    BY <1>2, <1>5, <1>8, Zenon
  <2>2. field.ok /\ field.n = f /\ field.next = i + b
    BY <2>1
  <2>3. arg = IF (i + b) + a <= Len(data) + 1 THEN [ok |-> TRUE, n |-> v, next |-> (i + b) + a] ELSE Error
    BY <1>2, <1>5, <1>8, <2>2, Zenon
  <2>4. CASE (i + b) + a <= Len(data) + 1
    <3>1. arg.ok /\ arg.n = v /\ arg.next = (i + b) + a
      BY <2>3, <2>4
    <3>2. Entry(data, i, FALSE) = ItemIs(f, v, (i + b) + a)
      BY <1>0, <1>5, <2>2, <3>1, Zenon DEF EntryOf, ItemIs
    <3> QED
      BY <1>3, <1>4, <2>4, <3>2, Zenon
  <2>5. CASE ~((i + b) + a <= Len(data) + 1)
    <3>1. ~arg.ok
      BY <1>6, <2>3, <2>5, Zenon
    <3>2. Entry(data, i, FALSE) = Error
      BY <1>0, <1>5, <2>2, <3>1, Zenon DEF EntryOf
    <3> QED
      BY <1>3, <1>4, <2>5, <3>2, Zenon
  <2> QED
    BY <2>4, <2>5
<1> QED
  BY <1>3, <1>4, <1>7, <1>8, Zenon

(* A field of a head with a byte string: read if it came whole.                *)
LEMMA BytRead ==
    ASSUME NEW data \in Seq(Nat), Held(data), NEW i \in 1 .. Len(data) + 1,
           NEW f \in 1 .. Limit - 1, NEW s \in Seq(Nat), Len(s) < Pow2[Word - 1],
           Stands(data, i, Varint[f] \o (Varint[Len(s)] \o s)),
           i + Len(Varint[f] \o (Varint[Len(s)] \o s)) <= Pow2[Word - 1]
    PROVE  /\ Varint[f] \o (Varint[Len(s)] \o s) \in Seq(Nat)
           /\ Len(Varint[f] \o (Varint[Len(s)] \o s)) \in Nat \ {0}
           /\ Entry(data, i, TRUE) = IF i + Len(Varint[f] \o (Varint[Len(s)] \o s)) <= Len(data) + 1
                                      THEN ItemIs(f, s, i + Len(Varint[f] \o (Varint[Len(s)] \o s))) ELSE Error
<1>0. f \in 0 .. Limit - 1 /\ f # 0
  OBVIOUS
<1>1. PICK v \in 0 .. Limit - 1 : v = Len(s) /\ v \in Nat
  BY Halves, SMTT(30)
<1>2. PICK b \in Nat \ {0}, a \in Nat \ {0} :
          /\ b = Len(Varint[f]) /\ a = Len(Varint[v])
          /\ ReadVarint(data, i) = IF i + b <= Len(data) + 1
                                   THEN [ok |-> TRUE, n |-> f, next |-> i + b] ELSE Error
          /\ i + b <= Len(data) + 1 =>
                ReadVarint(data, i + b) = IF (i + b) + a <= Len(data) + 1
                                          THEN [ok |-> TRUE, n |-> v, next |-> (i + b) + a] ELSE Error
          /\ Stands(data, (i + b) + a, s)
          /\ Varint[f] \o (Varint[v] \o s) \in Seq(Nat)
          /\ Len(Varint[f] \o (Varint[v] \o s)) = b + (a + Len(s))
  <2>1. Stands(data, i, Varint[f] \o (Varint[v] \o s))
    BY <1>1, Zenon
  <2> QED
    <3>1. PICK b \in Nat \ {0}, a \in Nat \ {0} : TwoRead(data, i, f, v, s, b, a)
      BY <1>0, <2>1, TwoNumbers
    <3> QED
      BY <3>1, Zenon DEF TwoRead
<1> DEFINE all == Varint[f] \o (Varint[Len(s)] \o s)
<1>3. /\ i + (b + (a + v)) = ((i + b) + a) + v /\ b + (a + v) \in Nat \ {0} /\ (i + b) + a \in Nat \ {0}
      /\ (i + (b + (a + v)) <= Len(data) + 1 => i + b <= Len(data) + 1 /\ (i + b) + a <= Len(data) + 1)
  BY <1>1
<1>4. all \in Seq(Nat) /\ Len(all) = b + (a + v)
  BY <1>1, <1>2, Zenon
<1>fits. i + Len(all) <= Pow2[Word - 1]
  OBVIOUS
<1> HIDE DEF all
<1>5. PICK field, arg, bytes : /\ Entry(data, i, TRUE) = EntryOf(field, arg, bytes, TRUE)
                               /\ field = ReadVarint(data, i) /\ arg = ReadVarint(data, field.next)
                               /\ bytes = Slice(data, arg.next, arg.n)
  BY Zenon DEF Entry
<1>6. ~Error.ok
  BY DEF Error
<1>7. CASE ~(i + b <= Len(data) + 1)
  <2>1. field = Error
    BY <1>2, <1>5, <1>7, Zenon
  <2>2. Entry(data, i, TRUE) = Error
    BY <1>5, <1>6, <2>1, Zenon DEF EntryOf
  <2> QED
    BY <1>3, <1>4, <1>7, <2>2, Zenon DEF all
<1>8. CASE i + b <= Len(data) + 1
  <2>1. field = [ok |-> TRUE, n |-> f, next |-> i + b]
    BY <1>2, <1>5, <1>8, Zenon
  <2>2. field.ok /\ field.n = f /\ field.next = i + b
    BY <2>1
  <2>3. arg = IF (i + b) + a <= Len(data) + 1 THEN [ok |-> TRUE, n |-> v, next |-> (i + b) + a] ELSE Error
    BY <1>2, <1>5, <1>8, <2>2, Zenon
  <2>4. CASE (i + b) + a <= Len(data) + 1
    <3>1. arg.ok /\ arg.n = v /\ arg.next = (i + b) + a
      BY <2>3, <2>4
    <3>2. PICK j \in 1 .. Len(data) + 1 : j = (i + b) + a
      BY <1>3, <2>4
    <3>3. bytes = Slice(data, j, v)
      BY <1>5, <3>1, <3>2, Zenon
    <3>4. CASE j + v <= Len(data) + 1
      <4>1. bytes = [ok |-> TRUE, value |-> SubSeq(data, j, j + v - 1), next |-> j + v]
        BY <1>1, <3>3, <3>4, SliceWhole
      <4>2. SubSeq(data, j, j + v - 1) = s
        <5>1. Stands(data, j, s) /\ j + Len(s) <= Len(data) + 1
          BY <1>1, <1>2, <3>2, <3>4, Zenon
        <5>2. SubSeq(data, j, j + Len(s) - 1) = s
          BY <5>1, Standing
        <5> QED
          BY <1>1, <5>2, Zenon
      <4>3. bytes.ok /\ bytes.value = s /\ bytes.next = j + v
        BY <4>1, <4>2
      <4>4. Entry(data, i, TRUE) = ItemIs(f, s, j + v)
        BY <1>0, <1>5, <2>2, <3>1, <4>3, Zenon DEF EntryOf, ItemIs
      <4> QED
        BY <1>3, <1>4, <3>2, <3>4, <4>4, Zenon DEF all
    <3>5. CASE ~(j + v <= Len(data) + 1)
      <4>1. bytes = Error
        <5>1. j + v > Len(data) + 1
          BY <1>1, <3>5
        <5>2. j + v <= Pow2[Word - 1]
          BY <1>3, <1>4, <1>fits, <3>2, Zenon
        <5> QED
          BY <1>1, <3>3, <5>1, <5>2, SliceCut
      <4>2. Entry(data, i, TRUE) = Error
        BY <1>0, <1>5, <1>6, <2>2, <3>1, <4>1, Zenon DEF EntryOf
      <4> QED
        BY <1>3, <1>4, <3>2, <3>5, <4>2, Zenon DEF all
    <3> QED
      BY <3>4, <3>5
  <2>5. CASE ~((i + b) + a <= Len(data) + 1)
    <3>1. ~arg.ok
      BY <1>6, <2>3, <2>5, Zenon
    <3>2. Entry(data, i, TRUE) = Error
      BY <1>0, <1>5, <2>2, <3>1, Zenon DEF EntryOf
    <3> QED
      BY <1>3, <1>4, <2>5, <3>2, Zenon DEF all
  <2> QED
    BY <2>4, <2>5
<1>9. Len(all) \in Nat \ {0}
  BY <1>3, <1>4, Zenon
<1> QED
  BY <1>4, <1>7, <1>8, <1>9, Zenon DEF all

(* What is written behind the number of a field.                               *)
Encoded(value, strings) == IF strings THEN Varint[Len(value)] \o value ELSE Varint[value]

Encodable(value, strings) ==
    IF strings THEN value \in Seq(Nat) /\ Len(value) < Pow2[Word - 1] ELSE value \in 0 .. Limit - 1

(* A field of a head is read if it came whole.                                 *)
LEMMA EntryRead ==
    ASSUME NEW data \in Seq(Nat), Held(data), NEW i \in 1 .. Len(data) + 1, NEW strings \in BOOLEAN,
           NEW f \in 1 .. Limit - 1, NEW value, Encodable(value, strings),
           Stands(data, i, Varint[f] \o Encoded(value, strings)),
           i + Len(Varint[f] \o Encoded(value, strings)) <= Pow2[Word - 1]
    PROVE  Entry(data, i, strings) =
               IF i + Len(Varint[f] \o Encoded(value, strings)) <= Len(data) + 1
               THEN ItemIs(f, value, i + Len(Varint[f] \o Encoded(value, strings))) ELSE Error
<1>1. CASE strings
  <2>1. value \in Seq(Nat) /\ Len(value) < Pow2[Word - 1] /\ Encoded(value, strings) = Varint[Len(value)] \o value
    BY <1>1, Zenon DEF Encodable, Encoded
  <2>2. PICK s \in Seq(Nat) : s = value
    BY <2>1
  <2>3. /\ Stands(data, i, Varint[f] \o (Varint[Len(s)] \o s))
        /\ i + Len(Varint[f] \o (Varint[Len(s)] \o s)) <= Pow2[Word - 1] /\ Len(s) < Pow2[Word - 1]
    BY <2>1, <2>2, Zenon
  <2>4. Entry(data, i, TRUE) = IF i + Len(Varint[f] \o (Varint[Len(s)] \o s)) <= Len(data) + 1
                                      THEN ItemIs(f, s, i + Len(Varint[f] \o (Varint[Len(s)] \o s))) ELSE Error
    BY <2>3, BytRead
  <2>5. strings = TRUE
    BY <1>1
  <2> QED
    BY <2>1, <2>2, <2>4, <2>5, Zenon
<1>2. CASE ~strings
  <2>1. value \in 0 .. Limit - 1 /\ Encoded(value, strings) = Varint[value]
    BY <1>2, Zenon DEF Encodable, Encoded
  <2>2. Stands(data, i, Varint[f] \o Varint[value])
    BY <2>1, Zenon
  <2>3. Entry(data, i, FALSE) = IF i + Len(Varint[f] \o Varint[value]) <= Len(data) + 1
                                      THEN ItemIs(f, value, i + Len(Varint[f] \o Varint[value])) ELSE Error
    BY <2>1, <2>2, IntRead
  <2>4. strings = FALSE
    BY <1>2
  <2> QED
    BY <2>1, <2>3, <2>4, Zenon
<1> QED
  BY <1>1, <1>2

(* The bytes of a field of a head.                                             *)
LEMMA EntryBytes ==
    ASSUME NEW strings \in BOOLEAN, NEW f \in 1 .. Limit - 1, NEW value, Encodable(value, strings)
    PROVE  /\ Varint[f] \o Encoded(value, strings) \in Seq(Nat)
           /\ Len(Varint[f] \o Encoded(value, strings)) \in Nat \ {0}
<1>0. f \in 0 .. Limit - 1
  OBVIOUS
<1>1. PICK s \in Seq(Nat), b \in Nat \ {0} : s = Varint[f] /\ b = Len(s)
  BY <1>0, VarintLength
<1>2. PICK u \in Seq(Nat) : u = Encoded(value, strings)
  <2>1. CASE strings
    <3>1. value \in Seq(Nat) /\ Len(value) < Pow2[Word - 1] /\ Encoded(value, strings) = Varint[Len(value)] \o value
      BY <2>1, Zenon DEF Encodable, Encoded
    <3>2. Len(value) \in 0 .. Limit - 1
      BY <3>1, Halves
    <3>3. Varint[Len(value)] \in Seq(Nat)
      BY <3>2, VarintLength
    <3>4. Varint[Len(value)] \o value \in Seq(Nat)
      BY <3>1, <3>3, Concat
    <3> QED
      BY <3>1, <3>4, Zenon
  <2>2. CASE ~strings
    <3>1. value \in 0 .. Limit - 1 /\ Encoded(value, strings) = Varint[value]
      BY <2>2, Zenon DEF Encodable, Encoded
    <3>2. Varint[value] \in Seq(Nat)
      BY <3>1, VarintLength
    <3> QED
      BY <3>1, <3>2, Zenon
  <2> QED
    BY <2>1, <2>2
<1>3. s \o u \in Seq(Nat) /\ Len(s \o u) = Len(s) + Len(u) /\ Len(u) \in Nat
  BY Concat
<1>4. Len(s \o u) \in Nat \ {0}
  <2>1. PICK c \in Nat : c = Len(u)
    BY <1>3
  <2>2. b + c \in Nat \ {0}
    OBVIOUS
  <2> QED
    BY <1>1, <1>3, <2>1, <2>2, Zenon
<1> QED
  BY <1>1, <1>2, <1>3, <1>4, Zenon

(* What the loop takes from a list, behind field f: the fields, each with its  *)
(* value, and the closing zero; or no list, if that does not come.             *)
ListTaken(c, values, f, end) ==
    /\ c[Len(c)] = ClosingIs(end)
    /\ \A k \in 1 .. Len(c) - 1 : /\ c[k].field \in DOMAIN values /\ c[k].field > f
                                  /\ c[k].value = values[c[k].field]
    /\ \A g \in DOMAIN values : g > f => \E k \in 1 .. Len(c) - 1 : c[k].field = g

Reads(c, R, values, f, end, whole) ==
    /\ c \in Seq(R) /\ Len(c) \in Nat \ {0}
    /\ IF whole THEN ListTaken(c, values, f, end) ELSE ~c[Len(c)].ok

(* A field before what is read already.                                        *)
LEMMA ReadsMore ==
    ASSUME NEW R, NEW c, NEW e \in R, NEW values, DOMAIN values \subseteq Nat, NEW f \in Nat, NEW end, NEW whole \in BOOLEAN,
           Reads(c, R, values, f + 1, end, whole), f + 1 \in DOMAIN values,
           e.field = f + 1, e.value = values[f + 1]
    PROVE  Reads(<<e>> \o c, R, values, f, end, whole)
<1>1. PICK n \in Nat \ {0} : n = Len(c) /\ n \in 1 .. n
  BY DEF Reads
<1>2. PICK d : d = <<e>> \o c
  OBVIOUS
<1>3. d \in Seq(R) /\ Len(d) = n + 1 /\ d[1] = e /\ \A k \in 1 .. n : d[k + 1] = c[k]
  <2>1. c \in Seq(R)
    BY Zenon DEF Reads
  <2>2. /\ <<e>> \o c \in Seq(R) /\ Len(<<e>> \o c) = Len(c) + 1 /\ (<<e>> \o c)[1] = e
        /\ \A k \in 1 .. Len(c) : (<<e>> \o c)[k + 1] = c[k]
    BY <2>1, Prepended
  <2> QED
    BY <1>1, <1>2, <2>2, Zenon
<1>4. d[n + 1] = c[n]
  BY <1>1, <1>3, Zenon
<1>5. n + 1 \in Nat \ {0} /\ (n + 1) - 1 = n
  OBVIOUS
<1>6. CASE ~whole
  <2>1. ~d[Len(d)].ok
    BY <1>1, <1>3, <1>4, <1>6, Zenon DEF Reads
  <2> QED
    BY <1>2, <1>3, <1>5, <1>6, <2>1, Zenon DEF Reads
<1>7. CASE whole
  <2>1. ListTaken(c, values, f + 1, end)
    BY <1>7, Zenon DEF Reads
  <2>2. /\ c[n] = ClosingIs(end)
        /\ \A k \in 1 .. n - 1 : /\ c[k].field \in DOMAIN values /\ c[k].field > f + 1
                                 /\ c[k].value = values[c[k].field]
        /\ \A g \in DOMAIN values : g > f + 1 => \E k \in 1 .. n - 1 : c[k].field = g
    BY <1>1, <2>1, Zenon DEF ListTaken
  <2>3. ASSUME NEW k \in 1 .. n
        PROVE  d[k].field \in DOMAIN values /\ d[k].field > f /\ d[k].value = values[d[k].field]
    <3>1. CASE k = 1
      <4>1. d[k] = e /\ f + 1 > f
        BY <1>3, <3>1
      <4>2. d[k].field = f + 1 /\ d[k].value = values[f + 1]
        BY <4>1, Zenon
      <4> QED
        BY <4>1, <4>2, Zenon
    <3>2. CASE k # 1
      <4>1. PICK j \in 1 .. n - 1 : k = j + 1 /\ j \in 1 .. n
        <5>1. k - 1 \in 1 .. n - 1 /\ k = (k - 1) + 1 /\ k - 1 \in 1 .. n
          BY <3>2
        <5> QED
          BY <5>1
      <4>2. d[k] = c[j]
        BY <1>3, <4>1, Zenon
      <4>3. PICK g \in DOMAIN values : g = c[j].field /\ g > f + 1 /\ c[j].value = values[g]
        BY <2>2, Zenon
      <4>4. g > f
        BY <4>3
      <4> QED
        BY <4>2, <4>3, <4>4, Zenon
    <3> QED
      BY <3>1, <3>2
  <2>4. ASSUME NEW g \in DOMAIN values, g > f PROVE \E k \in 1 .. n : d[k].field = g
    <3>1. CASE g = f + 1
      <4>1. 1 \in 1 .. n /\ d[1].field = g
        BY <1>1, <1>3, <3>1
      <4> QED
        BY <4>1
    <3>2. CASE g # f + 1
      <4>1. g > f + 1
        BY <2>4, <3>2
      <4>2. PICK j \in 1 .. n - 1 : c[j].field = g
        BY <2>2, <4>1
      <4>3. j \in 1 .. n /\ j + 1 \in 1 .. n
        OBVIOUS
      <4>4. d[j + 1].field = g
        BY <1>3, <4>2, <4>3, Zenon
      <4> QED
        BY <4>3, <4>4
    <3> QED
      BY <3>1, <3>2
  <2>5. ListTaken(d, values, f, end)
    <3>1. d[Len(d)] = ClosingIs(end)
      BY <1>3, <1>4, <2>2, Zenon
    <3>2. Len(d) - 1 = n
      BY <1>3, <1>5, Zenon
    <3> QED
      BY <2>3, <2>4, <3>1, <3>2, Zenon DEF ListTaken
  <2> QED
    BY <1>2, <1>3, <1>5, <1>7, <2>5, Zenon DEF Reads
<1> QED
  BY <1>6, <1>7

(* A number that no field has.                                                 *)
LEMMA ReadsSkip ==
    ASSUME NEW R, NEW c, NEW values, DOMAIN values \subseteq Nat, NEW f \in Nat, NEW end, NEW whole \in BOOLEAN,
           Reads(c, R, values, f + 1, end, whole), f + 1 \notin DOMAIN values
    PROVE  Reads(c, R, values, f, end, whole)
<1>1. \A g \in DOMAIN values : g > f <=> g > f + 1
  OBVIOUS
<1>2. CASE ~whole
  BY <1>2, Zenon DEF Reads
<1>3. CASE whole
  <2>1. ListTaken(c, values, f + 1, end)
    BY <1>3, Zenon DEF Reads
  <2>2. ListTaken(c, values, f, end)
    BY <1>1, <2>1, Zenon DEF ListTaken
  <2> QED
    BY <1>3, <2>2, Zenon DEF Reads
<1> QED
  BY <1>2, <1>3

(* The loop that takes nothing but the end.                                    *)
LEMMA ReadsEnd ==
    ASSUME NEW R, NEW e \in R, NEW values, NEW f \in Nat, NEW end, NEW whole \in BOOLEAN,
           \A g \in DOMAIN values : ~(g > f),
           whole => e = ClosingIs(end), ~whole => ~e.ok
    PROVE  Reads(<<e>>, R, values, f, end, whole)
<1>1. PICK d : d = <<e>> /\ d \in Seq(R) /\ Len(d) = 1 /\ d[1] = e
  <2>1. <<e>> \in Seq(R) /\ Len(<<e>>) = 1 /\ <<e>>[1] = e
    OBVIOUS
  <2> QED
    BY <2>1, Zenon
<1>2. 1 \in Nat \ {0} /\ \A k \in 1 .. 1 - 1 : FALSE
  OBVIOUS
<1>3. whole => ListTaken(d, values, f, end)
  BY <1>1, <1>2, Zenon DEF ListTaken
<1>4. Reads(d, R, values, f, end, whole)
  BY <1>1, <1>2, <1>3, Zenon DEF Reads
<1> QED
  BY <1>1, <1>4, Zenon

(* The values of a list that came whole.                                       *)
LEMMA TakenValues ==
    ASSUME NEW R, NEW c, NEW S \in SUBSET (Nat \ {0}), NEW V, NEW values \in [S -> V], NEW end,
           Reads(c, R, values, 0, end, TRUE)
    PROVE  Last(c) = ClosingIs(end) /\ LastValues(Front(c)) = values
<1>1. PICK n \in Nat \ {0} : n = Len(c) /\ n - 1 \in 0 .. n
  BY DEF Reads
<1>2. c \in Seq(R) /\ ListTaken(c, values, 0, end)
  BY Zenon DEF Reads
<1>3. DOMAIN values = S
  OBVIOUS
<1>4. /\ c[n] = ClosingIs(end)
      /\ \A k \in 1 .. n - 1 : c[k].field \in S /\ c[k].value = values[c[k].field]
      /\ \A g \in S : \E k \in 1 .. n - 1 : c[k].field = g
  <2>1. \A g \in S : g > 0
    OBVIOUS
  <2> QED
    BY <1>1, <1>2, <1>3, <2>1, Zenon DEF ListTaken
<1>5. Last(c) = ClosingIs(end)
  BY <1>1, <1>4, Zenon DEF Last
<1>6. PICK m \in Nat : m = n - 1
  BY <1>1
<1>7. PICK d : d = Front(c) /\ DOMAIN d = 1 .. m /\ \A k \in 1 .. m : d[k] = c[k]
  <2>1. Front(c) = SubSeq(c, 1, m)
    BY <1>1, <1>6, Zenon DEF Front
  <2>2. m \in 0 .. Len(c)
    BY <1>1, <1>6
  <2>3. SubSeq(c, 1, m) \in Seq(R) /\ Len(SubSeq(c, 1, m)) = m
        /\ \A k \in 1 .. m : SubSeq(c, 1, m)[k] = c[k]
    BY <1>2, <2>2, Prefix
  <2>4. DOMAIN SubSeq(c, 1, m) = 1 .. m
    BY <2>3
  <2> QED
    BY <2>1, <2>3, <2>4, Zenon
<1>8. /\ \A k \in 1 .. m : d[k].field \in S /\ d[k].value = values[d[k].field]
      /\ \A g \in S : \E k \in 1 .. m : d[k].field = g
  BY <1>4, <1>6, <1>7, ZenonT(60)
<1>9. {d[k].field : k \in DOMAIN d} = S
  <2>1. \A k \in DOMAIN d : d[k].field \in S
    BY <1>7, <1>8, Zenon
  <2>2. \A g \in S : \E k \in DOMAIN d : g = d[k].field
    BY <1>7, <1>8, Zenon
  <2> QED
    BY <2>1, <2>2
<1>10. ASSUME NEW g \in S PROVE d[Max({k \in DOMAIN d : d[k].field = g})].value = values[g]
  <2> DEFINE K == {k \in DOMAIN d : d[k].field = g}
  <2>1. K \in SUBSET Nat /\ K # {} /\ \A k \in K : k <= m
    <3>1. K # {}
      BY <1>7, <1>8
    <3>2. \A k \in K : k \in 1 .. m
      BY <1>7
    <3>3. \A k \in 1 .. m : k \in Nat /\ k <= m
      OBVIOUS
    <3> QED
      BY <3>1, <3>2, <3>3
  <2>2. Max(K) \in K
    <3> HIDE DEF K
    <3> QED
      BY <2>1, MaxExists
  <2>3. \A k \in K : d[k].value = values[g]
    BY <1>7, <1>8
  <2> QED
    BY <2>2, <2>3
<1>11. LastValues(d) = [g \in S |-> values[g]]
  <2>1. LastValues(d) = [g \in S |-> d[Max({k \in DOMAIN d : d[k].field = g})].value]
    BY <1>9, Zenon DEF LastValues
  <2>2. [g \in S |-> d[Max({k \in DOMAIN d : d[k].field = g})].value] = [g \in S |-> values[g]]
    BY <1>10, Zenon
  <2> QED
    BY <2>1, <2>2, Zenon
<1>12. values = [g \in S |-> values[g]]
  OBVIOUS
<1> QED
  BY <1>5, <1>7, <1>11, <1>12, Zenon

Listed(values, strings, m) ==
    [f \in 1 .. m |-> IF f \in DOMAIN values THEN Varint[f] \o Encoded(values[f], strings) ELSE <<>>]

(* What each number of a field writes, if there is such a field.               *)
LEMMA ListedType ==
    ASSUME NEW m \in Nat, m < Limit, NEW values, NEW strings \in BOOLEAN,
           \A f \in DOMAIN values : Encodable(values[f], strings)
    PROVE  \A f \in 1 .. m :
              /\ Listed(values, strings, m)[f] \in Seq(Nat)
              /\ f \in DOMAIN values =>
                    Listed(values, strings, m)[f] = Varint[f] \o Encoded(values[f], strings)
              /\ f \notin DOMAIN values => Listed(values, strings, m)[f] = <<>>
<1>1. \A f \in 1 .. m : Listed(values, strings, m)[f]
          = IF f \in DOMAIN values THEN Varint[f] \o Encoded(values[f], strings) ELSE <<>>
  BY DEF Listed
<1>2. <<>> \in Seq(Nat)
  OBVIOUS
<1>3. ASSUME NEW f \in 1 .. m, f \in DOMAIN values PROVE Varint[f] \o Encoded(values[f], strings) \in Seq(Nat)
  <2>1. f \in 1 .. Limit - 1
    BY Halves
  <2>2. PICK v : v = values[f] /\ Encodable(v, strings)
    BY <1>3
  <2> QED
    BY <2>1, <2>2, EntryBytes
<1> QED
  BY <1>1, <1>2, <1>3, Zenon

ReadsList(data, i, strings, values, m, end) ==
    \E R : \E whole \in BOOLEAN :
        /\ whole <=> end <= Len(data) + 1
        /\ Reads(ReadEntries(data, i, strings), R, values, 0, end, whole)

(* A list is read if it came whole with the zero behind it, and not otherwise. *)
LEMMA ListRead ==
    ASSUME NEW data \in Seq(Nat), Held(data), NEW i \in 1 .. Len(data) + 1, NEW strings \in BOOLEAN,
           NEW m \in Nat, m < Limit, NEW values, DOMAIN values \subseteq 1 .. m,
           \A f \in DOMAIN values : Encodable(values[f], strings),
           NEW pieces, pieces = Listed(values, strings, m),
           NEW end \in Nat, end = i + Len(Joined(pieces, m)) + 1, end <= Pow2[Word - 1],
           Stands(data, i, Joined(pieces, m) \o << 0 >>)
    PROVE  ReadsList(data, i, strings, values, m, end)
<1> DEFINE P(f) == Len(Joined(pieces, f))
<1>1. /\ \A f \in 1 .. m : pieces[f] \in Seq(Nat)
      /\ \A f \in 1 .. m : f \in DOMAIN values => pieces[f] = Varint[f] \o Encoded(values[f], strings)
      /\ \A f \in 1 .. m : f \notin DOMAIN values => pieces[f] = <<>>
  <2>1. \A f \in 1 .. m :
              /\ Listed(values, strings, m)[f] \in Seq(Nat)
              /\ f \in DOMAIN values =>
                    Listed(values, strings, m)[f] = Varint[f] \o Encoded(values[f], strings)
              /\ f \notin DOMAIN values => Listed(values, strings, m)[f] = <<>>
    BY ListedType, ZenonT(60)
  <2>2. \A f \in 1 .. m :
              /\ pieces[f] \in Seq(Nat)
              /\ f \in DOMAIN values => pieces[f] = Varint[f] \o Encoded(values[f], strings)
              /\ f \notin DOMAIN values => pieces[f] = <<>>
    BY <2>1, Zenon
  <2> QED
    BY <2>2, Zenon
<1>2. \A f \in 1 .. m : pieces[f] \in Seq(Nat)
  BY <1>1, Zenon
<1>3. /\ \A f \in 0 .. m : Joined(pieces, f) \in Seq(Nat) /\ P(f) \in Nat
      /\ \A f \in 1 .. m : P(f) = P(f - 1) + Len(pieces[f])
      /\ \A f \in 0 .. m : \A g \in 0 .. f : P(g) <= P(f)
  BY <1>2, JoinedType, Zenon
<1>4. P(0) = 0
  <2>1. Joined(pieces, 0) = <<>>
    BY <1>2, JoinedSteps, Zenon
  <2>2. Len(<<>>) = 0
    OBVIOUS
  <2> QED
    BY <2>1, <2>2, Zenon
<1>5. Stands(data, i, Joined(pieces, m)) /\ Stands(data, i + P(m), <<0>>)
  <2>1. PICK s \in Seq(Nat) : s = Joined(pieces, m)
    <3>1. m \in 0 .. m
      OBVIOUS
    <3> QED
      BY <1>3, <3>1, Zenon
  <2>2. PICK t \in Seq(Nat) : t = <<0>>
    <3>1. <<0>> \in Seq(Nat)
      OBVIOUS
    <3> QED
      BY <3>1, Zenon
  <2>3. Stands(data, i, s \o t) /\ i \in Nat
    BY <2>1, <2>2
  <2>4. Stands(data, i, s) /\ Stands(data, i + Len(s), t)
    BY <2>3, StandsConcat
  <2> QED
    BY <2>1, <2>2, <2>4, Zenon
<1>6. \A f \in 1 .. m : Stands(data, i + P(f - 1), pieces[f])
  <2>1. ASSUME NEW f \in 1 .. m PROVE Stands(data, i + Len(Joined(pieces, f - 1)), pieces[f])
    <3>1. i \in Nat
      OBVIOUS
    <3> QED
      BY <1>2, <1>5, <3>1, PieceStands
  <2> QED
    BY <2>1
<1>7. PICK l \in Nat \ {0} : l = Len(data) + 1
  OBVIOUS
<1>8. PICK whole \in BOOLEAN : whole <=> end <= l
  OBVIOUS
<1>9. PICK elements : elements = [j \in 1 .. Len(data) + 1 |-> Entry(data, j, strings)]
  OBVIOUS
<1>10. DOMAIN elements = 1 .. l /\ \A j \in 1 .. l : elements[j] = Entry(data, j, strings)
  BY <1>7, <1>9
<1>11. Advances(elements, l)
  <2>1. \A j \in 1 .. l : ~Entry(data, j, strings).last => Entry(data, j, strings).next \in j + 1 .. l
    BY <1>7, EntryAdvances
  <2> QED
    BY <1>10, <2>1, Zenon DEF Advances
<1>12. \A j \in 1 .. l :
           Chain(elements, j) = <<elements[j]>> \o (IF elements[j].last THEN <<>>
                                                    ELSE Chain(elements, elements[j].next))
  BY <1>7, <1>11, ChainSteps
<1>13. PICK R : \A j \in 1 .. l : elements[j] \in R
  <2>1. \A j \in 1 .. l : elements[j] \in {elements[k] : k \in 1 .. l}
    OBVIOUS
  <2> QED
    BY <2>1
<1>14. \A j \in 1 .. l : elements[j].last => Chain(elements, j) = <<elements[j]>>
  <2>1. \A e : <<e>> \o <<>> = <<e>>
    OBVIOUS
  <2> QED
    BY <1>12, <2>1, Zenon
<1>15. Error.last /\ ~Error.ok /\ \A n : ClosingIs(n).last
  BY DEF Error, ClosingIs
<1> DEFINE T == {d \in Nat : d <= m => (i + P(m - d) <= l =>
                    Reads(Chain(elements, i + P(m - d)), R, values, m - d, end, whole))}
<1>16. 0 \in T
  <2>1. m - 0 = m
    OBVIOUS
  <2>2. ASSUME i + P(m) <= l PROVE Reads(Chain(elements, i + P(m)), R, values, m, end, whole)
    <3>1. PICK j \in 1 .. l : j = i + P(m) /\ j + 1 = end
      <4>1. PICK p \in Nat : p = P(m)
        <5>1. m \in 0 .. m
          OBVIOUS
        <5> QED
          BY <1>3, <5>1
      <4>2. i + p \in 1 .. l /\ (i + p) + 1 = end
        <5>1. i + p <= l /\ end = i + p + 1
          BY <2>2, <4>1
        <5> QED
          BY <5>1
      <4> QED
        BY <4>1, <4>2
    <3>2. elements[j] = IF end <= l THEN ClosingIs(end) ELSE Error
      <4>1. j \in 1 .. Len(data) + 1 /\ Stands(data, j, <<0>>)
        BY <1>5, <1>7, <3>1, Zenon
      <4>2. Entry(data, j, strings) = IF j + 1 <= Len(data) + 1 THEN ClosingIs(j + 1) ELSE Error
        BY <4>1, ZeroRead
      <4> QED
        BY <1>7, <1>10, <3>1, <4>2, Zenon
    <3>3. elements[j] \in R /\ elements[j].last
          /\ (whole => elements[j] = ClosingIs(end)) /\ (~whole => ~elements[j].ok)
      BY <1>8, <1>13, <1>15, <3>2, Zenon
    <3>4. Chain(elements, j) = <<elements[j]>>
      BY <1>14, <3>3, Zenon
    <3>5. \A g \in DOMAIN values : ~(g > m)
      OBVIOUS
    <3>6. PICK e \in R : e = elements[j]
      BY <3>3
    <3>7. Reads(<<e>>, R, values, m, end, whole)
      <4>1. (whole => e = ClosingIs(end)) /\ (~whole => ~e.ok)
        BY <3>3, <3>6, Zenon
      <4> QED
        BY <3>5, <4>1, ReadsEnd, Zenon
    <3> QED
      BY <3>1, <3>4, <3>6, <3>7, Zenon
  <2> HIDE DEF P
  <2>3. i + P(m - 0) <= l => Reads(Chain(elements, i + P(m - 0)), R, values, m - 0, end, whole)
    BY <2>1, <2>2, Zenon
  <2> QED
    BY <2>3
<1>17. ASSUME NEW f \in 0 .. m - 1, i + P(f) <= l,
              i + P(f + 1) <= l => Reads(Chain(elements, i + P(f + 1)), R, values, f + 1, end, whole)
       PROVE  Reads(Chain(elements, i + P(f)), R, values, f, end, whole)
  <2>1. f + 1 \in 1 .. m /\ (f + 1) - 1 = f /\ f \in 0 .. m /\ f + 1 \in 0 .. m /\ f \in Nat /\ m \in 0 .. m
    OBVIOUS
  <2>2. PICK p \in Nat, q \in Nat, t \in Nat : p = P(f) /\ q = P(f + 1) /\ t = P(m) /\ q <= t
    BY <1>3, <2>1
  <2>3. PICK j \in 1 .. l : j = i + p
    <3>1. i + p \in 1 .. l
      BY <1>17, <2>2
    <3> QED
      BY <3>1
  <2>4. i + q + 1 <= end /\ end = i + t + 1 /\ i + q <= Pow2[Word - 1]
    <3>1. end = i + t + 1
      BY <2>2
    <3>2. PICK h \in Nat : h = Pow2[Word - 1] /\ end <= h
      BY Halves
    <3> QED
      BY <2>2, <3>1, <3>2
  <2>5. CASE f + 1 \notin DOMAIN values
    <3>1. q = p
      <4>1. pieces[f + 1] = <<>> /\ Len(<<>>) = 0
        BY <1>1, <2>1, <2>5
      <4>2. P(f + 1) = P((f + 1) - 1) + Len(pieces[f + 1])
        BY <1>3, <2>1, Zenon
      <4>3. q = p + 0
        BY <2>1, <2>2, <4>1, <4>2, Zenon
      <4> QED
        BY <4>3
    <3>2. Reads(Chain(elements, j), R, values, f + 1, end, whole)
      BY <1>17, <2>2, <2>3, <3>1, Zenon
    <3>3. DOMAIN values \subseteq Nat
      OBVIOUS
    <3>4. PICK c : c = Chain(elements, j)
      OBVIOUS
    <3>5. Reads(c, R, values, f, end, whole)
      <4>1. Reads(c, R, values, f + 1, end, whole)
        BY <3>2, <3>4, Zenon
      <4> QED
        BY <2>1, <2>5, <3>3, <4>1, ReadsSkip, Zenon
    <3> QED
      BY <2>2, <2>3, <3>4, <3>5, Zenon
  <2>6. CASE f + 1 \in DOMAIN values
    <3>0. PICK v : v = values[f + 1]
      OBVIOUS
    <3>1. PICK g \in 1 .. Limit - 1, s \in Seq(Nat) :
              /\ g = f + 1 /\ v = values[g] /\ Encodable(v, strings) /\ g \in DOMAIN values
              /\ s = Varint[g] \o Encoded(v, strings) /\ s = pieces[g]
      <4>1. f + 1 \in 1 .. Limit - 1
        BY Halves
      <4>2. pieces[f + 1] = Varint[f + 1] \o Encoded(values[f + 1], strings) /\ pieces[f + 1] \in Seq(Nat)
        BY <1>1, <2>1, <2>6, Zenon
      <4>3. Encodable(values[f + 1], strings)
        BY <2>6
      <4>4. PICK g \in 1 .. Limit - 1 : g = f + 1
        BY <4>1, Zenon
      <4>6. PICK s \in Seq(Nat) : s = pieces[g]
        BY <4>2, <4>4, Zenon
      <4>7. /\ g = f + 1 /\ v = values[g] /\ Encodable(v, strings) /\ g \in DOMAIN values
            /\ s = Varint[g] \o Encoded(v, strings) /\ s = pieces[g]
        BY <2>6, <3>0, <4>2, <4>3, <4>4, <4>6, Zenon
      <4> QED
        BY <4>7, Zenon
    <3>2. Stands(data, j, s)
      <4>1. Stands(data, i + P((f + 1) - 1), pieces[f + 1])
        BY <1>6, <2>1, Zenon
      <4> QED
        BY <2>1, <2>2, <2>3, <3>1, <4>1, Zenon
    <3>3. j + Len(s) = i + q
      <4>1. PICK n \in Nat : n = Len(s)
        OBVIOUS
      <4>2. P(f + 1) = P((f + 1) - 1) + Len(pieces[f + 1])
        BY <1>3, <2>1, Zenon
      <4>3. q = p + n
        BY <2>1, <2>2, <3>1, <4>1, <4>2, Zenon
      <4> QED
        BY <2>3, <4>1, <4>3
    <3>4. Entry(data, j, strings) = IF i + q <= l THEN ItemIs(g, v, i + q) ELSE Error
      <4>1. /\ j \in 1 .. Len(data) + 1 /\ Stands(data, j, Varint[g] \o Encoded(v, strings))
            /\ j + Len(Varint[g] \o Encoded(v, strings)) <= Pow2[Word - 1]
        BY <1>7, <2>4, <3>1, <3>2, <3>3, Zenon
      <4>2. Encodable(v, strings)
        BY <3>1, Zenon
      <4>3. Entry(data, j, strings) =
               IF j + Len(Varint[g] \o Encoded(v, strings)) <= Len(data) + 1
               THEN ItemIs(g, v, j + Len(Varint[g] \o Encoded(v, strings))) ELSE Error
        BY <4>1, <4>2, EntryRead, Zenon
      <4> QED
        BY <1>7, <3>1, <3>3, <4>3, Zenon
    <3>5. PICK e \in R : e = elements[j] /\ e = Entry(data, j, strings)
      BY <1>10, <1>13
    <3>6. CASE ~(i + q <= l)
      <4>1. e = Error
        BY <3>4, <3>5, <3>6, Zenon
      <4>2. ~whole
        <5>1. ~(end <= l)
          BY <2>4, <3>6
        <5> QED
          BY <1>8, <5>1
      <4>3. Chain(elements, j) = <<e>>
        BY <1>14, <1>15, <3>5, <4>1, Zenon
      <4>4. Reads(<<e>>, R, values, f, end, whole)
        <5>1. /\ <<e>> \in Seq(R) /\ Len(<<e>>) \in Nat \ {0} /\ Len(<<e>>) = 1 /\ <<e>>[1] = e
          OBVIOUS
        <5>2. ~<<e>>[Len(<<e>>)].ok
          BY <1>15, <4>1, <5>1, Zenon
        <5> QED
          BY <4>2, <5>1, <5>2, Zenon DEF Reads
      <4> QED
        BY <2>2, <2>3, <4>3, <4>4, Zenon
    <3>7. CASE i + q <= l
      <4>1. e = ItemIs(g, v, i + q)
        BY <3>4, <3>5, <3>7, Zenon
      <4>2. ~e.last /\ e.field = g /\ e.value = v /\ e.next = i + q
        BY <4>1 DEF ItemIs
      <4>3. PICK c : c = Chain(elements, i + q) /\ Reads(c, R, values, f + 1, end, whole)
        BY <1>17, <2>2, <3>7, Zenon
      <4>4. Chain(elements, j) = <<e>> \o c
        BY <1>12, <3>5, <4>2, <4>3, Zenon
      <4>5. DOMAIN values \subseteq Nat
        OBVIOUS
      <4>6. e.field = f + 1 /\ e.value = values[f + 1] /\ f + 1 \in DOMAIN values
        BY <3>1, <4>2, Zenon
      <4>7. Reads(<<e>> \o c, R, values, f, end, whole)
        BY <2>1, <4>3, <4>5, <4>6, ReadsMore, Zenon
      <4> QED
        BY <2>2, <2>3, <4>4, <4>7, Zenon
    <3> QED
      BY <3>6, <3>7
  <2> QED
    BY <2>5, <2>6
<1>18. ASSUME NEW d \in Nat, d \in T PROVE d + 1 \in T
  <2>1. ASSUME d + 1 <= m, i + P(m - (d + 1)) <= l
        PROVE  Reads(Chain(elements, i + P(m - (d + 1))), R, values, m - (d + 1), end, whole)
    <3>1. PICK f \in 0 .. m - 1 : f = m - (d + 1) /\ f + 1 = m - d /\ d <= m
      BY <2>1
    <3>2. i + P(f + 1) <= l => Reads(Chain(elements, i + P(f + 1)), R, values, f + 1, end, whole)
      BY <1>18, <3>1, Zenon
    <3>3. i + P(f) <= l
      BY <2>1, <3>1, Zenon
    <3>4. Reads(Chain(elements, i + P(f)), R, values, f, end, whole)
      BY <1>17, <3>2, <3>3
    <3> QED
      BY <3>1, <3>4, Zenon
  <2> HIDE DEF P
  <2> QED
    BY <2>1
<1>19. Nat \subseteq T
  <2> HIDE DEF T
  <2> QED
    BY <1>16, <1>18, Induction
<1>20. Reads(Chain(elements, i), R, values, 0, end, whole)
  <2>1. m \in T
    BY <1>19
  <2>2. m - m = 0 /\ m <= m /\ i + 0 = i /\ i <= l
    BY <1>7
  <2>3. i + P(m - m) = i /\ i + P(m - m) <= l
    BY <1>4, <2>2, Zenon
  <2> HIDE DEF P
  <2>4. Reads(Chain(elements, i + P(m - m)), R, values, m - m, end, whole)
    BY <2>1, <2>2, <2>3, Zenon
  <2> QED
    BY <2>2, <2>3, <2>4, Zenon
<1>21. ReadEntries(data, i, strings) = Chain(elements, i)
  BY <1>9, Zenon DEF ReadEntries
<1>22. whole <=> end <= Len(data) + 1
  BY <1>7, <1>8, Zenon
<1> QED
  BY <1>20, <1>21, <1>22, Zenon DEF ReadsList

(* A list is written as one piece for every number up to the greatest.         *)
LEMMA EntriesIs ==
    ASSUME NEW values, NEW strings \in BOOLEAN, DOMAIN values \subseteq 1 .. Pow2[Word - 1] - 1,
           NEW encoded, encoded = [f \in DOMAIN values |-> Encoded(values[f], strings)]
    PROVE  \E m \in Nat : /\ m < Pow2[Word - 1] /\ DOMAIN values \subseteq 1 .. m
                          /\ Entries(encoded) = Joined(Listed(values, strings, m), m)
<1>1. PICK h \in Nat \ {0} : h = Pow2[Word - 1]
  BY Halves
<1>2. PICK D : D = DOMAIN values \cup {0}
  OBVIOUS
<1>3. D \in SUBSET Nat /\ D # {} /\ \A x \in D : x <= h - 1
  BY <1>1, <1>2
<1>4. PICK m \in Nat : m = Max(D) /\ m \in D /\ \A x \in D : x <= m
  <2>1. PICK b \in Nat : b = h - 1
    OBVIOUS
  <2>2. \A x \in D : x <= b
    BY <1>3, <2>1
  <2>3. Max(D) \in D /\ \A x \in D : x <= Max(D)
    BY <1>3, <2>2, MaxExists
  <2> QED
    BY <1>3, <2>3
<1>5. m < h
  BY <1>3, <1>4
<1>6. DOMAIN values \subseteq 1 .. m
  <2>1. \A f \in DOMAIN values : f \in 1 .. h - 1
    BY <1>1, Zenon
  <2>2. \A f \in DOMAIN values : f <= m
    BY <1>2, <1>4, Zenon
  <2> QED
    BY <2>1, <2>2
<1>7. DOMAIN encoded = DOMAIN values /\ \A f \in DOMAIN values : encoded[f] = Encoded(values[f], strings)
  OBVIOUS
<1>8. Max(DOMAIN encoded \cup {0}) = m
  BY <1>2, <1>4, <1>7, Zenon
<1> DEFINE L == [f \in 1 .. m |-> IF f \in DOMAIN encoded THEN Varint[f] \o encoded[f] ELSE <<>>]
<1>9. Entries(encoded) = FlattenSeq(L)
  BY <1>8, Zenon DEF Entries
<1>10. \A f \in 1 .. m : Listed(values, strings, m)[f] = L[f]
  <2>1. \A f \in 1 .. m : Listed(values, strings, m)[f]
            = IF f \in DOMAIN values THEN Varint[f] \o Encoded(values[f], strings) ELSE <<>>
    BY DEF Listed
  <2>2. \A f \in 1 .. m : L[f] = IF f \in DOMAIN encoded THEN Varint[f] \o encoded[f] ELSE <<>>
    OBVIOUS
  <2> HIDE DEF L
  <2> QED
    BY <1>7, <2>1, <2>2, Zenon
<1>11. Joined(Listed(values, strings, m), m) = FlattenSeq([f \in 1 .. m |-> Listed(values, strings, m)[f]])
  BY Zenon DEF Joined
<1>12. [f \in 1 .. m |-> Listed(values, strings, m)[f]] = L
  <2>1. L = [f \in 1 .. m |-> L[f]]
    OBVIOUS
  <2> HIDE DEF L
  <2>2. [f \in 1 .. m |-> Listed(values, strings, m)[f]] = [f \in 1 .. m |-> L[f]]
    BY <1>10, Zenon
  <2> QED
    BY <2>1, <2>2, Zenon
<1> HIDE DEF L
<1> QED
  BY <1>1, <1>5, <1>6, <1>9, <1>11, <1>12, Zenon

(* Both kinds of lists are written in the same way.                            *)
LEMMA EncodedIs ==
    /\ \A values : EncodedInts(values) = Entries([f \in DOMAIN values |-> Encoded(values[f], FALSE)])
    /\ \A values : EncodedByts(values) = Entries([f \in DOMAIN values |-> Encoded(values[f], TRUE)])
<1>1. \A v : Encoded(v, FALSE) = Varint[v] /\ Encoded(v, TRUE) = Varint[Len(v)] \o v
  BY Zenon DEF Encoded
<1>2. ASSUME NEW values
      PROVE  EncodedInts(values) = Entries([f \in DOMAIN values |-> Encoded(values[f], FALSE)])
  <2>1. [f \in DOMAIN values |-> Varint[values[f]]] = [f \in DOMAIN values |-> Encoded(values[f], FALSE)]
    BY <1>1, Zenon
  <2> QED
    BY <2>1, Zenon DEF EncodedInts
<1>3. ASSUME NEW values
      PROVE  EncodedByts(values) = Entries([f \in DOMAIN values |-> Encoded(values[f], TRUE)])
  <2>1. [f \in DOMAIN values |-> Varint[Len(values[f])] \o values[f]]
            = [f \in DOMAIN values |-> Encoded(values[f], TRUE)]
    BY <1>1, Zenon
  <2> QED
    BY <2>1, Zenon DEF EncodedByts
<1> QED
  BY <1>2, <1>3

(* A list is a byte string.                                                    *)
LEMMA EntriesType ==
    ASSUME NEW values, NEW strings \in BOOLEAN, DOMAIN values \subseteq 1 .. Pow2[Word - 1] - 1,
           \A f \in DOMAIN values : Encodable(values[f], strings)
    PROVE  Entries([f \in DOMAIN values |-> Encoded(values[f], strings)]) \in Seq(Nat)
<1>1. PICK encoded : encoded = [f \in DOMAIN values |-> Encoded(values[f], strings)]
  OBVIOUS
<1>2. PICK m \in Nat : /\ m < Pow2[Word - 1] /\ DOMAIN values \subseteq 1 .. m
                       /\ Entries(encoded) = Joined(Listed(values, strings, m), m)
  BY <1>1, EntriesIs
<1>3. m < Limit
  BY <1>2, Halves
<1>4. \A f \in 1 .. m : Listed(values, strings, m)[f] \in Seq(Nat)
  BY <1>3, ListedType
<1>5. PICK pieces : pieces = Listed(values, strings, m)
  OBVIOUS
<1>6. \A f \in 1 .. m : pieces[f] \in Seq(Nat)
  BY <1>4, <1>5, Zenon
<1>7. \A f \in 0 .. m : Joined(pieces, f) \in Seq(Nat)
  BY <1>6, JoinedType
<1>8. m \in 0 .. m
  OBVIOUS
<1>9. Joined(pieces, m) \in Seq(Nat)
  BY <1>7, <1>8, Zenon
<1> QED
  BY <1>1, <1>2, <1>5, <1>9, Zenon

ListEnds(data, i, strings, values, end) ==
    /\ end <= Len(data) + 1 =>
          /\ Last(ReadEntries(data, i, strings)) = ClosingIs(end)
          /\ LastValues(Front(ReadEntries(data, i, strings))) = values
    /\ ~(end <= Len(data) + 1) => ~Last(ReadEntries(data, i, strings)).ok

(* The loop over a list as it is written: its values, and where it ends; or no *)
(* list.                                                                       *)
LEMMA ListIs ==
    ASSUME NEW data \in Seq(Nat), Held(data), NEW i \in 1 .. Len(data) + 1, NEW strings \in BOOLEAN,
           NEW S \in SUBSET (1 .. Pow2[Word - 1] - 1), NEW V, NEW values \in [S -> V],
           \A v \in V : Encodable(v, strings),
           NEW s \in Seq(Nat), s = Entries([f \in DOMAIN values |-> Encoded(values[f], strings)]),
           NEW end \in Nat, end = i + Len(s) + 1, end <= Pow2[Word - 1], Stands(data, i, s \o << 0 >>)
    PROVE  ListEnds(data, i, strings, values, end)
<1>0. DOMAIN values = S /\ S \in SUBSET (Nat \ {0}) /\ \A f \in S : values[f] \in V
  <2>1. PICK h \in Nat : h = Pow2[Word - 1]
    BY Halves
  <2>2. \A f \in S : f \in 1 .. h - 1
    BY <2>1, Zenon
  <2>3. S \in SUBSET (Nat \ {0})
    BY <2>2
  <2> QED
    BY <2>3
<1>1. /\ \A f \in DOMAIN values : Encodable(values[f], strings)
      /\ DOMAIN values \subseteq 1 .. Pow2[Word - 1] - 1
  BY <1>0, Zenon
<1>2. PICK encoded : encoded = [f \in DOMAIN values |-> Encoded(values[f], strings)]
  OBVIOUS
<1>3. PICK m \in Nat : /\ m < Pow2[Word - 1] /\ DOMAIN values \subseteq 1 .. m
                       /\ Entries(encoded) = Joined(Listed(values, strings, m), m)
  BY <1>1, <1>2, EntriesIs, ZenonT(60)
<1>4. m < Limit
  BY <1>3, Halves
<1>5. PICK pieces : pieces = Listed(values, strings, m)
  OBVIOUS
<1>6. Joined(pieces, m) = s
  BY <1>2, <1>3, <1>5, Zenon
<1>7. end = i + Len(Joined(pieces, m)) + 1 /\ Stands(data, i, Joined(pieces, m) \o <<0>>)
  BY <1>6, Zenon
<1>list. ReadsList(data, i, strings, values, m, end)
  BY <1>1, <1>3, <1>4, <1>5, <1>7, ListRead, Zenon
<1>8. PICK R : \E whole \in BOOLEAN :
          /\ whole <=> end <= Len(data) + 1
          /\ Reads(ReadEntries(data, i, strings), R, values, 0, end, whole)
  BY <1>list, Zenon DEF ReadsList
<1>9. PICK whole \in BOOLEAN :
          /\ whole <=> end <= Len(data) + 1
          /\ Reads(ReadEntries(data, i, strings), R, values, 0, end, whole)
  BY <1>8
<1>10. PICK c : c = ReadEntries(data, i, strings)
  OBVIOUS
<1>11. Reads(c, R, values, 0, end, whole)
  BY <1>9, <1>10, Zenon
<1>12. CASE end <= Len(data) + 1
  <2>1. Reads(c, R, values, 0, end, TRUE)
    <3>1. whole = TRUE
      BY <1>9, <1>12
    <3> QED
      BY <1>11, <3>1
  <2>2. Last(c) = ClosingIs(end) /\ LastValues(Front(c)) = values
    BY <1>0, <2>1, TakenValues
  <2> QED
    BY <1>10, <1>12, <2>2, Zenon DEF ListEnds
<1>13. CASE ~(end <= Len(data) + 1)
  <2>1. ~c[Len(c)].ok
    BY <1>9, <1>11, <1>13, Zenon DEF Reads
  <2>2. ~Last(c).ok
    BY <2>1, Zenon DEF Last
  <2> QED
    BY <1>10, <1>13, <2>2, Zenon DEF ListEnds
<1> QED
  BY <1>12, <1>13

(* Concatenation is associative.                                               *)
Regroups(s, t, u) == (s \o t) \o u = s \o (t \o u)

LEMMA Regrouped == \A s \in Seq(Nat) : \A t \in Seq(Nat) : \A u \in Seq(Nat) : Regroups(s, t, u)
<1>1. ASSUME NEW s \in Seq(Nat), NEW t \in Seq(Nat), NEW u \in Seq(Nat) PROVE Regroups(s, t, u)
  <2>1. (s \o t) \o u = s \o (t \o u)
    BY Associative, SMTT(30)
  <2> QED
    BY <2>1, Zenon DEF Regroups
<1> QED
  BY <1>1

(* The parts of a head, and where they stand.                                  *)
LEMMA HeadParts ==
    ASSUME NEW I \in Seq(Nat), NEW B \in Seq(Nat), NEW V \in Seq(Nat)
    PROVE  /\ << 1 >> \o I \o << 0 >> \o B \o << 0 >> \o V = << 1 >> \o ((I \o << 0 >>) \o ((B \o << 0 >>) \o V))
           /\ << 1 >> \o I \o << 0 >> \o B \in Seq(Nat)
           /\ Len(<< 1 >> \o I \o << 0 >> \o B) = (Len(I) + 2) + Len(B)
<1>1. PICK o \in Seq(Nat) : o = <<1>> /\ Len(o) = 1
  <2>1. <<1>> \in Seq(Nat) /\ Len(<<1>>) = 1
    OBVIOUS
  <2> QED
    BY <2>1, Zenon
<1>2. PICK z \in Seq(Nat) : z = <<0>> /\ Len(z) = 1
  <2>1. <<0>> \in Seq(Nat) /\ Len(<<0>>) = 1
    OBVIOUS
  <2> QED
    BY <2>1, Zenon
<1>3. PICK iz \in Seq(Nat) : iz = I \o z /\ Len(iz) = Len(I) + 1 /\ (o \o I) \o z = o \o iz
  <2>1. I \o z \in Seq(Nat) /\ Len(I \o z) = Len(I) + Len(z)
    BY Concat
  <2>2. (o \o I) \o z = o \o (I \o z)
    <3>1. Regroups(o, I, z)
      BY Regrouped, Zenon
    <3> QED
      BY <3>1, Zenon DEF Regroups
  <2> QED
    BY <1>2, <2>1, <2>2, Zenon
<1>4. PICK bz \in Seq(Nat) : bz = B \o z
  <2>1. B \o z \in Seq(Nat)
    BY Concat
  <2> QED
    BY <2>1, Zenon
<1>5. PICK bzv \in Seq(Nat) : bzv = bz \o V
  <2>1. bz \o V \in Seq(Nat)
    BY Concat
  <2> QED
    BY <2>1, Zenon
<1>6. PICK p \in Seq(Nat) : p = o \o iz /\ Len(p) = 1 + (Len(I) + 1)
  <2>1. o \o iz \in Seq(Nat) /\ Len(o \o iz) = Len(o) + Len(iz)
    BY Concat
  <2> QED
    BY <1>1, <1>3, <2>1, Zenon
<1>7. p \o B \in Seq(Nat) /\ Len(p \o B) = Len(p) + Len(B) /\ (p \o B) \o z = p \o bz
  <2>1. p \o B \in Seq(Nat) /\ Len(p \o B) = Len(p) + Len(B)
    BY Concat
  <2>2. (p \o B) \o z = p \o (B \o z)
    <3>1. Regroups(p, B, z)
      BY Regrouped, Zenon
    <3> QED
      BY <3>1, Zenon DEF Regroups
  <2> QED
    BY <1>4, <2>1, <2>2, Zenon
<1>8. (p \o bz) \o V = p \o bzv
  <2>1. (p \o bz) \o V = p \o (bz \o V)
    <3>1. Regroups(p, bz, V)
      BY Regrouped, Zenon
    <3> QED
      BY <3>1, Zenon DEF Regroups
  <2> QED
    BY <1>5, <2>1, Zenon
<1>9. p \o bzv = o \o (iz \o bzv)
  <2>1. (o \o iz) \o bzv = o \o (iz \o bzv)
    <3>1. Regroups(o, iz, bzv)
      BY Regrouped, Zenon
    <3> QED
      BY <3>1, Zenon DEF Regroups
  <2> QED
    BY <1>6, <2>1, Zenon
<1>10. <<1>> \o I \o <<0>> \o B = p \o B
  BY <1>1, <1>2, <1>3, <1>6, Zenon
<1>11. Len(p \o B) = (Len(I) + 2) + Len(B)
  <2>1. 1 + (Len(I) + 1) = Len(I) + 2
    OBVIOUS
  <2> QED
    BY <1>6, <1>7, <2>1, Zenon
<1>12. <<1>> \o I \o <<0>> \o B \o <<0>> \o V = o \o (iz \o bzv)
  BY <1>2, <1>7, <1>8, <1>9, <1>10, Zenon
<1>13. o \o (iz \o bzv) = <<1>> \o ((I \o <<0>>) \o ((B \o <<0>>) \o V))
  BY <1>1, <1>2, <1>3, <1>4, <1>5, Zenon
<1> QED
  BY <1>7, <1>10, <1>11, <1>12, <1>13, Zenon

(* Where the lists of a head stand, and where its length.                      *)
LEMMA HeadStands ==
    ASSUME NEW data \in Seq(Nat), NEW I \in Seq(Nat), NEW B \in Seq(Nat), NEW V \in Seq(Nat),
           Stands(data, 1, << 1 >> \o ((I \o << 0 >>) \o ((B \o << 0 >>) \o V)))
    PROVE  /\ Stands(data, 1, << 1 >>) /\ Stands(data, 2, I \o << 0 >>)
           /\ Stands(data, Len(I) + 3, B \o << 0 >>) /\ Stands(data, Len(I) + 4 + Len(B), V)
           /\ Len(<< 1 >> \o ((I \o << 0 >>) \o ((B \o << 0 >>) \o V))) + 1 = (Len(I) + 4 + Len(B)) + Len(V)
           /\ << 1 >> \o ((I \o << 0 >>) \o ((B \o << 0 >>) \o V)) \in Seq(Nat)
<1>0. PICK m \in Nat, n \in Nat, v \in Nat : m = Len(I) /\ n = Len(B) /\ v = Len(V)
  OBVIOUS
<1>1. <<1>> \in Seq(Nat) /\ Len(<<1>>) = 1 /\ <<0>> \in Seq(Nat) /\ Len(<<0>>) = 1
  <2>1. <<1>> \in Seq(Nat) /\ Len(<<1>>) = 1
    OBVIOUS
  <2>2. <<0>> \in Seq(Nat) /\ Len(<<0>>) = 1
    OBVIOUS
  <2> QED
    BY <2>1, <2>2
<1>2. I \o <<0>> \in Seq(Nat) /\ Len(I \o <<0>>) = m + 1 /\ B \o <<0>> \in Seq(Nat) /\ Len(B \o <<0>>) = n + 1
  <2>1. I \o <<0>> \in Seq(Nat) /\ Len(I \o <<0>>) = Len(I) + Len(<<0>>)
    BY <1>1, Concat
  <2>2. B \o <<0>> \in Seq(Nat) /\ Len(B \o <<0>>) = Len(B) + Len(<<0>>)
    BY <1>1, Concat
  <2> QED
    BY <1>0, <1>1, <2>1, <2>2, Zenon
<1>3. PICK o, iz, bz : o = <<1>> /\ iz = I \o <<0>> /\ bz = B \o <<0>>
  OBVIOUS
<1>4. /\ o \in Seq(Nat) /\ iz \in Seq(Nat) /\ bz \in Seq(Nat)
      /\ Len(o) = 1 /\ Len(iz) = m + 1 /\ Len(bz) = n + 1
  BY <1>1, <1>2, <1>3, Zenon
<1>5. bz \o V \in Seq(Nat) /\ Len(bz \o V) = (n + 1) + v
  <2>1. bz \o V \in Seq(Nat) /\ Len(bz \o V) = Len(bz) + Len(V)
    BY <1>4, Concat
  <2> QED
    BY <1>0, <1>4, <2>1, Zenon
<1>6. PICK t \in Seq(Nat) : t = bz \o V
  BY <1>5
<1>7. iz \o t \in Seq(Nat) /\ Len(iz \o t) = (m + 1) + ((n + 1) + v)
  <2>1. iz \o t \in Seq(Nat) /\ Len(iz \o t) = Len(iz) + Len(t)
    BY <1>4, Concat
  <2> QED
    BY <1>4, <1>5, <1>6, <2>1, Zenon
<1>8. PICK u \in Seq(Nat) : u = iz \o t
  BY <1>7
<1>9. o \o u \in Seq(Nat) /\ Len(o \o u) = 1 + ((m + 1) + ((n + 1) + v))
  <2>1. o \o u \in Seq(Nat) /\ Len(o \o u) = Len(o) + Len(u)
    BY <1>4, Concat
  <2> QED
    BY <1>4, <1>7, <1>8, <2>1, Zenon
<1>10. <<1>> \o ((I \o <<0>>) \o ((B \o <<0>>) \o V)) = o \o u
  BY <1>3, <1>6, <1>8, Zenon
<1>11. 1 + 1 = 2 /\ 2 + (m + 1) = m + 3 /\ (m + 3) + (n + 1) = m + 4 + n
       /\ (1 + ((m + 1) + ((n + 1) + v))) + 1 = (m + 4 + n) + v /\ m + 3 \in Nat /\ 1 \in Nat /\ 2 \in Nat
  OBVIOUS
<1>12. \A i \in Nat : \A r \in Seq(Nat) : \A w \in Seq(Nat) :
           Stands(data, i, r \o w) => Stands(data, i, r) /\ Stands(data, i + Len(r), w)
  <2>1. ASSUME NEW i \in Nat, NEW r \in Seq(Nat), NEW w \in Seq(Nat), Stands(data, i, r \o w)
        PROVE  Stands(data, i, r) /\ Stands(data, i + Len(r), w)
    BY <2>1, StandsConcat, Zenon
  <2> QED
    BY <2>1
<1>13. Stands(data, 1, o) /\ Stands(data, 2, u)
  <2>1. Stands(data, 1, o \o u)
    BY <1>10, Zenon
  <2>2. Stands(data, 1, o) /\ Stands(data, 1 + Len(o), u)
    BY <1>4, <1>11, <1>12, <2>1, Zenon
  <2> QED
    BY <1>4, <1>11, <2>2, Zenon
<1>14. Stands(data, 2, iz) /\ Stands(data, m + 3, t)
  <2>1. Stands(data, 2, iz) /\ Stands(data, 2 + Len(iz), t)
    BY <1>4, <1>8, <1>11, <1>12, <1>13, Zenon
  <2> QED
    BY <1>4, <1>11, <2>1, Zenon
<1>15. Stands(data, m + 3, bz) /\ Stands(data, m + 4 + n, V)
  <2>1. Stands(data, m + 3, bz) /\ Stands(data, (m + 3) + Len(bz), V)
    BY <1>4, <1>6, <1>11, <1>12, <1>14, Zenon
  <2> QED
    BY <1>4, <1>11, <2>1, Zenon
<1>16. Len(o \o u) + 1 = (m + 4 + n) + v
  BY <1>9, <1>11, Zenon
<1> QED
  BY <1>0, <1>3, <1>9, <1>10, <1>13, <1>14, <1>15, <1>16, Zenon

(* What a loop made of a list that ends at end, of data that ends at l.        *)
ReadTo(items, values, end, l) ==
    IF end <= l THEN Last(items) = ClosingIs(end) /\ LastValues(Front(items)) = values ELSE ~Last(items).ok

(* The way through a head: where its lists and its length begin and end.       *)
HeadPath(data, ints, byts, n, a, b, end, l) ==
    /\ a \in Nat /\ b \in Nat /\ end \in Nat /\ l \in Nat /\ 2 <= a /\ a <= b /\ b <= end
    /\ ReadVarint(data, 1) = IF 2 <= l THEN [ok |-> TRUE, n |-> 1, next |-> 2] ELSE Error
    /\ 2 <= l => ReadTo(ReadEntries(data, 2, FALSE), ints, a, l)
    /\ a <= l => ReadTo(ReadEntries(data, a, TRUE), byts, b, l)
    /\ b <= l => ReadVarint(data, b) = IF end <= l THEN [ok |-> TRUE, n |-> n, next |-> end] ELSE Error

(* The steps of decodeWpkgHead along the parts of a head.                      *)
LEMMA HeadSteps ==
    ASSUME NEW data, NEW ints, NEW byts, NEW n, NEW a, NEW b, NEW end, NEW l,
           HeadPath(data, ints, byts, n, a, b, end, l)
    PROVE  /\ end <= l => DecodeWpkgHead(data) = [ok |-> TRUE, ints |-> ints, byts |-> byts, hlen |-> end - 1]
           /\ ~(end <= l) => ~DecodeWpkgHead(data).ok
<1>0. /\ a \in Nat /\ b \in Nat /\ end \in Nat /\ l \in Nat /\ 2 <= a /\ a <= b /\ b <= end
      /\ ReadVarint(data, 1) = IF 2 <= l THEN [ok |-> TRUE, n |-> 1, next |-> 2] ELSE Error
      /\ 2 <= l => ReadTo(ReadEntries(data, 2, FALSE), ints, a, l)
      /\ a <= l => ReadTo(ReadEntries(data, a, TRUE), byts, b, l)
      /\ b <= l => ReadVarint(data, b) = IF end <= l THEN [ok |-> TRUE, n |-> n, next |-> end] ELSE Error
  BY Zenon DEF HeadPath
<1>1. PICK version, inums, bstrs, length, head :
          /\ version = ReadVarint(data, 1) /\ inums = ReadEntries(data, version.next, FALSE)
          /\ bstrs = ReadEntries(data, Last(inums).next, TRUE) /\ length = ReadVarint(data, Last(bstrs).next)
          /\ head = HeadOf(version, inums, bstrs, length) /\ head = DecodeWpkgHead(data)
  BY Zenon DEF DecodeWpkgHead
<1>2. ~Error.ok
  BY DEF Error
<1>3. \A x : ClosingIs(x).ok /\ ClosingIs(x).next = x
  BY DEF ClosingIs
<1>4. (end <= l => b <= l) /\ (b <= l => a <= l) /\ (a <= l => 2 <= l)
  BY <1>0
<1>5. CASE ~(2 <= l)
  <2>1. version = Error
    BY <1>0, <1>1, <1>5, Zenon
  <2>2. ~head.ok
    BY <1>1, <1>2, <2>1, Zenon DEF HeadOf
  <2> QED
    BY <1>1, <1>4, <1>5, <2>2, Zenon
<1>6. CASE 2 <= l
  <2>1. version = [ok |-> TRUE, n |-> 1, next |-> 2]
    BY <1>0, <1>1, <1>6, Zenon
  <2>2. version.ok /\ version.next = 2
    BY <2>1
  <2>3. ReadTo(inums, ints, a, l)
    BY <1>0, <1>1, <1>6, <2>2, Zenon
  <2>4. CASE ~(a <= l)
    <3>1. ~Last(inums).ok
      BY <2>3, <2>4, Zenon DEF ReadTo
    <3>2. head = Last(inums)
      BY <1>1, <2>2, <3>1, Zenon DEF HeadOf
    <3> QED
      BY <1>1, <1>4, <2>4, <3>1, <3>2, Zenon
  <2>5. CASE a <= l
    <3>1. Last(inums) = ClosingIs(a) /\ LastValues(Front(inums)) = ints
      BY <2>3, <2>5, Zenon DEF ReadTo
    <3>2. Last(inums).ok /\ Last(inums).next = a
      BY <1>3, <3>1, Zenon
    <3>3. ReadTo(bstrs, byts, b, l)
      BY <1>0, <1>1, <2>5, <3>2, Zenon
    <3>4. CASE ~(b <= l)
      <4>1. ~Last(bstrs).ok
        BY <3>3, <3>4, Zenon DEF ReadTo
      <4>2. head = Last(bstrs)
        BY <1>1, <2>2, <3>2, <4>1, Zenon DEF HeadOf
      <4> QED
        BY <1>1, <1>4, <3>4, <4>1, <4>2, Zenon
    <3>5. CASE b <= l
      <4>1. Last(bstrs) = ClosingIs(b) /\ LastValues(Front(bstrs)) = byts
        BY <3>3, <3>5, Zenon DEF ReadTo
      <4>2. Last(bstrs).ok /\ Last(bstrs).next = b
        BY <1>3, <4>1, Zenon
      <4>3. length = IF end <= l THEN [ok |-> TRUE, n |-> n, next |-> end] ELSE Error
        BY <1>0, <1>1, <3>5, <4>2, Zenon
      <4>4. CASE ~(end <= l)
        <5>1. length = Error
          BY <4>3, <4>4, Zenon
        <5>2. ~head.ok
          BY <1>1, <1>2, <2>2, <3>2, <4>2, <5>1, Zenon DEF HeadOf
        <5> QED
          BY <1>1, <4>4, <5>2, Zenon
      <4>5. CASE end <= l
        <5>1. length = [ok |-> TRUE, n |-> n, next |-> end]
          BY <4>3, <4>5, Zenon
        <5>2. length.ok /\ length.next = end
          BY <5>1
        <5>3. head = [ok |-> TRUE, ints |-> ints, byts |-> byts, hlen |-> end - 1]
          BY <1>1, <2>2, <3>1, <3>2, <4>1, <4>2, <5>2, Zenon DEF HeadOf
        <5> QED
          BY <1>1, <4>5, <5>3, Zenon
      <4> QED
        BY <4>4, <4>5
    <3> QED
      BY <3>4, <3>5
  <2> QED
    BY <2>4, <2>5
<1> QED
  BY <1>5, <1>6

(* What heads are made of can be written.                                      *)
LEMMA HeadValues ==
    /\ \A v \in Values : Encodable(v, FALSE)
    /\ \A v \in Strings : Encodable(v, TRUE)
    /\ Strings \subseteq Seq(Nat)
    /\ HeadFields \subseteq 1 .. Pow2[Word - 1] - 1
<1>1. Values \subseteq 0 .. Limit - 1 /\ HeadFields \subseteq 1 .. Pow2[Word - 1] - 1
      /\ \A s \in Strings : s \in Seq(Nat) /\ Len(s) < Pow2[Word - 1]
  BY InputsAssumption
<1> QED
  BY <1>1, Zenon DEF Encodable

HeadLaid(ints, byts, I, B, V, n) ==
    /\ I = Entries([f \in DOMAIN ints |-> Encoded(ints[f], FALSE)])
    /\ B = Entries([f \in DOMAIN byts |-> Encoded(byts[f], TRUE)])
    /\ V = Varint[n]
    /\ WpkgHead(ints, byts) = <<1>> \o ((I \o <<0>>) \o ((B \o <<0>>) \o V))

(* A head and its parts.                                                       *)
LEMMA HeadIs ==
    ASSUME NEW S \in SUBSET HeadFields, NEW T \in SUBSET HeadFields,
           NEW ints \in [S -> Values], NEW byts \in [T -> Strings], Held(WpkgPrefix(ints, byts))
    PROVE  \E I \in Seq(Nat) : \E B \in Seq(Nat) : \E V \in Seq(Nat) : \E n \in 0 .. Limit - 1 :
               HeadLaid(ints, byts, I, B, V, n)
<1>1. PICK I \in Seq(Nat) : I = Entries([f \in DOMAIN ints |-> Encoded(ints[f], FALSE)])
  <2>1. DOMAIN ints = S /\ \A f \in S : ints[f] \in Values
    OBVIOUS
  <2>2. DOMAIN ints \subseteq 1 .. Pow2[Word - 1] - 1 /\ \A f \in DOMAIN ints : Encodable(ints[f], FALSE)
    BY <2>1, HeadValues, Zenon
  <2> QED
    BY <2>2, EntriesType
<1>2. PICK B \in Seq(Nat) : B = Entries([f \in DOMAIN byts |-> Encoded(byts[f], TRUE)])
  <2>1. DOMAIN byts = T /\ \A f \in T : byts[f] \in Strings
    OBVIOUS
  <2>2. DOMAIN byts \subseteq 1 .. Pow2[Word - 1] - 1 /\ \A f \in DOMAIN byts : Encodable(byts[f], TRUE)
    BY <2>1, HeadValues, Zenon
  <2> QED
    BY <2>2, EntriesType
<1>3. WpkgPrefix(ints, byts) = <<1>> \o I \o <<0>> \o B
  <2>1. Varint[1] = <<1>> /\ Varint[0] = <<0>>
    <3>1. 0 \in 0 .. More - 1 /\ 1 \in 0 .. More - 1
      BY Halves
    <3> QED
      BY <3>1, VarintOfOne
  <2>2. I = EncodedInts(ints) /\ B = EncodedByts(byts)
    BY <1>1, <1>2, EncodedIs, Zenon
  <2> QED
    BY <2>1, <2>2, Zenon DEF WpkgPrefix
<1>4. <<1>> \o I \o <<0>> \o B \in Seq(Nat)
  <2>1. <<>> \in Seq(Nat)
    OBVIOUS
  <2> QED
    BY <2>1, HeadParts
<1>5. PICK n \in 0 .. Limit - 1 : n = Len(WpkgPrefix(ints, byts)) + 1
  <2>1. PICK p \in Nat : p = Len(WpkgPrefix(ints, byts))
    BY <1>3, <1>4
  <2>2. p < Pow2[Word - 1]
    BY <2>1, Zenon DEF Held
  <2>3. p + 1 \in 0 .. Limit - 1
    <3>1. PICK h \in Nat \ {0} : h = Pow2[Word - 1] /\ Limit = 2 * h
      BY Halves
    <3>2. h > 1 \/ h = 1
      OBVIOUS
    <3>3. h # 1
      BY <3>1, Halves
    <3> QED
      BY <2>2, <3>1, <3>2, <3>3
  <2> QED
    BY <2>1, <2>3
<1>6. PICK V \in Seq(Nat) : V = Varint[n]
  BY VarintLength
<1>7. WpkgHead(ints, byts) = <<1>> \o I \o <<0>> \o B \o <<0>> \o V
  BY <1>3, <1>5, <1>6, Zenon DEF WpkgHead
<1>8. WpkgHead(ints, byts) = <<1>> \o ((I \o <<0>>) \o ((B \o <<0>>) \o V))
  <2>1. <<1>> \o I \o <<0>> \o B \o <<0>> \o V = <<1>> \o ((I \o <<0>>) \o ((B \o <<0>>) \o V))
    BY HeadParts, ZenonT(60)
  <2> QED
    BY <1>7, <2>1, Zenon
<1>9. HeadLaid(ints, byts, I, B, V, n)
  BY <1>1, <1>2, <1>6, <1>8, Zenon DEF HeadLaid
<1> QED
  BY <1>9, Zenon

HeadEnds(data, ints, byts, head) ==
    /\ Len(head) <= Len(data) =>
          DecodeWpkgHead(data) = [ok |-> TRUE, ints |-> ints, byts |-> byts, hlen |-> Len(head)]
    /\ ~(Len(head) <= Len(data)) => ~DecodeWpkgHead(data).ok

(* A head that stands at the beginning of data is read, if it came whole.      *)
LEMMA HeadRead ==
    ASSUME NEW S \in SUBSET HeadFields, NEW T \in SUBSET HeadFields,
           NEW ints \in [S -> Values], NEW byts \in [T -> Strings], Held(WpkgPrefix(ints, byts)),
           NEW head, head = WpkgHead(ints, byts), Held(head),
           NEW data \in Seq(Nat), Held(data), Stands(data, 1, head)
    PROVE  HeadEnds(data, ints, byts, head)
<1>1. PICK I \in Seq(Nat), B \in Seq(Nat), V \in Seq(Nat), n \in 0 .. Limit - 1 : HeadLaid(ints, byts, I, B, V, n)
  BY HeadIs
<1>2. PICK i \in Nat, j \in Nat, v \in Nat, l \in Nat \ {0} :
          i = Len(I) /\ j = Len(B) /\ v = Len(V) /\ l = Len(data) + 1
  OBVIOUS
<1>3. PICK a \in Nat, b \in Nat, end \in Nat :
          /\ a = i + 3 /\ b = i + 4 + j /\ end = b + v /\ 2 <= a /\ a <= b /\ b <= end
          /\ a = 2 + i + 1 /\ b = a + j + 1
  <2>1. /\ i + 3 \in Nat /\ i + 4 + j \in Nat /\ (i + 4 + j) + v \in Nat
        /\ 2 <= i + 3 /\ i + 3 <= i + 4 + j /\ i + 4 + j <= (i + 4 + j) + v
        /\ i + 3 = 2 + i + 1 /\ i + 4 + j = (i + 3) + j + 1
    OBVIOUS
  <2> QED
    BY <2>1
<1>4. /\ Stands(data, 1, <<1>>) /\ Stands(data, 2, I \o <<0>>)
      /\ Stands(data, a, B \o <<0>>) /\ Stands(data, b, V)
      /\ Len(head) + 1 = end
  <2>1. Stands(data, 1, <<1>> \o ((I \o <<0>>) \o ((B \o <<0>>) \o V)))
    BY <1>1, Zenon DEF HeadLaid
  <2>2. /\ Stands(data, 1, <<1>>) /\ Stands(data, 2, I \o <<0>>)
        /\ Stands(data, Len(I) + 3, B \o <<0>>) /\ Stands(data, Len(I) + 4 + Len(B), V)
        /\ Len(<<1>> \o ((I \o <<0>>) \o ((B \o <<0>>) \o V))) + 1 = (Len(I) + 4 + Len(B)) + Len(V)
    BY <2>1, HeadStands
  <2>3. head = <<1>> \o ((I \o <<0>>) \o ((B \o <<0>>) \o V))
    BY <1>1, Zenon DEF HeadLaid
  <2> QED
    BY <1>2, <1>3, <2>2, <2>3, Zenon
<1>5. end <= Pow2[Word - 1] /\ b <= Pow2[Word - 1] /\ a <= Pow2[Word - 1] /\ Len(head) \in Nat /\ Len(head) = end - 1
      /\ (end <= l <=> Len(head) <= Len(data))
  <2>1. PICK h \in Nat : h = Pow2[Word - 1]
    BY Halves
  <2>2. head \in Seq(Nat)
    <3>1. <<1>> \o ((I \o <<0>>) \o ((B \o <<0>>) \o V)) \in Seq(Nat)
      BY <1>1, HeadStands DEF HeadLaid
    <3> QED
      BY <1>1, <3>1, Zenon DEF HeadLaid
  <2>3. PICK m \in Nat, d \in Nat : m = Len(head) /\ m < h /\ d = Len(data)
    BY <2>1, <2>2 DEF Held
  <2>4. m + 1 = end /\ l = d + 1
    BY <1>2, <1>4, <2>3
  <2>5. end <= h /\ b <= h /\ a <= h /\ m = end - 1 /\ (end <= l <=> m <= d)
    BY <1>3, <2>3, <2>4
  <2> QED
    BY <2>1, <2>3, <2>5, Zenon
<1>6. ReadVarint(data, 1) = IF 2 <= l THEN [ok |-> TRUE, n |-> 1, next |-> 2] ELSE Error
  <2>1. Varint[1] = <<1>> /\ Len(<<1>>) = 1 /\ 1 \in 0 .. Limit - 1 /\ 1 \in Nat \ {0} /\ 1 <= Len(data) + 1 /\ 1 + 1 = 2
    <3>1. 1 \in 0 .. More - 1 /\ 1 \in 0 .. Limit - 1
      BY Halves
    <3>2. Varint[1] = <<1>>
      BY <3>1, VarintOfOne
    <3>3. Len(<<1>>) = 1 /\ 1 \in Nat \ {0} /\ 1 <= Len(data) + 1 /\ 1 + 1 = 2
      OBVIOUS
    <3> QED
      BY <3>1, <3>2, <3>3, Zenon
  <2>2. Stands(data, 1, Varint[1])
    BY <1>4, <2>1, Zenon
  <2>3. ReadVarint(data, 1) = IF 1 + Len(Varint[1]) <= Len(data) + 1
                              THEN [ok |-> TRUE, n |-> 1, next |-> 1 + Len(Varint[1])] ELSE Error
    BY <2>1, <2>2, NumberRead
  <2> QED
    BY <1>2, <2>1, <2>3, Zenon
<1>7. ASSUME 2 <= l PROVE ReadTo(ReadEntries(data, 2, FALSE), ints, a, l)
  <2>1. 2 \in 1 .. Len(data) + 1
    BY <1>2, <1>7
  <2>2. S \in SUBSET (1 .. Pow2[Word - 1] - 1) /\ (\A x \in Values : Encodable(x, FALSE)) /\ FALSE \in BOOLEAN
    BY HeadValues, Zenon
  <2>3. I = Entries([f \in DOMAIN ints |-> Encoded(ints[f], FALSE)])
    BY <1>1, Zenon DEF HeadLaid
  <2>4. a = 2 + Len(I) + 1
    BY <1>2, <1>3, Zenon
  <2>5. ListEnds(data, 2, FALSE, ints, a)
    BY <1>4, <1>5, <2>1, <2>2, <2>3, <2>4, ListIs, Zenon
  <2> QED
    BY <1>2, <2>5, Zenon DEF ReadTo, ListEnds
<1>8. ASSUME a <= l PROVE ReadTo(ReadEntries(data, a, TRUE), byts, b, l)
  <2>1. a \in 1 .. Len(data) + 1
    BY <1>2, <1>3, <1>8
  <2>2. T \in SUBSET (1 .. Pow2[Word - 1] - 1) /\ (\A x \in Strings : Encodable(x, TRUE)) /\ TRUE \in BOOLEAN
    BY HeadValues, Zenon
  <2>3. B = Entries([f \in DOMAIN byts |-> Encoded(byts[f], TRUE)])
    BY <1>1, Zenon DEF HeadLaid
  <2>4. b = a + Len(B) + 1
    BY <1>2, <1>3, Zenon
  <2>5. ListEnds(data, a, TRUE, byts, b)
    BY <1>4, <1>5, <2>1, <2>2, <2>3, <2>4, ListIs, Zenon
  <2> QED
    BY <1>2, <2>5, Zenon DEF ReadTo, ListEnds
<1>9. ASSUME b <= l
      PROVE  ReadVarint(data, b) = IF end <= l THEN [ok |-> TRUE, n |-> n, next |-> end] ELSE Error
  <2>1. b \in Nat \ {0} /\ b <= Len(data) + 1
    BY <1>2, <1>3, <1>9
  <2>2. V = Varint[n]
    BY <1>1, Zenon DEF HeadLaid
  <2>3. Stands(data, b, Varint[n])
    BY <1>4, <2>2, Zenon
  <2>4. ReadVarint(data, b) = IF b + Len(Varint[n]) <= Len(data) + 1
                              THEN [ok |-> TRUE, n |-> n, next |-> b + Len(Varint[n])] ELSE Error
    BY <2>1, <2>3, NumberRead, Zenon
  <2> QED
    BY <1>2, <1>3, <2>2, <2>4, Zenon
<1>10. /\ end <= l => DecodeWpkgHead(data) = [ok |-> TRUE, ints |-> ints, byts |-> byts, hlen |-> end - 1]
       /\ ~(end <= l) => ~DecodeWpkgHead(data).ok
  <2>1. HeadPath(data, ints, byts, n, a, b, end, l)
    BY <1>2, <1>3, <1>6, <1>7, <1>8, <1>9, Zenon DEF HeadPath
  <2> QED
    BY <2>1, HeadSteps, Zenon
<1> QED
  BY <1>5, <1>10, Zenon DEF HeadEnds

(* A length is put together of its four bytes.                                 *)
LEMMA FourBytes ==
    ASSUME NEW n \in Nat, n \div (Byte * Byte * Byte) < Byte
    PROVE  /\ (((n \div (Byte * Byte * Byte)) % Byte) \in Nat) /\ (((n \div (Byte * Byte)) % Byte) \in Nat)
           /\ ((n \div Byte) % Byte) \in Nat /\ (n % Byte) \in Nat
           /\ ((((((n \div (Byte * Byte * Byte)) % Byte) * Byte) + ((n \div (Byte * Byte)) % Byte)) * Byte
                 + ((n \div Byte) % Byte)) * Byte) + (n % Byte) = n
<1>1. PICK a \in Nat : a = n \div 256
  OBVIOUS
<1>2. PICK b \in Nat : b = a \div 256
  OBVIOUS
<1>3. PICK c \in Nat : c = b \div 256
  OBVIOUS
<1>4. n \div Byte = a /\ Byte = 256
  BY <1>1 DEF Byte
<1>5. n \div (Byte * Byte) = b
  <2>1. n \div 65536 = (n \div 256) \div 256
    OBVIOUS
  <2> QED
    BY <1>1, <1>2, <2>1 DEF Byte
<1>6. n \div (Byte * Byte * Byte) = c
  <2>1. n \div 16777216 = (n \div 65536) \div 256 /\ n \div 65536 = (n \div 256) \div 256
    OBVIOUS
  <2> QED
    BY <1>1, <1>2, <1>3, <2>1 DEF Byte
<1>7. c < 256
  BY <1>4, <1>6
<1>8. n = a * 256 + (n % 256) /\ a = b * 256 + (a % 256) /\ b = c * 256 + (b % 256) /\ c % 256 = c
  BY <1>1, <1>2, <1>3, <1>7
<1>9. (n % 256) \in Nat /\ (a % 256) \in Nat /\ (b % 256) \in Nat
  OBVIOUS
<1> QED
  BY <1>4, <1>5, <1>6, <1>8, <1>9

(* A head, whatever follows it and wherever it is cut.                         *)
HeadIsRead(ints, byts) ==
    LET head == WpkgHead(ints, byts)
    IN  Held(WpkgPrefix(ints, byts)) =>
        /\ \A body \in Strings :
              Held(head \o body) =>
                  DecodeWpkgHead(head \o body) =
                      [ok |-> TRUE, ints |-> ints, byts |-> byts, hlen |-> Len(head)]
        /\ Held(head) => \A k \in 0 .. Len(head) - 1 : ~DecodeWpkgHead(SubSeq(head, 1, k)).ok

(* A head is read, whatever follows it and wherever it is cut.                 *)
LEMMA HeadsAreRead ==
    ASSUME NEW S \in SUBSET HeadFields, NEW T \in SUBSET HeadFields,
           NEW ints \in [S -> Values], NEW byts \in [T -> Strings]
    PROVE  HeadIsRead(ints, byts)
<1> SUFFICES ASSUME Held(WpkgPrefix(ints, byts)) PROVE HeadIsRead(ints, byts)
  BY Zenon DEF HeadIsRead
<1>1. PICK head : head = WpkgHead(ints, byts)
  OBVIOUS
<1>2. head \in Seq(Nat)
  <2>1. PICK I \in Seq(Nat), B \in Seq(Nat), V \in Seq(Nat), n \in 0 .. Limit - 1 : HeadLaid(ints, byts, I, B, V, n)
    BY HeadIs
  <2>2. head = <<1>> \o ((I \o <<0>>) \o ((B \o <<0>>) \o V))
    BY <1>1, <2>1, Zenon DEF HeadLaid
  <2>3. <<1>> \o ((I \o <<0>>) \o ((B \o <<0>>) \o V)) \in Seq(Nat)
    <3>1. Stands(<<>>, 1, <<1>> \o ((I \o <<0>>) \o ((B \o <<0>>) \o V))) /\ <<>> \in Seq(Nat)
      <4>1. <<>> \in Seq(Nat) /\ Len(<<>>) = 0
        OBVIOUS
      <4>2. ASSUME NEW s PROVE Stands(<<>>, 1, s)
        <5>1. \A k \in 1 .. Len(s) : ~(1 + k - 1 <= 0)
          OBVIOUS
        <5> QED
          BY <4>1, <5>1, Zenon DEF Stands
      <4> QED
        BY <4>1, <4>2
    <3> QED
      BY <3>1, HeadStands
  <2> QED
    BY <2>2, <2>3, Zenon
<1>3. PICK m \in Nat : m = Len(head)
  BY <1>2
<1>4. ASSUME NEW body \in Strings, Held(head \o body)
      PROVE  DecodeWpkgHead(head \o body) = [ok |-> TRUE, ints |-> ints, byts |-> byts, hlen |-> Len(head)]
  <2>1. body \in Seq(Nat)
    BY HeadValues
  <2>2. PICK data \in Seq(Nat) : /\ data = head \o body /\ Len(data) = m + Len(body)
                                 /\ \A k \in 1 .. m : data[k] = head[k]
    <3>1. /\ head \o body \in Seq(Nat) /\ Len(head \o body) = Len(head) + Len(body)
          /\ \A k \in 1 .. Len(head) : (head \o body)[k] = head[k]
      BY <1>2, <2>1, Concat
    <3> QED
      BY <1>3, <3>1, Zenon
  <2>3. Len(head) <= Len(data) /\ Held(head) /\ Held(data)
    <3>1. PICK b \in Nat, h \in Nat : b = Len(body) /\ h = Pow2[Word - 1]
      BY <2>1, Halves
    <3>2. Len(data) = m + b /\ m <= m + b /\ (m + b < h => m < h)
      BY <2>2, <3>1
    <3> QED
      BY <1>3, <1>4, <2>2, <3>1, <3>2, Zenon DEF Held
  <2>4. Stands(data, 1, head)
    <3>1. \A k \in 1 .. m : 1 + k - 1 = k
      OBVIOUS
    <3> QED
      BY <1>3, <2>2, <3>1, Zenon DEF Stands
  <2>5. HeadEnds(data, ints, byts, head)
    BY <1>1, <2>3, <2>4, HeadRead, Zenon
  <2> QED
    BY <2>2, <2>3, <2>5, Zenon DEF HeadEnds
<1>5. ASSUME Held(head), NEW k \in 0 .. Len(head) - 1 PROVE ~DecodeWpkgHead(SubSeq(head, 1, k)).ok
  <2>1. k \in 0 .. m /\ k < m /\ k \in Nat
    BY <1>3
  <2>2. PICK data \in Seq(Nat) : /\ data = SubSeq(head, 1, k) /\ Len(data) = k
                                 /\ \A i \in 1 .. k : data[i] = head[i]
    <3>1. /\ SubSeq(head, 1, k) \in Seq(Nat) /\ Len(SubSeq(head, 1, k)) = k
          /\ \A i \in 1 .. k : SubSeq(head, 1, k)[i] = head[i]
      BY <1>2, <1>3, <2>1, Prefix
    <3> QED
      BY <3>1
  <2>3. ~(Len(head) <= Len(data)) /\ Held(data)
    <3>1. PICK h \in Nat : h = Pow2[Word - 1]
      BY Halves
    <3>2. ~(m <= k) /\ (m < h => k < h)
      BY <2>1, <3>1
    <3> QED
      BY <1>3, <1>5, <2>2, <3>1, <3>2, Zenon DEF Held
  <2>4. Stands(data, 1, head)
    <3>1. \A i \in 1 .. m : 1 + i - 1 = i /\ (i <= k => i \in 1 .. k)
      BY <2>1
    <3> QED
      BY <1>3, <2>2, <3>1, Zenon DEF Stands
  <2>5. HeadEnds(data, ints, byts, head)
    BY <1>1, <1>5, <2>3, <2>4, HeadRead, Zenon
  <2> QED
    BY <2>2, <2>3, <2>5, Zenon DEF HeadEnds
<1> QED
  BY <1>1, <1>4, <1>5, Zenon DEF HeadIsRead

FourBytesOf(n) ==
    <<(n \div (Byte * Byte * Byte)) % Byte, (n \div (Byte * Byte)) % Byte, (n \div Byte) % Byte, n % Byte>>

(* The four bytes of a length.                                                 *)
LEMMA FourBytesAre ==
    ASSUME NEW n \in Nat, n \div (Byte * Byte * Byte) < Byte
    PROVE  /\ FourBytesOf(n) \in Seq(Nat) /\ Len(FourBytesOf(n)) = 4
           /\ ((((FourBytesOf(n)[1] * Byte) + FourBytesOf(n)[2]) * Byte + FourBytesOf(n)[3]) * Byte)
              + FourBytesOf(n)[4] = n
<1>1. PICK a \in Nat, b \in Nat, c \in Nat, d \in Nat :
          /\ a = (n \div (Byte * Byte * Byte)) % Byte /\ b = (n \div (Byte * Byte)) % Byte
          /\ c = (n \div Byte) % Byte /\ d = n % Byte
          /\ ((((a * Byte) + b) * Byte + c) * Byte) + d = n
  BY FourBytes
<1>2. FourBytesOf(n) = <<a, b, c, d>>
  BY <1>1, Zenon DEF FourBytesOf
<1>3. <<a, b, c, d>> \in Seq(Nat) /\ Len(<<a, b, c, d>>) = 4
      /\ <<a, b, c, d>>[1] = a /\ <<a, b, c, d>>[2] = b /\ <<a, b, c, d>>[3] = c /\ <<a, b, c, d>>[4] = d
  OBVIOUS
<1> QED
  BY <1>1, <1>2, <1>3, Zenon

PacketParts(data, header, body, n) ==
    /\ Stands(data, 1, FourBytesOf(n)) /\ Stands(data, 5, header) /\ Stands(data, 17, body)

(* A packet that stands at the beginning of data is read, if it came whole.    *)
LEMMA PacketRead ==
    ASSUME NEW header \in Seq(Nat), Len(header) = 12, NEW body \in Seq(Nat),
           NEW n \in Nat, n = 16 + Len(body), n \div (Byte * Byte * Byte) < Byte,
           NEW data \in Seq(Nat), PacketParts(data, header, body, n)
    PROVE  ParseShortlink(data) = IF n <= Len(data)
                                  THEN [ok |-> TRUE, header |-> header, body |-> body] ELSE Error
<1>1. PICK l \in Nat : l = Len(data)
  OBVIOUS
<1>2. n >= 16
  <2>1. PICK b \in Nat : b = Len(body)
    OBVIOUS
  <2> QED
    BY <2>1
<1>3. PICK total : total = ((data[1] * Byte + data[2]) * Byte + data[3]) * Byte + data[4]
  OBVIOUS
<1>4. ParseShortlink(data) = IF l < 16 THEN Error
                             ELSE IF total > l THEN Error
                             ELSE IF total < 16 THEN Panic
                             ELSE [ok |-> TRUE, header |-> SubSeq(data, 5, 16), body |-> SubSeq(data, 17, total)]
  BY <1>1, <1>3, Zenon DEF ParseShortlink
<1>5. CASE l < 16
  <2>1. ~(n <= l)
    BY <1>2, <1>5
  <2> QED
    BY <1>1, <1>4, <1>5, <2>1, Zenon
<1>6. CASE ~(l < 16)
  <2>1. total = n
    <3>1. PICK f : f = FourBytesOf(n) /\ f \in Seq(Nat) /\ Len(f) = 4
                   /\ ((((f[1] * Byte) + f[2]) * Byte + f[3]) * Byte) + f[4] = n
      BY FourBytesAre
    <3>2. \A k \in 1 .. 4 : 1 + k - 1 <= Len(data) => data[1 + k - 1] = f[k]
      BY <3>1, Zenon DEF PacketParts, Stands
    <3>3. data[1] = f[1] /\ data[2] = f[2] /\ data[3] = f[3] /\ data[4] = f[4]
      <4>1. \A k \in 1 .. 4 : 1 + k - 1 = k /\ k <= Len(data)
        BY <1>1, <1>6
      <4>2. 1 \in 1 .. 4 /\ 2 \in 1 .. 4 /\ 3 \in 1 .. 4 /\ 4 \in 1 .. 4
        OBVIOUS
      <4>3. \A k \in 1 .. 4 : data[k] = f[k]
        BY <3>2, <4>1, Zenon
      <4> QED
        BY <4>2, <4>3, Zenon
    <3>4. PICK a, b, c, d : /\ a = f[1] /\ b = f[2] /\ c = f[3] /\ d = f[4]
                            /\ ((((a * Byte) + b) * Byte + c) * Byte) + d = n
      BY <3>1, ZenonT(60)
    <3>5. total = ((((a * Byte) + b) * Byte + c) * Byte) + d
      BY <1>3, <3>3, <3>4, Zenon
    <3> QED
      BY <3>4, <3>5, Zenon
  <2>2. CASE ~(n <= l)
    <3>1. total > l
      BY <2>1, <2>2
    <3> QED
      BY <1>1, <1>4, <1>6, <2>2, <3>1, Zenon
  <2>3. CASE n <= l
    <3>1. ~(total > l) /\ ~(total < 16)
      BY <1>2, <2>1, <2>3
    <3>2. ParseShortlink(data) = [ok |-> TRUE, header |-> SubSeq(data, 5, 16), body |-> SubSeq(data, 17, n)]
      BY <1>4, <1>6, <2>1, <3>1, Zenon
    <3>3. SubSeq(data, 5, 16) = header
      <4>1. 5 \in 1 .. Len(data) + 1 /\ 5 + 12 <= Len(data) + 1 /\ 5 + 12 - 1 = 16
        BY <1>1, <1>6
      <4>2. Stands(data, 5, header) /\ 5 + Len(header) <= Len(data) + 1
        BY <4>1, Zenon DEF PacketParts
      <4>3. SubSeq(data, 5, 5 + Len(header) - 1) = header
        BY <4>1, <4>2, Standing, Zenon
      <4> QED
        BY <4>1, <4>3, Zenon
    <3>4. SubSeq(data, 17, n) = body
      <4>1. PICK b \in Nat : b = Len(body) /\ n = 16 + b
        OBVIOUS
      <4>2. 17 \in 1 .. Len(data) + 1 /\ 17 + b <= Len(data) + 1 /\ 17 + b - 1 = n
        BY <1>1, <1>6, <2>3, <4>1
      <4>3. Stands(data, 17, body) /\ 17 + Len(body) <= Len(data) + 1
        BY <4>1, <4>2, Zenon DEF PacketParts
      <4>4. SubSeq(data, 17, 17 + Len(body) - 1) = body
        BY <4>2, <4>3, Standing, Zenon
      <4> QED
        BY <4>1, <4>2, <4>4, Zenon
    <3> QED
      BY <1>1, <2>3, <3>2, <3>3, <3>4, Zenon
  <2> QED
    BY <2>2, <2>3
<1> QED
  BY <1>5, <1>6

(* A packet and its parts.                                                     *)
LEMMA PacketIs ==
    ASSUME NEW header \in Seq(Nat), Len(header) = 12, NEW body \in Seq(Nat),
           NEW n \in Nat, n = 16 + Len(body), n \div (Byte * Byte * Byte) < Byte
    PROVE  /\ BuildShortlink(header, body) \in Seq(Nat) /\ Len(BuildShortlink(header, body)) = n
           /\ \A data \in Seq(Nat) : Stands(data, 1, BuildShortlink(header, body))
                                        => PacketParts(data, header, body, n)
<1>1. PICK f \in Seq(Nat) : f = FourBytesOf(n) /\ Len(f) = 4
  BY FourBytesAre, Zenon
<1>2. BuildShortlink(header, body) = (f \o header) \o body
  BY <1>1, Zenon DEF BuildShortlink, FourBytesOf
<1>3. PICK s \in Seq(Nat) : s = f \o header /\ Len(s) = 16
  <2>1. f \o header \in Seq(Nat) /\ Len(f \o header) = Len(f) + Len(header)
    BY Concat, ZenonT(60)
  <2>2. 4 + 12 = 16
    OBVIOUS
  <2> QED
    BY <1>1, <2>1, <2>2, Zenon
<1>4. s \o body \in Seq(Nat) /\ Len(s \o body) = Len(s) + Len(body)
  BY Concat
<1>5. ASSUME NEW data \in Seq(Nat), Stands(data, 1, s \o body) PROVE PacketParts(data, header, body, n)
  <2>0. 1 + 16 = 17 /\ 1 + 4 = 5 /\ 1 \in Nat
    OBVIOUS
  <2>1. Stands(data, 1, s) /\ Stands(data, 1 + Len(s), body)
    BY <1>5, <2>0, StandsConcat, Zenon
  <2>2. Stands(data, 1, f \o header)
    BY <1>3, <2>1, Zenon
  <2>3. Stands(data, 1, f) /\ Stands(data, 1 + Len(f), header)
    BY <2>0, <2>2, StandsConcat, Zenon
  <2> QED
    BY <1>1, <1>3, <2>0, <2>1, <2>3, Zenon DEF PacketParts
<1> QED
  BY <1>2, <1>3, <1>4, <1>5, Zenon

PacketIsRead(header, body) ==
    LET pkt == BuildShortlink(header, body)
    IN  Len(pkt) \div (Byte * Byte * Byte) < Byte =>
        /\ \A after \in Strings :
              ParseShortlink(pkt \o after) = [ok |-> TRUE, header |-> header, body |-> body]
        /\ \A k \in 0 .. Len(pkt) - 1 : ParseShortlink(SubSeq(pkt, 1, k)) = Error

(* The length of a packet.                                                     *)
LEMMA PacketLength ==
    ASSUME NEW header \in Seq(Nat), Len(header) = 12, NEW body \in Seq(Nat)
    PROVE  Len(BuildShortlink(header, body)) = 16 + Len(body)
<1>1. PICK n : n = 16 + Len(body)
  OBVIOUS
<1>2. PICK f : f = FourBytesOf(n) /\ f \in Seq(Int) /\ Len(f) = 4
  <2>1. n \in Nat /\ Byte \in Nat \ {0}
    BY <1>1, Bytes256
  <2>2. \A x \in Int : x % Byte \in Int
    BY <2>1
  <2>3. /\ n \div (Byte * Byte * Byte) \in Int /\ n \div (Byte * Byte) \in Int /\ n \div Byte \in Int
    BY <2>1 DEF Byte
  <2>ints. /\ (n \div (Byte * Byte * Byte)) % Byte \in Int /\ (n \div (Byte * Byte)) % Byte \in Int
           /\ (n \div Byte) % Byte \in Int /\ n % Byte \in Int
    <3>1. n \in Int
      BY <2>1
    <3> QED
      BY <2>2, <2>3, <3>1, Zenon
  <2>4. PICK a \in Int, b \in Int, c \in Int, d \in Int :
            /\ a = (n \div (Byte * Byte * Byte)) % Byte /\ b = (n \div (Byte * Byte)) % Byte
            /\ c = (n \div Byte) % Byte /\ d = n % Byte
    BY <2>ints, Zenon
  <2>5. <<a, b, c, d>> \in Seq(Int) /\ Len(<<a, b, c, d>>) = 4
    OBVIOUS
  <2> QED
    BY <2>4, <2>5, Zenon DEF FourBytesOf
<1>3. header \in Seq(Int) /\ body \in Seq(Int)
  OBVIOUS
<1>4. f \o header \in Seq(Int) /\ Len(f \o header) = Len(f) + Len(header)
  BY <1>2, <1>3, Concat, ZenonT(60)
<1>5. Len((f \o header) \o body) = Len(f \o header) + Len(body)
  BY <1>3, <1>4, Concat, ZenonT(60)
<1>6. BuildShortlink(header, body) = (f \o header) \o body
  BY <1>1, <1>2, Zenon DEF BuildShortlink, FourBytesOf
<1>7. 4 + 12 = 16
  OBVIOUS
<1> QED
  BY <1>2, <1>4, <1>5, <1>6, <1>7, Zenon

(* A packet, whatever follows it and wherever it is cut.                       *)
LEMMA PacketIsWhole ==
    ASSUME NEW header \in Seq(Nat), Len(header) = 12, NEW body \in Seq(Nat)
    PROVE  PacketIsRead(header, body)
<1>1. PICK n \in Nat : n = 16 + Len(body)
  OBVIOUS
<1>2. PICK pkt : pkt = BuildShortlink(header, body)
  OBVIOUS
<1>3. Len(pkt) = n
  BY <1>1, <1>2, PacketLength, Zenon
<1> SUFFICES ASSUME n \div (Byte * Byte * Byte) < Byte PROVE PacketIsRead(header, body)
  BY <1>2, <1>3, Zenon DEF PacketIsRead
<1>5. pkt \in Seq(Nat) /\ \A data \in Seq(Nat) : Stands(data, 1, pkt) => PacketParts(data, header, body, n)
  <2>1. /\ BuildShortlink(header, body) \in Seq(Nat)
        /\ \A data \in Seq(Nat) : Stands(data, 1, BuildShortlink(header, body))
                                     => PacketParts(data, header, body, n)
    BY <1>1, PacketIs
  <2> QED
    BY <1>2, <2>1, Zenon
<1>6. ASSUME NEW data \in Seq(Nat), Stands(data, 1, pkt)
      PROVE  ParseShortlink(data) = IF n <= Len(data)
                                    THEN [ok |-> TRUE, header |-> header, body |-> body] ELSE Error
  <2>1. PacketParts(data, header, body, n)
    BY <1>5, <1>6, Zenon
  <2> QED
    BY <1>1, <2>1, PacketRead
<1>7. ASSUME NEW after \in Strings
      PROVE  ParseShortlink(pkt \o after) = [ok |-> TRUE, header |-> header, body |-> body]
  <2>1. after \in Seq(Nat)
    BY HeadValues, Zenon
  <2>2. PICK data \in Seq(Nat) : /\ data = pkt \o after /\ Len(data) = n + Len(after)
                                 /\ \A k \in 1 .. n : data[k] = pkt[k]
    <3>1. /\ pkt \o after \in Seq(Nat) /\ Len(pkt \o after) = Len(pkt) + Len(after)
          /\ \A k \in 1 .. Len(pkt) : (pkt \o after)[k] = pkt[k]
      BY <1>5, <2>1, Concat
    <3> QED
      BY <1>3, <3>1, Zenon
  <2>3. n <= Len(data)
    <3>1. PICK a \in Nat : a = Len(after)
      BY <2>1
    <3> QED
      BY <2>2, <3>1
  <2>4. Stands(data, 1, pkt)
    <3>1. \A k \in 1 .. n : 1 + k - 1 = k
      OBVIOUS
    <3> QED
      BY <1>3, <2>2, <3>1, Zenon DEF Stands
  <2>5. ParseShortlink(data) = IF n <= Len(data)
                               THEN [ok |-> TRUE, header |-> header, body |-> body] ELSE Error
    BY <1>6, <2>4
  <2> QED
    BY <2>2, <2>3, <2>5, Zenon
<1>8. ASSUME NEW k \in 0 .. Len(pkt) - 1 PROVE ParseShortlink(SubSeq(pkt, 1, k)) = Error
  <2>1. k \in 0 .. n /\ k < n /\ k \in Nat /\ ~(n <= k)
    BY <1>3
  <2>2. PICK data \in Seq(Nat) : /\ data = SubSeq(pkt, 1, k) /\ Len(data) = k
                                 /\ \A i \in 1 .. k : data[i] = pkt[i]
    <3>1. k \in 0 .. Len(pkt)
      BY <1>3, <2>1, Zenon
    <3>2. /\ SubSeq(pkt, 1, k) \in Seq(Nat) /\ Len(SubSeq(pkt, 1, k)) = k
          /\ \A i \in 1 .. k : SubSeq(pkt, 1, k)[i] = pkt[i]
      BY <1>5, <3>1, Prefix
    <3> QED
      BY <3>2
  <2>3. Stands(data, 1, pkt)
    <3>1. \A i \in 1 .. n : 1 + i - 1 = i /\ (i <= k => i \in 1 .. k)
      BY <2>1
    <3> QED
      BY <1>3, <2>2, <3>1, Zenon DEF Stands
  <2>4. ParseShortlink(data) = IF n <= Len(data)
                               THEN [ok |-> TRUE, header |-> header, body |-> body] ELSE Error
    BY <1>6, <2>3
  <2> QED
    BY <2>1, <2>2, <2>4, Zenon
<1> QED
  BY <1>2, <1>7, <1>8, Zenon DEF PacketIsRead

(* Every head and every packet is read back, and none that is cut.             *)
LEMMA PacketsRead == CodecsInit => PacketsAreRead
<1> SUFFICES ASSUME CodecsInit PROVE PacketsAreRead
  OBVIOUS
<1>1. ASSUME input.kind = "head" PROVE HeadIsRead(input.ints, input.byts)
  <2>1. input \in [kind : {"head"}, ints : Maps(HeadFields, Values), byts : Maps(HeadFields, Strings)]
    BY <1>1 DEF CodecsInit
  <2>2. input.ints \in Maps(HeadFields, Values) /\ input.byts \in Maps(HeadFields, Strings)
    BY <2>1
  <2>3. PICK S \in SUBSET HeadFields : input.ints \in [S -> Values]
    BY <2>2 DEF Maps
  <2>4. PICK T \in SUBSET HeadFields : input.byts \in [T -> Strings]
    BY <2>2 DEF Maps
  <2> QED
    BY <2>3, <2>4, HeadsAreRead, Zenon
<1>2. ASSUME input.kind = "packet" PROVE PacketIsRead(input.header, input.body)
  <2>1. input \in [kind : {"packet"}, header : Headers, body : Strings]
    BY <1>2 DEF CodecsInit
  <2>2. input.header \in Headers /\ input.body \in Strings
    BY <2>1
  <2>3. input.header \in Seq(Nat) /\ Len(input.header) = 12 /\ input.body \in Seq(Nat)
    BY <2>2, InputsAssumption
  <2> QED
    BY <2>3, PacketIsWhole, Zenon
<1> QED
  BY <1>1, <1>2, Zenon DEF PacketsAreRead, HeadIsRead, PacketIsRead

--------------------------------------------------------------------------------
(* Every number is read back from wherever it stands, and a message that is    *)
(* cut anywhere has the fields that came whole, each with its last value: the  *)
(* varints and the messages of bytes.go.                                       *)
THEOREM EveryMessageIsRead == CodecsSpec => []MessagesAreRead
<1>1. MessagesAreRead /\ UNCHANGED input => MessagesAreRead'
  BY DEF MessagesAreRead
<1> QED
  BY <1>1, MessagesRead, PTL DEF CodecsSpec

(* What follows a head or a packet begins where its reader says, and nothing   *)
(* of one that is cut is taken for it: wpkgHead and decodeWpkgHead of          *)
(* ilink.go, and the shortlink packet of mmtls_protocol.go.                    *)
THEOREM EveryPacketIsRead == CodecsSpec => []PacketsAreRead
<1>1. PacketsAreRead /\ UNCHANGED input => PacketsAreRead'
  BY DEF PacketsAreRead
<1> QED
  BY <1>1, PacketsRead, PTL DEF CodecsSpec

(* lz4Decompress writes what the format says, at every length and offset of a  *)
(* match, and gives back what lz4AllLiteral packed (bytes.go).                 *)
THEOREM EveryLz4IsExact == CodecsSpec => []Lz4IsExact
<1>1. Lz4IsExact /\ UNCHANGED input => Lz4IsExact'
  BY DEF Lz4IsExact
<1> QED
  BY <1>1, Lz4Exact, PTL DEF CodecsSpec
================================================================================
