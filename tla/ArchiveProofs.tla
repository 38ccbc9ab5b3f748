---------------------------- MODULE ArchiveProofs ----------------------------
(***************************************************************************)
(* Proofs about the single-file archive, for every geometry, every set of  *)
(* metadata and payloads and every number of commits whose file the        *)
(* numbers of the format can address.                                      *)
(*                                                                         *)
(* A file is followed as what it holds at which offset.  What stdio was    *)
(* given holds each committed block where the directory kept in memory     *)
(* says; a run that ends leaves some prefix of that, or all of it with the *)
(* first cells of the directory over the zeros reserved for it.  A reader  *)
(* of such a file sees, for each block, an offset that was written whole,  *)
(* or the size zero that means no block: the size of an entry lies behind  *)
(* its offset.                                                             *)
(***************************************************************************)
EXTENDS SingleFileArchive, OperatorLemmas

-----------------------------------------------------------------------------
(* What a file holds *)

\* f holds the sequence s from offset o on.
Holds(f, o, s) == o + Len(s) <= Len(f) /\ \A k \in 1 .. Len(s) : f[o + k] = s[k]

\* Two sequences one after the other.
LEMMA HoldsBoth ==
  ASSUME NEW S, NEW f \in Seq(S), NEW o \in Nat, NEW a \in Seq(S), NEW b \in Seq(S)
  PROVE  Holds(f, o, a \o b) <=> Holds(f, o, a) /\ Holds(f, o + Len(a), b)
<1> DEFINE c == a \o b
<1>1. PICK m, n, l : m = Len(a) /\ n = Len(b) /\ l = Len(f)
  OBVIOUS
<1>2. m \in Nat /\ n \in Nat /\ l \in Nat
  BY <1>1, LenProperties
<1>3. /\ Len(c) = m + n
      /\ \A i \in 1 .. m + n : c[i] = IF i <= m THEN a[i] ELSE b[i - m]
  BY <1>1, ConcatProperties
<1> HIDE DEF c
<1>4. ASSUME Holds(f, o, c) PROVE Holds(f, o, a)
  <2>1. o + (m + n) <= l /\ \A k \in 1 .. m + n : f[o + k] = c[k]
    BY <1>1, <1>3, <1>4 DEF Holds
  <2>2. o + m <= l
    BY <1>2, <2>1
  <2>3. ASSUME NEW k \in 1 .. m PROVE f[o + k] = a[k]
    <3>1. k \in 1 .. m + n /\ k <= m
      BY <1>2
    <3> QED BY <1>3, <2>1, <3>1
  <2> QED BY <1>1, <2>2, <2>3 DEF Holds
<1>5. ASSUME Holds(f, o, c) PROVE Holds(f, o + m, b)
  <2>1. o + (m + n) <= l /\ \A k \in 1 .. m + n : f[o + k] = c[k]
    BY <1>1, <1>3, <1>5 DEF Holds
  <2>2. (o + m) + n <= l
    BY <1>2, <2>1
  <2>3. ASSUME NEW k \in 1 .. n PROVE f[(o + m) + k] = b[k]
    <3>1. m + k \in 1 .. m + n /\ ~(m + k <= m) /\ (m + k) - m = k /\ (o + m) + k = o + (m + k)
      BY <1>2
    <3> QED BY <1>3, <2>1, <3>1
  <2> QED BY <1>1, <2>2, <2>3 DEF Holds
<1>6. ASSUME Holds(f, o, a), Holds(f, o + m, b) PROVE Holds(f, o, c)
  <2>1. \A k \in 1 .. m : f[o + k] = a[k]
    BY <1>1, <1>6 DEF Holds
  <2>2. (o + m) + n <= l /\ \A k \in 1 .. n : f[(o + m) + k] = b[k]
    BY <1>1, <1>6 DEF Holds
  <2>3. o + (m + n) <= l
    BY <1>2, <2>2
  <2>4. ASSUME NEW k \in 1 .. m + n PROVE f[o + k] = c[k]
    <3>1. CASE k <= m
      <4>1. k \in 1 .. m
        BY <1>2, <3>1
      <4> QED BY <1>3, <2>1, <3>1, <4>1
    <3>2. CASE ~(k <= m)
      <4>1. k - m \in 1 .. n /\ (o + m) + (k - m) = o + k
        BY <1>2, <3>2
      <4> QED BY <1>3, <2>2, <3>2, <4>1
    <3> QED BY <3>1, <3>2
  <2> QED BY <1>1, <1>3, <2>3, <2>4 DEF Holds
<1> QED BY <1>1, <1>4, <1>5, <1>6 DEF c

\* What is held can be read, and reads back.
LEMMA ReadsBack ==
  ASSUME NEW S, NEW f \in Seq(S), NEW o \in Nat, NEW s \in Seq(S), Holds(f, o, s)
  PROVE  CanRead(f, o, Len(s)) /\ ReadAt(f, o, Len(s)) = s
<1>1. PICK n, l : n = Len(s) /\ l = Len(f)
  OBVIOUS
<1>2. n \in Nat /\ l \in Nat
  BY <1>1, LenProperties
<1>3. o + n <= l /\ \A k \in 1 .. n : f[o + k] = s[k]
  BY <1>1 DEF Holds
<1>4. CanRead(f, o, n)
  BY <1>1, <1>3 DEF CanRead
<1>5. PICK r : r = SubSeq(f, o + 1, o + n)
  OBVIOUS
<1>6. \A i \in o + 1 .. o + n : f[i] \in S
  <2>1. ASSUME NEW i \in o + 1 .. o + n PROVE i \in 1 .. Len(f)
    BY <1>1, <1>2, <1>3
  <2> QED BY <2>1, ElementOfSeq
<1>7. /\ r \in Seq(S) /\ Len(r) = IF o + 1 <= o + n THEN (o + n) - (o + 1) + 1 ELSE 0
      /\ \A i \in 1 .. (o + n) - (o + 1) + 1 : r[i] = f[(o + 1) + i - 1]
  <2>1. o + 1 \in Int /\ o + n \in Int
    BY <1>2
  <2> QED BY <1>5, <1>6, <2>1, SubSeqProperties
<1>8. Len(r) = n
  BY <1>2, <1>7
<1>9. ASSUME NEW i \in 1 .. Len(r) PROVE r[i] = s[i]
  <2>1. i \in 1 .. (o + n) - (o + 1) + 1 /\ (o + 1) + i - 1 = o + i /\ i \in 1 .. n
    BY <1>2, <1>8
  <2> QED BY <1>3, <1>7, <2>1
<1>10. r = s
  BY <1>1, <1>7, <1>8, <1>9, SeqEqual
<1> QED BY <1>1, <1>4, <1>5, <1>10 DEF ReadAt

\* The parts of a sequence put together lie one after the other.
PartsHeld(f, o, n, g) ==
  \A k \in 1 .. n : Holds(f, o + Len(FlattenSeq(Prefix(g, k - 1))), g[k])

\* What holds a concatenation holds each of its parts, behind those before it.
LEMMA PartsHold ==
  ASSUME NEW S, NEW f \in Seq(S), NEW o \in Nat, NEW n \in Nat,
         NEW g, \A i \in 1 .. n : g[i] \in Seq(S), Holds(f, o, FlattenSeq(Prefix(g, n)))
  PROVE  PartsHeld(f, o, n, g)
<1> DEFINE F(k) == FlattenSeq(Prefix(g, k))
           Good(m) == Holds(f, o, F(m))
           N == {j \in Nat : j <= n => Good(n - j)}
<1>1. /\ F(0) = <<>>
      /\ \A k \in 0 .. n : F(k) \in Seq(S)
      /\ \A k \in 0 .. n - 1 : F(k + 1) = F(k) \o g[k + 1]
  <2>1. Grows(S, n, g)
    BY FlattenPrefix, Zenon
  <2> QED BY <2>1, Zenon DEF Grows
<1>2. Holds(f, o, F(n))
  OBVIOUS
<1> HIDE DEF F
<1>3. ASSUME NEW k \in 1 .. n
      PROVE  Good(k) <=> Good(k - 1) /\ Holds(f, o + Len(F(k - 1)), g[k])
  <2>1. k - 1 \in 0 .. n - 1 /\ k - 1 \in 0 .. n /\ (k - 1) + 1 = k
    OBVIOUS
  <2>2. F(k) = F(k - 1) \o g[k] /\ F(k - 1) \in Seq(S) /\ g[k] \in Seq(S)
    BY <1>1, <2>1
  <2> QED BY <2>2, HoldsBoth
<1>4. 0 \in N
  BY <1>2
<1>5. ASSUME NEW j \in Nat, j \in N PROVE j + 1 \in N
  <2> SUFFICES ASSUME j + 1 <= n PROVE Good(n - (j + 1))
    OBVIOUS
  <2>1. n - j \in 1 .. n /\ (n - j) - 1 = n - (j + 1) /\ j <= n
    OBVIOUS
  <2>2. Good(n - j)
    BY <1>5, <2>1
  <2> QED BY <1>3, <2>1, <2>2
<1> HIDE DEF N
<1>6. Nat \subseteq N
  BY <1>4, <1>5, SetInduction, Zenon
<1>7. ASSUME NEW k \in 1 .. n PROVE Holds(f, o + Len(F(k - 1)), g[k])
  <2>1. n - k \in Nat /\ n - k <= n /\ n - (n - k) = k
    OBVIOUS
  <2>2. Good(k)
    <3>1. n - k \in N
      BY <1>6, <2>1
    <3> QED BY <2>1, <3>1 DEF N
  <2> QED BY <1>3, <2>2
<1> QED BY <1>7 DEF PartsHeld, F

\* The length of the parts before each, as the layout adds it up.
LEMMA LengthBefore ==
  ASSUME NEW S, NEW n \in Nat, NEW g, \A i \in 1 .. n : g[i] \in Seq(S),
         NEW k \in 0 .. n
  PROVE  /\ Len(FlattenSeq(Prefix(g, k))) = SumFunction(SubSeq([i \in 1 .. n |-> Len(g[i])], 1, k))
         /\ Len(FlattenSeq(Prefix(g, k))) \in Nat
<1> DEFINE w == [i \in 1 .. n |-> Len(g[i])]
<1>1. \A i \in 1 .. n : w[i] \in Nat /\ w[i] = Len(g[i])
  BY LenProperties
<1>2. PutTogether(S, k, g, FlattenSeq([i \in 1 .. k |-> g[i]]))
  <2>1. k \in Nat /\ \A i \in 1 .. k : g[i] \in Seq(S)
    OBVIOUS
  <2> QED BY <2>1, FlattenGathers, Zenon
<1>3. PICK s : s = FlattenSeq(Prefix(g, k))
  OBVIOUS
<1>4. s \in Seq(S) /\ Len(s) = SumFunctionOnSet([i \in 1 .. k |-> Len(g[i])], 1 .. k)
  BY <1>2, <1>3 DEF PutTogether, Prefix
<1>5. Len(s) \in Nat
  BY <1>4, LenProperties
<1>6. PICK u : u = SubSeq(w, 1, k)
  OBVIOUS
<1>7. u \in Seq(Nat) /\ Len(u) = k /\ \A i \in 1 .. k : u[i] = w[i]
  <2>1. \A i \in 1 .. k : w[i] \in Nat
    BY <1>1
  <2> HIDE DEF w
  <2>2. 1 \in Int /\ k \in Int
    OBVIOUS
  <2>3. /\ u \in Seq(Nat) /\ Len(u) = IF 1 <= k THEN k - 1 + 1 ELSE 0
        /\ \A i \in 1 .. k - 1 + 1 : u[i] = w[1 + i - 1]
    BY <1>6, <2>1, <2>2, SubSeqProperties
  <2>4. k - 1 + 1 = k /\ \A i \in 1 .. k : 1 + i - 1 = i
    OBVIOUS
  <2>5. Len(u) = k
    BY <2>3
  <2> QED BY <2>3, <2>4, <2>5
<1>8. DOMAIN u = 1 .. k
  BY <1>7, LenProperties
<1>9. SumFunction(u) = SumFunctionOnSet(u, 1 .. k)
  BY <1>8 DEF SumFunction
<1>10. SumFunctionOnSet([i \in 1 .. k |-> Len(g[i])], 1 .. k) = SumFunctionOnSet(u, 1 .. k)
  <2>1. IsFiniteSet(1 .. k)
    <3>1. 1 \in Int /\ k \in Int
      OBVIOUS
    <3> QED BY <3>1, FS_Interval
  <2>2. ASSUME NEW i \in 1 .. k PROVE u[i] \in Int /\ [j \in 1 .. k |-> Len(g[j])][i] = u[i]
    <3>1. i \in 1 .. n
      OBVIOUS
    <3>2. w[i] \in Nat /\ w[i] = Len(g[i]) /\ u[i] = w[i]
      BY <1>1, <1>7, <3>1
    <3>3. [j \in 1 .. k |-> Len(g[j])][i] = Len(g[i])
      OBVIOUS
    <3> HIDE DEF w
    <3> QED BY <3>2, <3>3
  <2> QED BY <2>1, <2>2, SumAlike
<1> QED BY <1>3, <1>4, <1>5, <1>6, <1>9, <1>10

-----------------------------------------------------------------------------
(* Numbers *)

\* The sizes of the format are natural numbers, and none of them is zero.
LEMMA Geometry ==
  /\ Base \in Nat \ {0, 1} /\ Base \in Nat \ {0} /\ Width \in Nat \ {0} /\ Width \in Nat
  /\ HeaderCells \in Nat \ {0} /\ HeaderCells \in Nat
  /\ NumBlocks \in Nat \ {0} /\ NumBlocks \in Nat /\ MaxCommits \in Nat
  /\ DirectoryCells \in Nat \ {0} /\ DirectoryCells \in Nat
  /\ PayloadOffset \in Nat \ {0} /\ PayloadOffset \in Nat
<1>1. PICK b, n, w, h : b = Base /\ n = NumBlocks /\ w = Width /\ h = HeaderCells
  OBVIOUS
<1>2. b \in Nat \ {0, 1} /\ n \in Nat \ {0} /\ w \in Nat \ {0} /\ h \in Nat \ {0} /\ MaxCommits \in Nat
  BY <1>1, GeometryAssumption
<1>3. 2 * n * w \in Nat \ {0}
  BY <1>2
<1>4. h + 2 * n * w \in Nat \ {0}
  BY <1>2, <1>3
<1> QED BY <1>1, <1>2, <1>3, <1>4 DEF DirectoryCells, PayloadOffset

\* Cells hold natural numbers.
LEMMA NumberCells ==
  ASSUME NEW n \in Int
  PROVE  Number(n) \in Seq(Nat) /\ Len(Number(n)) = Width
<1>1. PICK b, w : b = Base /\ w = Width
  OBVIOUS
<1>2. b \in Nat \ {0} /\ w \in Nat
  BY <1>1, Geometry
<1>3. ASSUME NEW k \in 1 .. w PROVE (n \div Power(b, k - 1)) % b \in Nat
  <2>1. k - 1 \in Nat
    BY <1>2
  <2>2. Power(b, k - 1) \in Nat \ {0}
    BY <1>2, <2>1, PowerPositive
  <2>3. n \div Power(b, k - 1) \in Int
    BY <2>2, DivMod
  <2>4. PICK q : q = n \div Power(b, k - 1)
    OBVIOUS
  <2>5. q % b \in Nat
    BY <1>2, <2>3, <2>4
  <2> QED BY <2>4, <2>5
<1>4. Number(n) = [k \in 1 .. w |-> (n \div Power(b, k - 1)) % b]
  BY <1>1 DEF Number
<1>5. Number(n) \in [1 .. w -> Nat]
  BY <1>3, <1>4
<1>6. Number(n) \in Seq(Nat)
  BY <1>2, <1>5, SeqDef
<1>7. DOMAIN Number(n) = 1 .. w
  BY <1>5
<1> QED BY <1>1, <1>2, <1>6, <1>7

\* sfa_get() gives back what sfa_put() was given, if it fits.
LEMMA ValueOfNumber ==
  ASSUME NEW n \in Nat, n < Power(Base, Width)
  PROVE  Value(Number(n)) = n
<1>1. PICK b, w : b = Base /\ w = Width
  OBVIOUS
<1>2. b \in Nat \ {0} /\ w \in Nat
  BY <1>1, Geometry
<1> DEFINE e == [j \in 0 .. w - 1 |-> j + 1]
           v == [k \in 1 .. w |-> Number(n)[k] * Power(b, k - 1)]
<1>3. \A j \in 0 .. w - 1 : e[j] \in 1 .. w /\ e[j] = j + 1
  BY <1>2
<1>4. Digits(b, n, w, 1 .. w, e, v)
  <2>1. \A j \in 0 .. w - 1 : e[j] \in 1 .. w
    BY <1>3
  <2>2. ASSUME NEW i \in 1 .. w PROVE \E j \in 0 .. w - 1 : i = e[j]
    <3>1. i - 1 \in 0 .. w - 1 /\ (i - 1) + 1 = i
      BY <1>2
    <3> QED BY <1>3, <3>1
  <2>3. ASSUME NEW j \in 0 .. w - 1, NEW k \in 0 .. w - 1, e[j] = e[k] PROVE j = k
    <3>1. j + 1 = k + 1
      BY <1>3, <2>3
    <3> QED BY <3>1
  <2>4. ASSUME NEW j \in 0 .. w - 1
        PROVE  v[e[j]] = ((n \div Power(b, j)) % b) * Power(b, j)
    <3>1. e[j] \in 1 .. w /\ e[j] = j + 1 /\ e[j] - 1 = j
      BY <1>3
    <3>2. Number(n)[e[j]] = (n \div Power(b, e[j] - 1)) % b
      BY <1>1, <3>1 DEF Number
    <3>3. v[e[j]] = Number(n)[e[j]] * Power(b, e[j] - 1)
      BY <3>1
    <3> HIDE DEF v, e
    <3> QED BY <3>1, <3>2, <3>3
  <2> HIDE DEF v, e
  <2> QED BY <2>1, <2>2, <2>3, <2>4 DEF Digits
<1>5. DOMAIN v = 1 .. w
  OBVIOUS
<1>6. Value(Number(n)) = SumFunctionOnSet(v, 1 .. w)
  BY <1>1, <1>5 DEF Value, SumFunction
<1> HIDE DEF v, e
<1>7. SumFunctionOnSet(v, 1 .. w) = n % Power(b, w)
  BY <1>2, <1>4, DigitsAddUp
<1>8. Power(b, w) \in Nat \ {0}
  BY <1>2, PowerPositive
<1>9. n % Power(b, w) = n
  <2>1. PICK p : p = Power(b, w)
    OBVIOUS
  <2>2. p \in Nat \ {0} /\ n < p
    BY <1>1, <1>8, <2>1
  <2>3. n % p = n
    BY <2>2
  <2> QED BY <2>1, <2>3
<1> QED BY <1>6, <1>7, <1>9

\* A number of nothing but zeros.
LEMMA ValueOfZeros ==
  ASSUME NEW s, \A k \in 1 .. Width : s[k] = 0
  PROVE  Value(s) = 0
<1>1. PICK b, w : b = Base /\ w = Width
  OBVIOUS
<1>2. b \in Nat \ {0} /\ w \in Nat
  BY <1>1, Geometry
<1> DEFINE v == [k \in 1 .. w |-> s[k] * Power(b, k - 1)]
<1>3. ASSUME NEW k \in 1 .. w PROVE v[k] = 0
  <2>1. k - 1 \in Nat
    BY <1>2
  <2>2. Power(b, k - 1) \in Nat
    BY <1>2, <2>1, PowerPositive
  <2>3. v[k] = 0 * Power(b, k - 1)
    BY <1>1
  <2> HIDE DEF v
  <2> QED BY <2>2, <2>3
<1>4. Value(s) = SumFunctionOnSet(v, 1 .. w)
  <2>1. DOMAIN v = 1 .. w
    OBVIOUS
  <2> QED BY <1>1, <2>1 DEF Value, SumFunction
<1> HIDE DEF v
<1>5. IsFiniteSet(1 .. w) /\ Cardinality(1 .. w) \in Nat
  <2>1. 1 \in Int /\ w \in Int
    BY <1>2
  <2>2. IsFiniteSet(1 .. w)
    BY <2>1, FS_Interval
  <2> QED BY <2>2, FS_CardinalityType
<1>6. SumFunctionOnSet(v, 1 .. w) = Cardinality(1 .. w) * 0
  <2>1. 0 \in Nat
    OBVIOUS
  <2> QED BY <1>3, <1>5, <2>1, SumConstant
<1> QED BY <1>4, <1>5, <1>6

\* A number where f holds it.
LEMMA NumberHeld ==
  ASSUME NEW f \in Seq(Nat), NEW o \in Nat, NEW n \in Nat, n < Power(Base, Width),
         Holds(f, o, Number(n))
  PROVE  NumberAt(f, o) = n
<1>1. Number(n) \in Seq(Nat) /\ Len(Number(n)) = Width
  BY NumberCells
<1>2. ReadAt(f, o, Width) = Number(n)
  BY <1>1, ReadsBack
<1> QED BY <1>2, ValueOfNumber DEF NumberAt

\* Zeros where f has zeros.
LEMMA ZerosHeld ==
  ASSUME NEW f \in Seq(Nat), NEW o \in Nat, o + Width <= Len(f),
         \A k \in 1 .. Width : f[o + k] = 0
  PROVE  NumberAt(f, o) = 0
<1>1. PICK w, l : w = Width /\ l = Len(f)
  OBVIOUS
<1>2. w \in Nat /\ l \in Nat
  BY <1>1, Geometry, LenProperties
<1>3. PICK r : r = SubSeq(f, o + 1, o + w)
  OBVIOUS
<1>4. ASSUME NEW i \in o + 1 .. o + w PROVE f[i] \in Nat
  <2>1. i \in 1 .. Len(f)
    BY <1>1, <1>2
  <2> QED BY <2>1, ElementOfSeq
<1>5. \A i \in 1 .. (o + w) - (o + 1) + 1 : r[i] = f[(o + 1) + i - 1]
  <2>1. o + 1 \in Int /\ o + w \in Int
    BY <1>2
  <2> QED BY <1>3, <1>4, <2>1, SubSeqProperties
<1>6. ASSUME NEW k \in 1 .. w PROVE r[k] = 0
  <2>1. k \in 1 .. (o + w) - (o + 1) + 1 /\ (o + 1) + k - 1 = o + k
    BY <1>2
  <2> QED BY <1>1, <1>5, <2>1
<1>7. Value(r) = 0
  BY <1>1, <1>6, ValueOfZeros
<1> QED BY <1>1, <1>3, <1>7 DEF NumberAt, ReadAt

-----------------------------------------------------------------------------
(* Lists of numbers, and the numbers of a block *)

\* A sequence of numbers, number by number and cell by cell.
NumbersAre(ns, c) ==
  /\ c \in Seq(Nat) /\ Len(c) = Len(ns) * Width
  /\ \A j \in 1 .. Len(ns), k \in 1 .. Width : c[(j - 1) * Width + k] = Number(ns[j])[k]

\* Numbers() puts one number after the other.
LEMMA NumbersInCells ==
  ASSUME NEW ns \in Seq(Nat)
  PROVE  NumbersAre(ns, Numbers(ns))
<1>1. PICK n, w : n = Len(ns) /\ w = Width
  OBVIOUS
<1>2. n \in Nat /\ w \in Nat /\ DOMAIN ns = 1 .. n
  BY <1>1, Geometry, LenProperties
<1> DEFINE g == [k \in 1 .. n |-> Number(ns[k])]
<1>3. ASSUME NEW i \in 1 .. n PROVE g[i] \in Seq(Nat) /\ Len(g[i]) = w /\ g[i] = Number(ns[i])
  <2>1. ns[i] \in Nat
    BY <1>1, ElementOfSeq
  <2>2. g[i] = Number(ns[i])
    OBVIOUS
  <2>3. ns[i] \in Int
    BY <2>1
  <2>4. Number(ns[i]) \in Seq(Nat) /\ Len(Number(ns[i])) = Width
    BY <2>3, NumberCells
  <2> HIDE DEF g
  <2> QED BY <1>1, <2>2, <2>4
<1>4. g \in [1 .. n -> {s \in Seq(Nat) : Len(s) = w}]
  BY <1>3
<1>5. Numbers(ns) = FlattenSeq(g)
  BY <1>2 DEF Numbers
<1>6. FlattenSeq(g) = FlattenSeq([j \in 1 .. n |-> g[j]])
  OBVIOUS
<1> HIDE DEF g
<1>7. AtMultiples(n, w, g)
  <2>1. \A i \in 1 .. n : g[i] \in Seq(Nat) /\ Len(g[i]) = w
    BY <1>3
  <2> QED BY <1>2, <2>1, FlattenAt
<1>8. FlattenSeq(g) \in Seq(Nat) /\ Len(FlattenSeq(g)) = n * w
  <2>1. PutTogether(Nat, n, g, FlattenSeq([j \in 1 .. n |-> g[j]]))
    <3>1. \A i \in 1 .. n : g[i] \in Seq(Nat)
      BY <1>3
    <3>2. n \in Nat
      BY <1>2
    <3> QED BY <3>1, <3>2, FlattenGathers, Zenon
  <2> QED BY <1>6, <1>7, <2>1 DEF AtMultiples, PutTogether
<1>9. ASSUME NEW j \in 1 .. n, NEW k \in 1 .. w
      PROVE  Numbers(ns)[(j - 1) * w + k] = Number(ns[j])[k]
  <2>1. j - 1 \in 0 .. n - 1 /\ (j - 1) + 1 = j
    BY <1>2
  <2>2. FlattenSeq([i \in 1 .. n |-> g[i]])[(j - 1) * w + k] = g[j][k]
    BY <1>7, <2>1 DEF AtMultiples
  <2> QED BY <1>3, <1>5, <1>6, <2>2
<1> QED BY <1>1, <1>5, <1>8, <1>9 DEF NumbersAre

\* Where the first n cells of the numbers lie in f, so does each number that is
\* whole within them.
LEMMA NumbersHeld ==
  ASSUME NEW ns \in Seq(Nat), NEW f \in Seq(Nat), NEW o \in Nat, NEW n \in Nat,
         o + Len(Numbers(ns)) <= Len(f), \A k \in 1 .. n : f[o + k] = Numbers(ns)[k],
         NEW j \in 1 .. Len(ns), j * Width <= n
  PROVE  Holds(f, o + (j - 1) * Width, Number(ns[j]))
<1>1. NumbersAre(ns, Numbers(ns))
  BY NumbersInCells
<1>2. PICK c : c = Numbers(ns)
  OBVIOUS
<1>3. PICK N, w, l : N = Len(ns) /\ w = Width /\ l = Len(f)
  OBVIOUS
<1>4. N \in Nat /\ w \in Nat /\ l \in Nat /\ j \in 1 .. N
  BY <1>3, Geometry, LenProperties
<1>5. PICK a : a = (j - 1) * w
  OBVIOUS
<1>6. a \in Nat /\ a + w = j * w /\ j * w <= N * w
  <2>1. PICK i, r : i = j - 1 /\ r = N - j
    OBVIOUS
  <2>2. i \in Nat /\ r \in Nat /\ j = i + 1 /\ N = j + r
    BY <1>4, <2>1
  <2>3. i * w \in Nat /\ r * w \in Nat /\ j * w \in Nat
    BY <1>4, <2>2
  <2>4. (i + 1) * w = i * w + w /\ (j + r) * w = j * w + r * w
    BY <1>4, <2>2
  <2>5. a \in Nat /\ a + w = j * w
    BY <1>5, <2>1, <2>2, <2>3, <2>4
  <2>6. j * w <= N * w
    BY <2>2, <2>3, <2>4
  <2> QED BY <2>5, <2>6
<1>7. Len(c) = N * w /\ o + Len(c) <= l
  BY <1>1, <1>2, <1>3 DEF NumbersAre
<1>8. N * w \in Nat
  BY <1>4
<1>9. (o + a) + w <= l
  <2>1. PICK t, u : t = N * w /\ u = j * w
    OBVIOUS
  <2>2. t \in Nat /\ a \in Nat /\ a + w = u /\ u <= t
    BY <1>6, <1>8, <2>1
  <2>3. o + t <= l
    BY <1>7, <2>1
  <2> QED BY <1>4, <2>2, <2>3
<1>10. ASSUME NEW k \in 1 .. w PROVE f[(o + a) + k] = Number(ns[j])[k]
  <2>1. c[a + k] = Number(ns[j])[k]
    BY <1>1, <1>2, <1>3, <1>4, <1>5 DEF NumbersAre
  <2>2. a + k \in 1 .. n /\ (o + a) + k = o + (a + k)
    <3>1. PICK u : u = j * w
      OBVIOUS
    <3> QED BY <1>3, <1>4, <1>6, <3>1
  <2>3. f[o + (a + k)] = c[a + k]
    BY <1>2, <2>2
  <2> QED BY <2>1, <2>2, <2>3
<1>11. Len(Number(ns[j])) = w
  <2>1. ns[j] \in Int
    <3>1. ns[j] \in Nat
      BY ElementOfSeq
    <3> QED BY <3>1
  <2> QED BY <1>3, <2>1, NumberCells
<1> QED BY <1>3, <1>5, <1>9, <1>10, <1>11 DEF Holds

\* The sizes of the parts of a block.
Sizes(parts) == [k \in DOMAIN parts |-> Len(parts[k])]

\* The numbers a block begins with.
Announced(metadata, parts) == <<Len(metadata), Len(parts)>> \o Sizes(parts)

\* What a block is made of: sequences of cells.
LEMMA Cells ==
  ASSUME NEW metadata \in Metadata, NEW parts \in Components
  PROVE  /\ metadata \in Seq(Nat) /\ parts \in Seq(Seq(Nat))
         /\ Len(parts) \in 1 .. 2 /\ DOMAIN parts = 1 .. Len(parts)
         /\ \A k \in 1 .. Len(parts) : parts[k] \in Seq(Nat)
<1>1. 0 .. Base - 1 \subseteq Nat
  OBVIOUS
<1>2. ASSUME NEW s \in Metadata \cup Payloads PROVE s \in Seq(Nat)
  <2>1. s \in Seq(0 .. Base - 1)
    BY PayloadAssumption
  <2> QED BY <1>1, <2>1, SeqMonotonic
<1>3. metadata \in Seq(Nat)
  BY <1>2
<1>4. CASE parts \in {<<p>> : p \in Payloads}
  <2>1. PICK p \in Payloads : parts = <<p>>
    BY <1>4
  <2>2. p \in Seq(Nat)
    BY <1>2
  <2>3. /\ parts \in Seq(Seq(Nat)) /\ Len(parts) = 1 /\ parts[1] = p
    BY <2>1, <2>2
  <2>4. DOMAIN parts = 1 .. Len(parts)
    BY <2>3, LenProperties
  <2>5. \A k \in 1 .. Len(parts) : parts[k] \in Seq(Nat)
    BY <2>3, ElementOfSeq
  <2> QED BY <1>3, <2>3, <2>4, <2>5
<1>5. CASE parts \in Payloads \X Payloads
  <2>1. PICK p \in Payloads, q \in Payloads : parts = <<p, q>>
    BY <1>5
  <2>2. p \in Seq(Nat) /\ q \in Seq(Nat)
    BY <1>2
  <2>3. /\ parts \in Seq(Seq(Nat)) /\ Len(parts) = 2
    BY <2>1, <2>2
  <2>4. DOMAIN parts = 1 .. Len(parts)
    BY <2>3, LenProperties
  <2>5. \A k \in 1 .. Len(parts) : parts[k] \in Seq(Nat)
    BY <2>3, ElementOfSeq
  <2> QED BY <1>3, <2>3, <2>4, <2>5
<1> QED BY <1>4, <1>5 DEF Components

\* The numbers a block begins with, one by one.
AnnouncedAre(metadata, parts, ns) ==
  /\ ns \in Seq(Nat) /\ Len(ns) = 2 + Len(parts)
  /\ ns[1] = Len(metadata) /\ ns[2] = Len(parts)
  /\ \A k \in 1 .. Len(parts) : ns[2 + k] = Len(parts[k])

\* A block begins with the size of its metadata, the number of its components and
\* their sizes.
LEMMA AnnouncedNumbers ==
  ASSUME NEW metadata \in Metadata, NEW parts \in Components
  PROVE  AnnouncedAre(metadata, parts, Announced(metadata, parts))
<1>1. PICK m, n, s : m = Len(metadata) /\ n = Len(parts) /\ s = Sizes(parts)
  OBVIOUS
<1>2. m \in Nat /\ n \in Nat /\ DOMAIN parts = 1 .. n
  BY <1>1, Cells, LenProperties
<1>3. \A k \in 1 .. n : Len(parts[k]) \in Nat
  BY <1>1, Cells, LenProperties
<1>4. s = [k \in 1 .. n |-> Len(parts[k])]
  BY <1>1, <1>2 DEF Sizes
<1>5. s \in [1 .. n -> Nat]
  BY <1>3, <1>4
<1>6. s \in Seq(Nat) /\ Len(s) = n /\ \A k \in 1 .. n : s[k] = Len(parts[k])
  <2>1. s \in Seq(Nat)
    BY <1>2, <1>5, SeqDef
  <2>2. DOMAIN s = 1 .. n
    BY <1>5
  <2> QED BY <1>2, <1>4, <2>1, <2>2
<1>7. PICK t : t = <<m, n>>
  OBVIOUS
<1>8. t \in Seq(Nat) /\ Len(t) = 2 /\ t[1] = m /\ t[2] = n
  BY <1>2, <1>7
<1>9. /\ t \o s \in Seq(Nat) /\ Len(t \o s) = Len(t) + Len(s)
      /\ \A i \in 1 .. Len(t) + Len(s) : (t \o s)[i] = IF i <= Len(t) THEN t[i] ELSE s[i - Len(t)]
  <2>1. t \in Seq(Nat)
    BY <1>8
  <2>2. s \in Seq(Nat)
    BY <1>6
  <2> QED BY <2>1, <2>2, ConcatProperties
<1>10. PICK r : r = t \o s
  OBVIOUS
<1>11. /\ r \in Seq(Nat) /\ Len(r) = 2 + n
       /\ \A i \in 1 .. 2 + n : r[i] = IF i <= 2 THEN t[i] ELSE s[i - 2]
  BY <1>6, <1>8, <1>9, <1>10
<1>12. r[1] = m /\ r[2] = n
  <2>1. 1 \in 1 .. 2 + n /\ 2 \in 1 .. 2 + n /\ 1 <= 2 /\ 2 <= 2
    BY <1>2
  <2> QED BY <1>8, <1>11, <2>1
<1>13. ASSUME NEW k \in 1 .. n PROVE r[2 + k] = Len(parts[k])
  <2>1. 2 + k \in 1 .. 2 + n /\ ~(2 + k <= 2) /\ (2 + k) - 2 = k
    BY <1>2
  <2> QED BY <1>6, <1>11, <2>1
<1>14. Announced(metadata, parts) = r
  BY <1>1, <1>7, <1>10 DEF Announced
<1> QED BY <1>1, <1>11, <1>12, <1>13, <1>14 DEF AnnouncedAre

-----------------------------------------------------------------------------
(* The length of a block *)

\* A sequence of sequences, its parts put one after the other.
LEMMA PartsFlat ==
  ASSUME NEW metadata \in Metadata, NEW parts \in Components
  PROVE  /\ FlattenSeq(parts) = FlattenSeq(Prefix(parts, Len(parts)))
         /\ FlattenSeq(parts) \in Seq(Nat)
         /\ Len(FlattenSeq(parts)) = SumFunction(Sizes(parts))
         /\ Len(FlattenSeq(parts)) \in Nat
<1>1. PICK n : n = Len(parts)
  OBVIOUS
<1>2. /\ n \in Nat /\ parts \in Seq(Seq(Nat)) /\ DOMAIN parts = 1 .. n
      /\ \A k \in 1 .. n : parts[k] \in Seq(Nat)
  BY <1>1, Cells
<1>3. parts \in [1 .. n -> Seq(Nat)]
  BY <1>1, <1>2, LenProperties
<1>4. parts = Prefix(parts, n)
  BY <1>3 DEF Prefix
<1>5. PICK s : s = FlattenSeq(parts)
  OBVIOUS
<1>6. PutTogether(Nat, n, parts, s)
  <2>1. PutTogether(Nat, n, parts, FlattenSeq([i \in 1 .. n |-> parts[i]]))
    BY <1>2, FlattenGathers
  <2> QED BY <1>4, <1>5, <2>1 DEF Prefix
<1>7. s \in Seq(Nat) /\ Len(s) = SumFunctionOnSet([i \in 1 .. n |-> Len(parts[i])], 1 .. n)
  BY <1>6 DEF PutTogether
<1>8. Sizes(parts) = [i \in 1 .. n |-> Len(parts[i])] /\ DOMAIN Sizes(parts) = 1 .. n
  BY <1>2 DEF Sizes
<1>9. Len(s) = SumFunction(Sizes(parts))
  BY <1>7, <1>8 DEF SumFunction
<1>10. Len(s) \in Nat
  BY <1>7, LenProperties
<1>11. FlattenSeq(Prefix(parts, Len(parts))) = s
  BY <1>1, <1>4, <1>5
<1> QED BY <1>5, <1>7, <1>9, <1>10, <1>11

\* The three stretches of a block.
BlockIs(metadata, parts, h, s) ==
  /\ h = Numbers(Announced(metadata, parts)) /\ h \in Seq(Nat)
  /\ Len(h) = Width * (2 + Len(parts))
  /\ s = FlattenSeq(parts) /\ s \in Seq(Nat)
  /\ Block(metadata, parts) = (h \o metadata) \o s
  /\ h \o metadata \in Seq(Nat) /\ Block(metadata, parts) \in Seq(Nat)
  /\ Len(h \o metadata) = Len(h) + Len(metadata)
  /\ Len(Block(metadata, parts)) = Len(h) + Len(metadata) + Len(s)

\* A block is its numbers, its metadata and its components.
LEMMA BlockStretches ==
  ASSUME NEW metadata \in Metadata, NEW parts \in Components
  PROVE  \E h, s : BlockIs(metadata, parts, h, s)
<1>1. PICK a : a = Announced(metadata, parts)
  OBVIOUS
<1>2. a \in Seq(Nat) /\ Len(a) = 2 + Len(parts)
  BY <1>1, AnnouncedNumbers DEF AnnouncedAre
<1>3. PICK h : h = Numbers(a)
  OBVIOUS
<1>4. NumbersAre(a, h)
  BY <1>2, <1>3, NumbersInCells
<1>5. PICK n, w : n = Len(parts) /\ w = Width
  OBVIOUS
<1>6. n \in Nat /\ w \in Nat
  BY <1>5, Geometry, Cells
<1>7. h \in Seq(Nat) /\ Len(h) = (2 + n) * w
  BY <1>2, <1>4, <1>5 DEF NumbersAre
<1>8. (2 + n) * w = w * (2 + n)
  BY <1>6
<1>9. PICK s : s = FlattenSeq(parts)
  OBVIOUS
<1>10. s \in Seq(Nat) /\ metadata \in Seq(Nat)
  BY <1>9, PartsFlat, Cells
<1>11. h \o metadata \in Seq(Nat) /\ Len(h \o metadata) = Len(h) + Len(metadata)
  <2>1. h \in Seq(Nat)
    BY <1>7
  <2> QED BY <1>10, <2>1, ConcatProperties
<1>12. PICK c : c = h \o metadata
  OBVIOUS
<1>13. c \o s \in Seq(Nat) /\ Len(c \o s) = Len(c) + Len(s)
  <2>1. c \in Seq(Nat)
    BY <1>11, <1>12
  <2> QED BY <1>10, <2>1, ConcatProperties
<1>14. Block(metadata, parts) = c \o s
  BY <1>1, <1>3, <1>9, <1>12 DEF Block, Announced, Sizes
<1>15. BlockIs(metadata, parts, h, s)
  BY <1>1, <1>3, <1>5, <1>7, <1>8, <1>9, <1>10, <1>11, <1>12, <1>13, <1>14 DEF BlockIs
<1> QED BY <1>15

\* commit_block() knows the length of the block it writes, wherever it puts it.
LEMMA BlockLength ==
  ASSUME NEW metadata \in Metadata, NEW parts \in Components, NEW o \in Nat
  PROVE  /\ Layout(o, Len(metadata), Sizes(parts)).block_size = Len(Block(metadata, parts))
         /\ Len(Block(metadata, parts)) \in Nat \ {0}
         /\ Block(metadata, parts) \in Seq(Nat)
<1>1. PICK h, s : BlockIs(metadata, parts, h, s)
  BY BlockStretches
<1>2. PICK m, n, w, z : m = Len(metadata) /\ n = Len(parts) /\ w = Width /\ z = SumFunction(Sizes(parts))
  OBVIOUS
<1>3. m \in Nat /\ n \in Nat \ {0} /\ w \in Nat \ {0} /\ z \in Nat /\ Len(s) = z
  <2>1. m \in Nat
    BY <1>2, Cells, LenProperties
  <2>2. n \in Nat \ {0} /\ w \in Nat \ {0}
    <3>1. n \in 1 .. 2
      BY <1>2, Cells
    <3>2. w \in Nat \ {0}
      BY <1>2, Geometry
    <3> QED BY <3>1, <3>2
  <2>3. Len(s) = z /\ z \in Nat
    BY <1>1, <1>2, PartsFlat DEF BlockIs
  <2> QED BY <2>1, <2>2, <2>3
<1>4. Len(Block(metadata, parts)) = w * (2 + n) + m + z
  BY <1>1, <1>2, <1>3 DEF BlockIs
<1>5. Len(Sizes(parts)) = n
  <2>1. DOMAIN parts = 1 .. n
    BY <1>2, Cells
  <2>2. DOMAIN Sizes(parts) = 1 .. n
    BY <2>1 DEF Sizes
  <2>3. Sizes(parts) = [k \in 1 .. n |-> Len(parts[k])]
    BY <2>1 DEF Sizes
  <2>4. \A k \in 1 .. n : Len(parts[k]) \in Nat
    BY <1>2, Cells, LenProperties
  <2>5. Sizes(parts) \in [1 .. n -> Nat]
    BY <2>3, <2>4
  <2>6. Sizes(parts) \in Seq(Nat)
    BY <1>3, <2>5, SeqDef
  <2>7. PICK r : r = Sizes(parts)
    OBVIOUS
  <2>8. r \in Seq(Nat) /\ DOMAIN r = 1 .. n
    BY <2>2, <2>6, <2>7
  <2> QED BY <1>3, <2>7, <2>8
<1>6. Layout(o, Len(metadata), Sizes(parts)).block_size = (o + w * (2 + n)) - o + m + z
  BY <1>2, <1>5 DEF Layout
<1>7. w * (2 + n) \in Nat \ {0}
  BY <1>3
<1>8. PICK t : t = w * (2 + n)
  OBVIOUS
<1>9. (o + t) - o + m + z = t + m + z /\ t + m + z \in Nat \ {0}
  BY <1>3, <1>7, <1>8
<1> QED BY <1>1, <1>4, <1>6, <1>8, <1>9 DEF BlockIs

\* The numbers of a block fit if its length does.
NumbersFitIn(metadata, parts, limit) ==
  /\ Len(metadata) < limit /\ Len(parts) < limit
  /\ \A k \in 1 .. Len(parts) : Len(parts[k]) < limit

\* A block in the file f at offset o, with all that a reader takes from its header.
BlockSeen(f, o, metadata, parts) ==
  /\ NumberAt(f, o) = Len(metadata)
  /\ ComponentCount(f, o) = Len(parts)
  /\ ComponentSizes(f, o) = Sizes(parts)
  /\ CanRead(f, o, 2 * Width)
  /\ CanRead(f, o + 2 * Width, Len(parts) * Width)

\* Where the parts of a block are, its layout says.
PartsSeen(f, o, metadata, parts) ==
  LET layout == Layout(o, Len(metadata), Sizes(parts))
  IN  /\ layout.metadata \in Nat /\ Holds(f, layout.metadata, metadata)
      /\ \A k \in 1 .. Len(parts) :
           layout.components[k] \in Nat /\ Holds(f, layout.components[k], parts[k])

\* The layout of a block says where its metadata and its components are.
LEMMA PartsFound ==
  ASSUME NEW f \in Seq(Nat), NEW o \in Nat, NEW metadata \in Metadata, NEW parts \in Components,
         Holds(f, o, Block(metadata, parts))
  PROVE  /\ PartsSeen(f, o, metadata, parts)
         /\ Holds(f, o, Numbers(Announced(metadata, parts)))
<1>1. PICK h, s : BlockIs(metadata, parts, h, s)
  BY BlockStretches
<1>2. PICK m, n, w : m = Len(metadata) /\ n = Len(parts) /\ w = Width
  OBVIOUS
<1>3. m \in Nat /\ n \in Nat /\ w \in Nat
  BY <1>2, Cells, Geometry, LenProperties
<1>4. PICK c, b : c = h \o metadata /\ b = Block(metadata, parts)
  OBVIOUS
<1>5. h \in Seq(Nat) /\ metadata \in Seq(Nat) /\ s \in Seq(Nat) /\ c \in Seq(Nat) /\ b = c \o s
  BY <1>1, <1>4, Cells DEF BlockIs
<1>6. Holds(f, o, c) /\ Holds(f, o + Len(c), s)
  BY <1>4, <1>5, HoldsBoth
<1>7. Holds(f, o, h) /\ Holds(f, o + Len(h), metadata)
  BY <1>4, <1>5, <1>6, HoldsBoth
<1>8. PICK q : q = w * (2 + n)
  OBVIOUS
<1>9. Len(h) = q /\ q \in Nat /\ Len(c) = q + m
  <2>1. Len(h) = q
    BY <1>1, <1>2, <1>8 DEF BlockIs
  <2>2. Len(h) \in Nat
    BY <1>5, LenProperties
  <2>3. Len(c) = q + m
    BY <1>1, <1>2, <1>4, <2>1 DEF BlockIs
  <2> QED BY <2>1, <2>2, <2>3
<1>10. DOMAIN Sizes(parts) = 1 .. n /\ Len(Sizes(parts)) = n /\ Sizes(parts) = [i \in 1 .. n |-> Len(parts[i])]
  <2>1. DOMAIN parts = 1 .. n
    BY <1>2, Cells
  <2>2. Sizes(parts) = [i \in 1 .. n |-> Len(parts[i])]
    BY <2>1 DEF Sizes
  <2>3. \A k \in 1 .. n : Len(parts[k]) \in Nat
    BY <1>2, Cells, LenProperties
  <2>4. PICK r : r = Sizes(parts)
    OBVIOUS
  <2>5. r \in [1 .. n -> Nat]
    BY <2>2, <2>3, <2>4
  <2>6. r \in Seq(Nat) /\ DOMAIN r = 1 .. n
    BY <1>3, <2>5, SeqDef
  <2>7. Len(r) = n
    BY <1>3, <2>6
  <2> QED BY <2>2, <2>4, <2>6, <2>7
<1>11. PICK layout : layout = Layout(o, m, Sizes(parts))
  OBVIOUS
<1>12. /\ layout.metadata = o + q
       /\ \A k \in 1 .. n : layout.components[k] = (o + q) + m + SumFunction(SubSeq(Sizes(parts), 1, k - 1))
  BY <1>2, <1>8, <1>10, <1>11 DEF Layout
<1>13. layout.metadata \in Nat /\ Holds(f, layout.metadata, metadata)
  BY <1>7, <1>9, <1>12
<1>14. PartsHeld(f, o + (q + m), n, parts)
  <2>1. o + (q + m) \in Nat
    BY <1>3, <1>9
  <2>2. s = FlattenSeq(Prefix(parts, n))
    BY <1>1, <1>2, PartsFlat DEF BlockIs
  <2>3. Holds(f, o + (q + m), FlattenSeq(Prefix(parts, n)))
    BY <1>6, <1>9, <2>2
  <2>4. \A i \in 1 .. n : parts[i] \in Seq(Nat)
    BY <1>2, Cells
  <2> QED BY <1>3, <2>1, <2>3, <2>4, PartsHold
<1>15. ASSUME NEW k \in 1 .. n
       PROVE  layout.components[k] \in Nat /\ Holds(f, layout.components[k], parts[k])
  <2>1. PICK l : l = Len(FlattenSeq(Prefix(parts, k - 1)))
    OBVIOUS
  <2>2. l = SumFunction(SubSeq([i \in 1 .. n |-> Len(parts[i])], 1, k - 1)) /\ l \in Nat
    <3>1. k - 1 \in 0 .. n
      BY <1>3
    <3>2. \A i \in 1 .. n : parts[i] \in Seq(Nat)
      BY <1>2, Cells
    <3>3. n \in Nat
      BY <1>3
    <3>4. /\ Len(FlattenSeq(Prefix(parts, k - 1))) = SumFunction(SubSeq([i \in 1 .. n |-> Len(parts[i])], 1, k - 1))
          /\ Len(FlattenSeq(Prefix(parts, k - 1))) \in Nat
      BY <3>1, <3>2, <3>3, LengthBefore, Zenon
    <3> QED BY <2>1, <3>4
  <2>3. layout.components[k] = (o + q) + m + l
    BY <1>10, <1>12, <2>2
  <2>4. (o + q) + m + l = (o + (q + m)) + l /\ (o + q) + m + l \in Nat
    BY <1>3, <1>9, <2>2
  <2>5. Holds(f, (o + (q + m)) + l, parts[k])
    BY <1>14, <2>1 DEF PartsHeld
  <2> QED BY <2>3, <2>4, <2>5
<1>16. PartsSeen(f, o, metadata, parts)
  BY <1>2, <1>11, <1>13, <1>15 DEF PartsSeen
<1> QED BY <1>1, <1>7, <1>16 DEF BlockIs

\* No part of a block is longer than the block.
LEMMA ShorterThanBlock ==
  ASSUME NEW metadata \in Metadata, NEW parts \in Components,
         NEW limit \in Nat, Len(Block(metadata, parts)) < limit
  PROVE  NumbersFitIn(metadata, parts, limit)
<1>1. PICK b, l : b = Block(metadata, parts) /\ l = Len(b)
  OBVIOUS
<1>2. b \in Seq(Nat) /\ l \in Nat /\ l < limit
  <2>1. 0 \in Nat
    OBVIOUS
  <2> QED BY <1>1, <2>1, BlockLength
<1>3. Holds(b, 0, b)
  BY <1>1, <1>2 DEF Holds
<1>4. PartsSeen(b, 0, metadata, parts)
  <2>1. 0 \in Nat
    OBVIOUS
  <2> QED BY <1>1, <1>2, <1>3, <2>1, PartsFound
<1>5. PICK layout : layout = Layout(0, Len(metadata), Sizes(parts))
  OBVIOUS
<1>6. /\ layout.metadata \in Nat /\ Holds(b, layout.metadata, metadata)
      /\ \A k \in 1 .. Len(parts) :
           layout.components[k] \in Nat /\ Holds(b, layout.components[k], parts[k])
  BY <1>4, <1>5 DEF PartsSeen
<1>7. ASSUME NEW o \in Nat, NEW s \in Seq(Nat), Holds(b, o, s) PROVE Len(s) < limit
  <2>1. Len(s) \in Nat
    BY LenProperties
  <2>2. o + Len(s) <= l
    BY <1>1, <1>7 DEF Holds
  <2> QED BY <1>2, <2>1, <2>2
<1>8. Len(metadata) < limit
  BY <1>6, <1>7, Cells
<1>9. ASSUME NEW k \in 1 .. Len(parts) PROVE Len(parts[k]) < limit
  <2>1. parts[k] \in Seq(Nat)
    BY Cells
  <2> QED BY <1>6, <1>7, <2>1
<1>10. Len(parts) < limit
  <2>1. PICK h, s : BlockIs(metadata, parts, h, s)
    BY BlockStretches
  <2>2. PICK m, n, w : m = Len(metadata) /\ n = Len(parts) /\ w = Width
    OBVIOUS
  <2>3. m \in Nat /\ n \in Nat /\ w \in Nat \ {0} /\ Len(s) \in Nat
    <3>1. m \in Nat
      BY <2>2, Cells, LenProperties
    <3>2. n \in Nat /\ w \in Nat \ {0}
      BY <2>2, Cells, Geometry
    <3>3. Len(s) \in Nat
      BY <2>1, LenProperties DEF BlockIs
    <3> QED BY <3>1, <3>2, <3>3
  <2>4. l = w * (2 + n) + m + Len(s)
    BY <1>1, <2>1, <2>2 DEF BlockIs
  <2>5. PICK q : q = w * (2 + n)
    OBVIOUS
  <2>6. q \in Nat /\ n <= q
    <3>1. PICK v \in Nat : w = v + 1
      <4>1. w - 1 \in Nat /\ w = (w - 1) + 1
        BY <2>3
      <4> QED BY <4>1
    <3>2. (v + 1) * (2 + n) = v * (2 + n) + (2 + n) /\ v * (2 + n) \in Nat
      BY <2>3
    <3> QED BY <2>3, <2>5, <3>1, <3>2
  <2> QED BY <1>2, <2>2, <2>3, <2>4, <2>5, <2>6
<1> QED BY <1>8, <1>9, <1>10 DEF NumbersFitIn

-----------------------------------------------------------------------------
(* Reading a block *)

\* A reader takes from the header of a block what commit_block() put there.
LEMMA HeaderFound ==
  ASSUME NEW f \in Seq(Nat), NEW o \in Nat, NEW metadata \in Metadata, NEW parts \in Components,
         Holds(f, o, Block(metadata, parts)), Len(Block(metadata, parts)) < Power(Base, Width)
  PROVE  BlockSeen(f, o, metadata, parts)
<1>1. PICK ns : ns = Announced(metadata, parts)
  OBVIOUS
<1>2. /\ ns \in Seq(Nat) /\ Len(ns) = 2 + Len(parts)
      /\ ns[1] = Len(metadata) /\ ns[2] = Len(parts)
      /\ \A k \in 1 .. Len(parts) : ns[2 + k] = Len(parts[k])
  BY <1>1, AnnouncedNumbers DEF AnnouncedAre
<1>3. PICK n, w, P : n = Len(parts) /\ w = Width /\ P = Power(Base, Width)
  OBVIOUS
<1>4. n \in Nat /\ w \in Nat /\ P \in Nat /\ DOMAIN parts = 1 .. n
  <2>1. n \in Nat /\ DOMAIN parts = 1 .. n
    BY <1>3, Cells
  <2>2. w \in Nat
    BY <1>3, Geometry
  <2>3. P \in Nat
    <3>1. Base \in Nat \ {0} /\ Width \in Nat
      BY Geometry
    <3> QED BY <1>3, <3>1, PowerPositive
  <2> QED BY <2>1, <2>2, <2>3
<1>5. Len(metadata) < P /\ Len(parts) < P /\ \A k \in 1 .. n : Len(parts[k]) < P
  <2>1. NumbersFitIn(metadata, parts, P)
    BY <1>3, <1>4, ShorterThanBlock
  <2> QED BY <1>3, <2>1 DEF NumbersFitIn
<1>6. ASSUME NEW j \in 1 .. 2 + n PROVE ns[j] \in Nat /\ ns[j] < P
  <2>1. ns[j] \in Nat
    BY <1>2, <1>3, ElementOfSeq
  <2>2. CASE j = 1
    BY <1>2, <1>5, <2>1, <2>2
  <2>3. CASE j = 2
    BY <1>2, <1>5, <2>1, <2>3
  <2>4. CASE j # 1 /\ j # 2
    <3>1. j - 2 \in 1 .. n /\ 2 + (j - 2) = j
      BY <1>4, <2>4
    <3>2. ns[j] = Len(parts[j - 2])
      BY <1>2, <1>3, <3>1
    <3> QED BY <1>5, <2>1, <3>1, <3>2
  <2> QED BY <2>2, <2>3, <2>4
<1>7. NumbersAre(ns, Numbers(ns))
  BY <1>2, NumbersInCells
<1>8. PICK h : h = Numbers(ns)
  OBVIOUS
<1>9. PICK q : q = (2 + n) * w
  OBVIOUS
<1>10. q \in Nat /\ Len(h) = q /\ q = 2 * w + n * w /\ n * w \in Nat
  <2>1. (2 + n) * w \in Nat /\ (2 + n) * w = 2 * w + n * w /\ n * w \in Nat
    BY <1>4
  <2>2. Len(h) = (2 + n) * w
    BY <1>2, <1>3, <1>7, <1>8 DEF NumbersAre
  <2> QED BY <1>9, <2>1, <2>2
<1>11. Holds(f, o, h)
  BY <1>1, <1>8, PartsFound
<1>12. o + q <= Len(f) /\ \A k \in 1 .. q : f[o + k] = h[k]
  BY <1>10, <1>11 DEF Holds
<1>13. ASSUME NEW j \in 1 .. 2 + n
       PROVE  NumberAt(f, o + (j - 1) * w) = ns[j]
  <2>1. (j - 1) * w \in Nat /\ j * w <= q
    <3>1. PICK d \in Nat, e \in Nat : e = j - 1 /\ 2 + n = j + d
      <4>1. j - 1 \in Nat /\ (2 + n) - j \in Nat /\ 2 + n = j + ((2 + n) - j)
        BY <1>4
      <4> QED BY <4>1
    <3>2. e * w \in Nat /\ j * w \in Nat /\ d * w \in Nat /\ (j + d) * w = j * w + d * w
      BY <1>4, <3>1
    <3>3. q = (j + d) * w
      BY <1>9, <3>1
    <3> QED BY <3>1, <3>2, <3>3
  <2>2. o + Len(Numbers(ns)) <= Len(f) /\ \A k \in 1 .. q : f[o + k] = Numbers(ns)[k]
    BY <1>8, <1>10, <1>12
  <2>3. j \in 1 .. Len(ns) /\ j * Width <= q
    BY <1>2, <1>3, <2>1
  <2>4. Holds(f, o + (j - 1) * Width, Number(ns[j]))
    BY <1>2, <1>10, <2>2, <2>3, NumbersHeld
  <2>5. ns[j] \in Nat /\ ns[j] < Power(Base, Width)
    BY <1>3, <1>6
  <2>6. PICK a : a = o + (j - 1) * w
    OBVIOUS
  <2>7. a \in Nat /\ Holds(f, a, Number(ns[j]))
    BY <1>3, <2>1, <2>4, <2>6
  <2>8. NumberAt(f, a) = ns[j]
    BY <2>5, <2>7, NumberHeld
  <2> QED BY <2>6, <2>8
<1>14. NumberAt(f, o) = Len(metadata)
  <2>1. 1 \in 1 .. 2 + n /\ o + (1 - 1) * w = o
    BY <1>4
  <2> QED BY <1>2, <1>13, <2>1
<1>15. ComponentCount(f, o) = n
  <2>1. 2 \in 1 .. 2 + n /\ o + (2 - 1) * w = o + w
    BY <1>4
  <2> QED BY <1>2, <1>3, <1>13, <2>1 DEF ComponentCount
<1>16. ComponentSizes(f, o) = Sizes(parts)
  <2>1. ASSUME NEW k \in 1 .. n PROVE NumberAt(f, o + (1 + k) * w) = Len(parts[k])
    <3>1. 2 + k \in 1 .. 2 + n /\ (2 + k) - 1 = 1 + k
      BY <1>4
    <3> QED BY <1>2, <1>3, <1>13, <3>1
  <2>2. ComponentSizes(f, o) = [k \in 1 .. n |-> NumberAt(f, o + (1 + k) * w)]
    BY <1>3, <1>15 DEF ComponentSizes
  <2>3. Sizes(parts) = [k \in 1 .. n |-> Len(parts[k])]
    BY <1>4 DEF Sizes
  <2> QED BY <2>1, <2>2, <2>3
<1>17. CanRead(f, o, 2 * w) /\ CanRead(f, o + 2 * w, n * w)
  <2>1. PICK l, x, y : l = Len(f) /\ x = 2 * w /\ y = n * w
    OBVIOUS
  <2>2. l \in Nat /\ x \in Nat /\ y \in Nat /\ o + (x + y) <= l
    BY <1>4, <1>10, <1>12, <2>1, LenProperties
  <2>3. o + x <= l /\ (o + x) + y <= l
    BY <2>2
  <2> QED BY <2>1, <2>3 DEF CanRead
<1> QED BY <1>3, <1>14, <1>15, <1>16, <1>17 DEF BlockSeen

\* A reader that knows where a block is reads that block.
LEMMA ReadsBlock ==
  ASSUME NEW f \in Seq(Nat), NEW i \in Blocks, Offset(f, i) \in Nat,
         NEW metadata \in Metadata, NEW parts \in Components,
         Holds(f, Offset(f, i), Block(metadata, parts)),
         Len(Block(metadata, parts)) < Power(Base, Width)
  PROVE  /\ read_block_components(f, i) = [metadata |-> metadata, components |-> parts]
         /\ CanOpen(f) /\ Size(f, i) = Len(Block(metadata, parts)) => Readable(f, i)
<1>1. PICK o : o = Offset(f, i)
  OBVIOUS
<1>2. o \in Nat /\ Holds(f, o, Block(metadata, parts))
  BY <1>1
<1>3. BlockSeen(f, o, metadata, parts)
  BY <1>2, HeaderFound
<1>4. NumberAt(f, o) = Len(metadata) /\ ComponentCount(f, o) = Len(parts) /\ ComponentSizes(f, o) = Sizes(parts)
  BY <1>3 DEF BlockSeen
<1>5. PICK layout : layout = Layout(o, Len(metadata), Sizes(parts))
  OBVIOUS
<1>6. /\ layout.metadata \in Nat /\ Holds(f, layout.metadata, metadata)
      /\ \A k \in 1 .. Len(parts) :
           layout.components[k] \in Nat /\ Holds(f, layout.components[k], parts[k])
  <2>1. PartsSeen(f, o, metadata, parts)
    BY <1>2, PartsFound
  <2> QED BY <1>5, <2>1 DEF PartsSeen
<1>7. LayoutAt(f, i) = layout
  BY <1>1, <1>4, <1>5 DEF LayoutAt
<1>8. DOMAIN Sizes(parts) = 1 .. Len(parts) /\ \A k \in 1 .. Len(parts) : Sizes(parts)[k] = Len(parts[k])
  <2>1. DOMAIN parts = 1 .. Len(parts)
    BY Cells
  <2> QED BY <2>1 DEF Sizes
<1>9. /\ ReadAt(f, layout.metadata, Len(metadata)) = metadata
      /\ CanRead(f, layout.metadata, Len(metadata))
  BY <1>6, Cells, ReadsBack
<1>10. ASSUME NEW k \in 1 .. Len(parts)
       PROVE  /\ ReadAt(f, layout.components[k], Sizes(parts)[k]) = parts[k]
              /\ CanRead(f, layout.components[k], Sizes(parts)[k])
  <2>1. parts[k] \in Seq(Nat)
    BY Cells
  <2>2. /\ ReadAt(f, layout.components[k], Len(parts[k])) = parts[k]
        /\ CanRead(f, layout.components[k], Len(parts[k]))
    BY <1>6, <2>1, ReadsBack
  <2> QED BY <1>8, <2>2
<1>11. read_block_components(f, i) = [metadata |-> metadata, components |-> parts]
  <2>1. PICK r : r = [k \in DOMAIN Sizes(parts) |-> ReadAt(f, layout.components[k], Sizes(parts)[k])]
    OBVIOUS
  <2>2. read_block_components(f, i) = [metadata |-> ReadAt(f, layout.metadata, Len(metadata)), components |-> r]
    BY <1>1, <1>4, <1>7, <2>1 DEF read_block_components
  <2>3. r = [k \in 1 .. Len(parts) |-> parts[k]]
    BY <1>8, <1>10, <2>1
  <2>4. parts = [k \in 1 .. Len(parts) |-> parts[k]]
    BY Cells, LenProperties
  <2> QED BY <1>9, <2>2, <2>3, <2>4
<1>12. ASSUME CanOpen(f), Size(f, i) = Len(Block(metadata, parts)) PROVE Readable(f, i)
  <2>1. Layout(o, Len(metadata), Sizes(parts)).block_size = Len(Block(metadata, parts)) /\ Len(Block(metadata, parts)) # 0
    BY <1>2, BlockLength
  <2>2. LayoutAt(f, i).block_size = Size(f, i) /\ Size(f, i) # 0
    BY <1>5, <1>7, <1>12, <2>1
  <2>3. CanRead(f, o, 2 * Width) /\ CanRead(f, o + 2 * Width, ComponentCount(f, o) * Width)
    BY <1>3, <1>4 DEF BlockSeen
  <2>4. block_layout(f, i)
    BY <1>1, <2>2, <2>3 DEF block_layout
  <2>5. CanRead(f, LayoutAt(f, i).metadata, NumberAt(f, o))
    BY <1>4, <1>7, <1>9
  <2>6. \A k \in DOMAIN ComponentSizes(f, o) : CanRead(f, LayoutAt(f, i).components[k], ComponentSizes(f, o)[k])
    BY <1>4, <1>7, <1>8, <1>10
  <2> QED BY <1>1, <1>12, <2>4, <2>5, <2>6 DEF Readable
<1> QED BY <1>11, <1>12

-----------------------------------------------------------------------------
(* The directory *)

\* The directory d, entry after entry, and in cells.
Entries(d) == FlattenSeq([k \in 1 .. NumBlocks |-> d[k - 1]])
Table(d)   == Numbers(Entries(d))

\* Each entry of the directory, number by number.
EntriesAre(d, ns) ==
  /\ ns \in Seq(Nat) /\ Len(ns) = 2 * NumBlocks
  /\ \A i \in Blocks : ns[2 * i + 1] = d[i][1] /\ ns[2 * i + 2] = d[i][2]

\* The offset and the size of block i are numbers 2i + 1 and 2i + 2 of the directory.
LEMMA EntriesInOrder ==
  ASSUME NEW d \in [Blocks -> Nat \X Nat]
  PROVE  EntriesAre(d, Entries(d))
<1>1. PICK n : n = NumBlocks
  OBVIOUS
<1>2. n \in Nat
  BY <1>1, Geometry
<1> DEFINE g == [k \in 1 .. n |-> d[k - 1]]
<1>3. ASSUME NEW k \in 1 .. n PROVE g[k] = d[k - 1] /\ g[k] \in Seq(Nat) /\ Len(g[k]) = 2
  <2>1. k - 1 \in Blocks
    BY <1>1, <1>2 DEF Blocks
  <2>2. d[k - 1] \in Nat \X Nat
    BY <2>1
  <2>3. PICK x \in Nat, y \in Nat : d[k - 1] = <<x, y>>
    BY <2>2
  <2>4. <<x, y>> \in Seq(Nat) /\ Len(<<x, y>>) = 2
    OBVIOUS
  <2> QED BY <2>3, <2>4
<1>4. FlattenSeq(g) = FlattenSeq([j \in 1 .. n |-> g[j]])
  OBVIOUS
<1>5. Entries(d) = FlattenSeq(g)
  BY <1>1 DEF Entries
<1> HIDE DEF g
<1>6. AtMultiples(n, 2, g)
  <2>1. \A i \in 1 .. n : g[i] \in Seq(Nat) /\ Len(g[i]) = 2
    BY <1>3
  <2>2. 2 \in Nat
    OBVIOUS
  <2> QED BY <1>2, <2>1, <2>2, FlattenAt
<1>7. PutTogether(Nat, n, g, FlattenSeq([j \in 1 .. n |-> g[j]]))
  <2>1. \A i \in 1 .. n : g[i] \in Seq(Nat)
    BY <1>3
  <2> QED BY <1>2, <2>1, FlattenGathers, Zenon
<1>8. PICK ns : ns = Entries(d)
  OBVIOUS
<1>9. ns \in Seq(Nat) /\ Len(ns) = n * 2
  BY <1>4, <1>5, <1>6, <1>7, <1>8 DEF AtMultiples, PutTogether
<1>10. ASSUME NEW i \in Blocks PROVE ns[2 * i + 1] = d[i][1] /\ ns[2 * i + 2] = d[i][2]
  <2>1. i \in 0 .. n - 1 /\ i + 1 \in 1 .. n /\ (i + 1) - 1 = i
    BY <1>1, <1>2 DEF Blocks
  <2>2. g[i + 1] = d[i]
    BY <1>3, <2>1
  <2>3. \A k \in 1 .. 2 : ns[i * 2 + k] = d[i][k]
    BY <1>4, <1>5, <1>6, <1>8, <2>1, <2>2 DEF AtMultiples
  <2>4. i * 2 + 1 = 2 * i + 1 /\ i * 2 + 2 = 2 * i + 2 /\ 1 \in 1 .. 2 /\ 2 \in 1 .. 2
    BY <2>1
  <2> QED BY <2>3, <2>4
<1>11. n * 2 = 2 * n
  BY <1>2
<1> QED BY <1>1, <1>8, <1>9, <1>10, <1>11 DEF EntriesAre

\* The directory takes the room it was given.
LEMMA TableCells ==
  ASSUME NEW d \in [Blocks -> Nat \X Nat]
  PROVE  Table(d) \in Seq(Nat) /\ Len(Table(d)) = DirectoryCells
<1>1. PICK ns : ns = Entries(d)
  OBVIOUS
<1>2. ns \in Seq(Nat) /\ Len(ns) = 2 * NumBlocks
  BY <1>1, EntriesInOrder DEF EntriesAre
<1>3. NumbersAre(ns, Numbers(ns))
  BY <1>2, NumbersInCells
<1> QED BY <1>1, <1>2, <1>3 DEF NumbersAre, Table, DirectoryCells

\* The digits of zero.
LEMMA NumberOfZero ==
  \A k \in 1 .. Width : Number(0)[k] = 0
<1> SUFFICES ASSUME NEW k \in 1 .. Width PROVE Number(0)[k] = 0
  OBVIOUS
<1>1. PICK b, p : b = Base /\ p = Power(b, k - 1)
  OBVIOUS
<1>2. b \in Nat \ {0} /\ k - 1 \in Nat
  BY <1>1, Geometry
<1>3. p \in Nat \ {0}
  BY <1>1, <1>2, PowerPositive
<1>4. 0 \div p = 0 /\ 0 % b = 0
  <2>1. \E q \in Int, r \in 0 .. p - 1 : q = 0 \div p /\ r = 0 % p /\ 0 = q * p + r
    <3>1. 0 \in Int
      OBVIOUS
    <3> QED BY <1>3, <3>1, Divided
  <2>2. 0 \div p = 0
    BY <1>3
  <2>3. 0 % b = 0
    BY <1>2
  <2> QED BY <2>2, <2>3
<1> QED BY <1>1, <1>4 DEF Number

\* The first n cells of the directory d are in f, and zeros after them.
DirectoryUpTo(f, d, n) ==
  /\ PayloadOffset <= Len(f)
  /\ \A k \in 1 .. DirectoryCells : f[HeaderCells + k] = IF k <= n THEN Table(d)[k] ELSE 0

\* What a reader finds of a directory that was written only in part.
EntryFound(f, d, n, i) ==
  /\ Offset(f, i) = d[i][1] \/ Size(f, i) = 0
  /\ n = DirectoryCells => Offset(f, i) = d[i][1] /\ Size(f, i) = d[i][2]
  /\ d[i] = <<0, 0>> => Size(f, i) = 0

\* open() takes from a directory that was cut off either the offset of a block as it
\* was written, or no size.
LEMMA EntryRead ==
  ASSUME NEW f \in Seq(Nat), NEW d \in [Blocks -> Nat \X Nat], NEW n \in 0 .. DirectoryCells,
         DirectoryUpTo(f, d, n), NEW i \in Blocks,
         d[i][1] < Power(Base, Width), d[i][2] < Power(Base, Width)
  PROVE  EntryFound(f, d, n, i)
<1>1. PICK ns, c : ns = Entries(d) /\ c = Numbers(ns)
  OBVIOUS
<1>2. /\ ns \in Seq(Nat) /\ Len(ns) = 2 * NumBlocks
      /\ ns[2 * i + 1] = d[i][1] /\ ns[2 * i + 2] = d[i][2]
  BY <1>1, EntriesInOrder DEF EntriesAre
<1>3. c = Table(d) /\ c \in Seq(Nat) /\ Len(c) = DirectoryCells
  BY <1>1, TableCells DEF Table
<1>4. PICK w, h, N, D, l : w = Width /\ h = HeaderCells /\ N = NumBlocks /\ D = DirectoryCells /\ l = Len(f)
  OBVIOUS
<1>5. w \in Nat \ {0} /\ h \in Nat /\ N \in Nat \ {0} /\ D \in Nat /\ l \in Nat
  BY <1>4, Geometry, LenProperties
<1>6. D = 2 * N * w /\ PayloadOffset = h + D
  BY <1>4 DEF DirectoryCells, PayloadOffset
<1>7. h + D <= l /\ \A k \in 1 .. D : f[h + k] = IF k <= n THEN c[k] ELSE 0
  BY <1>3, <1>4, <1>6 DEF DirectoryUpTo
<1>8. i \in 0 .. N - 1
  BY <1>4 DEF Blocks
<1>9. PICK a, b : a = (2 * i + 1) * w /\ b = 2 * i * w
  OBVIOUS
<1>10. a \in Nat /\ b \in Nat /\ a = b + w /\ a + w <= D /\ (2 * i + 2) * w = a + w
  <2>1. PICK e : e = i * w
    OBVIOUS
  <2>2. e \in Nat
    BY <1>5, <1>8, <2>1
  <2>3. a = 2 * e + w /\ b = 2 * e /\ (2 * i + 2) * w = 2 * e + 2 * w
    BY <1>5, <1>8, <1>9, <2>1
  <2>4. PICK r \in Nat : N = (i + 1) + r
    <3>1. N - (i + 1) \in Nat /\ N = (i + 1) + (N - (i + 1))
      BY <1>5, <1>8
    <3> QED BY <3>1
  <2>5. D = (2 * e + 2 * w) + 2 * (r * w) /\ r * w \in Nat
    BY <1>5, <1>6, <1>8, <2>1, <2>4
  <2> QED BY <1>5, <2>2, <2>3, <2>5
<1>11. h + Len(Numbers(ns)) <= Len(f) /\ \A k \in 1 .. n : f[h + k] = Numbers(ns)[k]
  <2>1. h + Len(Numbers(ns)) <= Len(f)
    BY <1>1, <1>3, <1>4, <1>7
  <2>2. ASSUME NEW k \in 1 .. n PROVE f[h + k] = Numbers(ns)[k]
    <3>1. k \in 1 .. D /\ k <= n
      BY <1>4, <1>5
    <3> QED BY <1>1, <1>7, <3>1
  <2> QED BY <2>1, <2>2
<1>12. n \in Nat /\ n <= D
  BY <1>4, <1>5
<1>13. ASSUME a <= n PROVE Offset(f, i) = d[i][1]
  <2>1. 2 * i + 1 \in 1 .. Len(ns) /\ (2 * i + 1) * Width <= n
    BY <1>2, <1>4, <1>5, <1>8, <1>9, <1>13
  <2>2. Holds(f, h + ((2 * i + 1) - 1) * Width, Number(ns[2 * i + 1]))
    BY <1>2, <1>5, <1>11, <1>12, <2>1, NumbersHeld
  <2>3. ((2 * i + 1) - 1) * Width = b
    BY <1>4, <1>5, <1>8, <1>9
  <2>4. PICK x, v : x = h + b /\ v = d[i][1]
    OBVIOUS
  <2>5. x \in Nat /\ v \in Nat /\ v < Power(Base, Width) /\ Holds(f, x, Number(v))
    <3>1. v \in Nat
      BY <2>4
    <3>2. x \in Nat
      BY <1>5, <1>10, <2>4
    <3>3. Holds(f, x, Number(v))
      BY <1>2, <2>2, <2>3, <2>4
    <3> QED BY <2>4, <3>1, <3>2, <3>3
  <2>6. NumberAt(f, x) = v
    BY <2>5, NumberHeld
  <2> QED BY <1>4, <1>9, <2>4, <2>6 DEF Offset
<1>14. ASSUME a + w <= n PROVE Size(f, i) = d[i][2]
  <2>1. 2 * i + 2 \in 1 .. Len(ns) /\ (2 * i + 2) * Width <= n
    BY <1>2, <1>4, <1>5, <1>8, <1>10, <1>14
  <2>2. Holds(f, h + ((2 * i + 2) - 1) * Width, Number(ns[2 * i + 2]))
    BY <1>2, <1>5, <1>11, <1>12, <2>1, NumbersHeld
  <2>3. (2 * i + 2) - 1 = 2 * i + 1
    BY <1>8
  <2>4. PICK x, v : x = h + a /\ v = d[i][2]
    OBVIOUS
  <2>5. x \in Nat /\ v \in Nat /\ v < Power(Base, Width) /\ Holds(f, x, Number(v))
    <3>1. v \in Nat
      BY <2>4
    <3>2. x \in Nat
      BY <1>5, <1>10, <2>4
    <3>3. Holds(f, x, Number(v))
      BY <1>2, <1>4, <1>9, <2>2, <2>3, <2>4
    <3> QED BY <2>4, <3>1, <3>2, <3>3
  <2>6. NumberAt(f, x) = v
    BY <2>5, NumberHeld
  <2> QED BY <1>4, <1>9, <2>4, <2>6 DEF Size
<1>15. ASSUME \A k \in 1 .. w : f[h + (a + k)] = 0 PROVE Size(f, i) = 0
  <2>1. PICK x : x = h + a
    OBVIOUS
  <2>2. x \in Nat /\ x + Width <= Len(f)
    BY <1>4, <1>5, <1>7, <1>10, <2>1
  <2>3. ASSUME NEW k \in 1 .. Width PROVE f[x + k] = 0
    <3>1. x + k = h + (a + k) /\ k \in 1 .. w
      BY <1>4, <1>5, <1>10, <2>1
    <3> QED BY <1>15, <3>1
  <2>4. NumberAt(f, x) = 0
    BY <2>2, <2>3, ZerosHeld
  <2> QED BY <1>4, <1>9, <2>1, <2>4 DEF Size
<1>16. ASSUME ~(a <= n) PROVE Size(f, i) = 0
  <2>1. ASSUME NEW k \in 1 .. w PROVE f[h + (a + k)] = 0
    <3>1. a + k \in 1 .. D /\ ~(a + k <= n)
      BY <1>5, <1>10, <1>12, <1>16
    <3> QED BY <1>7, <3>1
  <2> QED BY <1>15, <2>1
<1>17. ASSUME d[i] = <<0, 0>> PROVE Size(f, i) = 0
  <2>1. ASSUME NEW k \in 1 .. w PROVE f[h + (a + k)] = 0
    <3>1. a + k \in 1 .. D
      BY <1>5, <1>10
    <3>2. c[a + k] = 0
      <4>1. 2 * i + 2 \in 1 .. Len(ns) /\ (2 * i + 2) - 1 = 2 * i + 1
        BY <1>2, <1>4, <1>5, <1>8
      <4>2. NumbersAre(ns, c)
        BY <1>1, <1>2, NumbersInCells
      <4>3. c[((2 * i + 2) - 1) * Width + k] = Number(ns[2 * i + 2])[k]
        BY <1>4, <4>1, <4>2 DEF NumbersAre
      <4>4. ns[2 * i + 2] = 0
        BY <1>2, <1>17
      <4>5. Number(0)[k] = 0
        BY <1>4, NumberOfZero
      <4> QED BY <1>4, <1>9, <4>1, <4>3, <4>4, <4>5
    <3> QED BY <1>7, <3>1, <3>2
  <2> QED BY <1>15, <2>1
<1>18. ASSUME n = D PROVE a <= n /\ a + w <= n
  BY <1>5, <1>10, <1>18
<1> QED BY <1>4, <1>13, <1>14, <1>16, <1>17, <1>18 DEF EntryFound

-----------------------------------------------------------------------------
(* What a reader gets *)

\* What a directory entry says of a block committed or not.
Entry(f, at, b) ==
  \/ b = NoBlock /\ at = <<0, 0>>
  \/ \E metadata \in Metadata, parts \in Components :
       /\ b = [metadata |-> metadata, components |-> parts]
       /\ at[2] = Len(Block(metadata, parts))
       /\ PayloadOffset <= at[1] /\ at[1] + at[2] < Power(Base, Width)
       /\ Holds(f, at[1], Block(metadata, parts))

Indexed(f, d, b) == \A i \in Blocks : Entry(f, d[i], b[i])

\* A file whose directory was written up to its n-th cell.
FileIs(f, d, n, b) ==
  /\ f \in Seq(Nat) /\ d \in [Blocks -> Nat \X Nat] /\ n \in 0 .. DirectoryCells
  /\ Holds(f, 0, Header) /\ DirectoryUpTo(f, d, n) /\ Indexed(f, d, b)

\* The header is HeaderCells cells.
LEMMA HeaderCellsAre ==
  Header \in Seq(Nat) /\ Len(Header) = HeaderCells
<1>1. PICK h : h = HeaderCells
  OBVIOUS
<1>2. h \in Nat
  BY <1>1, Geometry
<1>3. Header = [k \in 1 .. h |-> 1]
  BY <1>1 DEF Header
<1>4. Header \in [1 .. h -> Nat]
  BY <1>3
<1>5. Header \in Seq(Nat)
  BY <1>2, <1>4, SeqDef
<1>6. PICK r : r = Header
  OBVIOUS
<1>7. r \in Seq(Nat) /\ DOMAIN r = 1 .. h
  BY <1>4, <1>5, <1>6
<1>8. Len(r) = h
  BY <1>2, <1>7
<1> QED BY <1>1, <1>5, <1>6, <1>8

\* The archive opens once its header and directory are there.
LEMMA Opens ==
  ASSUME NEW f \in Seq(Nat), Holds(f, 0, Header), PayloadOffset <= Len(f)
  PROVE  CanOpen(f)
<1>1. Header \in Seq(Nat) /\ Len(Header) = HeaderCells
  BY HeaderCellsAre
<1>2. CanRead(f, 0, HeaderCells) /\ ReadAt(f, 0, HeaderCells) = Header
  <2>1. 0 \in Nat
    OBVIOUS
  <2> QED BY <1>1, <2>1, ReadsBack
<1>3. CanRead(f, HeaderCells, DirectoryCells)
  BY DEF PayloadOffset, CanRead
<1> QED BY <1>2, <1>3 DEF CanOpen

\* The entry of a committed block, in the file.
EntryIs(f, at, metadata, parts) ==
  /\ at[1] \in Nat /\ at[2] = Len(Block(metadata, parts))
  /\ at[1] < Power(Base, Width) /\ at[2] < Power(Base, Width)
  /\ Holds(f, at[1], Block(metadata, parts))

\* An entry stands for a block, or for none.
LEMMA EntryFits ==
  ASSUME NEW f, NEW at \in Nat \X Nat, NEW b, Entry(f, at, b)
  PROVE  /\ at[1] < Power(Base, Width) /\ at[2] < Power(Base, Width)
         /\ \/ b = NoBlock /\ at = <<0, 0>>
            \/ \E metadata \in Metadata, parts \in Components :
                 /\ b = [metadata |-> metadata, components |-> parts]
                 /\ EntryIs(f, at, metadata, parts)
<1>1. PICK P : P = Power(Base, Width)
  OBVIOUS
<1>2. P \in Nat \ {0}
  <2>1. Base \in Nat \ {0} /\ Width \in Nat
    BY Geometry
  <2> QED BY <1>1, <2>1, PowerPositive
<1>3. PICK x \in Nat, y \in Nat : at = <<x, y>>
  OBVIOUS
<1>4. at[1] = x /\ at[2] = y
  BY <1>3
<1>5. CASE b = NoBlock /\ at = <<0, 0>>
  BY <1>1, <1>2, <1>5
<1>6. CASE \E metadata \in Metadata, parts \in Components :
             /\ b = [metadata |-> metadata, components |-> parts]
             /\ at[2] = Len(Block(metadata, parts))
             /\ PayloadOffset <= at[1] /\ at[1] + at[2] < Power(Base, Width)
             /\ Holds(f, at[1], Block(metadata, parts))
  <2>1. PICK metadata \in Metadata, parts \in Components :
          /\ b = [metadata |-> metadata, components |-> parts]
          /\ at[2] = Len(Block(metadata, parts))
          /\ at[1] + at[2] < Power(Base, Width)
          /\ Holds(f, at[1], Block(metadata, parts))
    BY <1>6
  <2>2. x < P /\ y < P
    BY <1>1, <1>2, <1>4, <2>1
  <2>3. EntryIs(f, at, metadata, parts)
    BY <1>1, <1>4, <2>1, <2>2 DEF EntryIs
  <2> QED BY <1>1, <1>4, <2>1, <2>2, <2>3
<1> QED BY <1>5, <1>6 DEF Entry

\* A file written up to some cell of its directory never yields a block that was
\* not committed, and yields them all once the directory is whole.
LEMMA Truthful ==
  ASSUME NEW f, NEW d, NEW n, NEW b, FileIs(f, d, n, b), NEW i \in Blocks
  PROVE  /\ Readable(f, i) => read_block_components(f, i) = b[i]
         /\ n = DirectoryCells /\ b[i] # NoBlock => Readable(f, i)
<1>1. /\ f \in Seq(Nat) /\ d \in [Blocks -> Nat \X Nat] /\ n \in 0 .. DirectoryCells
      /\ Holds(f, 0, Header) /\ DirectoryUpTo(f, d, n) /\ Entry(f, d[i], b[i])
  BY DEF FileIs, Indexed
<1>2. d[i] \in Nat \X Nat
  BY <1>1
<1>3. /\ d[i][1] < Power(Base, Width) /\ d[i][2] < Power(Base, Width)
      /\ \/ b[i] = NoBlock /\ d[i] = <<0, 0>>
         \/ \E metadata \in Metadata, parts \in Components :
              /\ b[i] = [metadata |-> metadata, components |-> parts]
              /\ EntryIs(f, d[i], metadata, parts)
  BY <1>1, <1>2, EntryFits
<1>4. EntryFound(f, d, n, i)
  BY <1>1, <1>3, EntryRead
<1>5. Readable(f, i) => Size(f, i) # 0
  BY DEF Readable, block_layout
<1>6. CASE b[i] = NoBlock /\ d[i] = <<0, 0>>
  BY <1>4, <1>5, <1>6 DEF EntryFound
<1>7. ASSUME NEW metadata \in Metadata, NEW parts \in Components,
             b[i] = [metadata |-> metadata, components |-> parts],
             EntryIs(f, d[i], metadata, parts)
      PROVE  /\ Readable(f, i) => read_block_components(f, i) = b[i]
             /\ n = DirectoryCells => Readable(f, i)
  <2>1. /\ d[i][1] \in Nat /\ d[i][2] = Len(Block(metadata, parts))
        /\ Len(Block(metadata, parts)) < Power(Base, Width)
        /\ Holds(f, d[i][1], Block(metadata, parts))
    BY <1>7 DEF EntryIs
  <2>2. ASSUME Offset(f, i) = d[i][1]
        PROVE  /\ read_block_components(f, i) = b[i]
               /\ CanOpen(f) /\ Size(f, i) = Len(Block(metadata, parts)) => Readable(f, i)
    <3>1. Offset(f, i) \in Nat /\ Holds(f, Offset(f, i), Block(metadata, parts))
      BY <2>1, <2>2
    <3> QED BY <1>1, <1>7, <2>1, <3>1, ReadsBlock
  <2>3. ASSUME Readable(f, i) PROVE read_block_components(f, i) = b[i]
    <3>1. Offset(f, i) = d[i][1]
      BY <1>4, <1>5, <2>3 DEF EntryFound
    <3> QED BY <2>2, <3>1
  <2>4. ASSUME n = DirectoryCells PROVE Readable(f, i)
    <3>1. Offset(f, i) = d[i][1] /\ Size(f, i) = d[i][2]
      BY <1>4, <2>4 DEF EntryFound
    <3>2. CanOpen(f)
      BY <1>1, Opens DEF DirectoryUpTo
    <3> QED BY <2>1, <2>2, <3>1, <3>2
  <2> QED BY <2>3, <2>4
<1> QED BY <1>3, <1>6, <1>7

\* A file that ends in the prologue, or whose directory is all zeros, holds no block.
LEMMA NothingToRead ==
  ASSUME NEW f \in Seq(Nat),
         Len(f) < PayloadOffset \/ \A k \in 1 .. DirectoryCells : f[HeaderCells + k] = 0,
         NEW i \in Blocks
  PROVE  ~Readable(f, i)
<1>1. CASE Len(f) < PayloadOffset
  <2>1. PICK h, D, l : h = HeaderCells /\ D = DirectoryCells /\ l = Len(f)
    OBVIOUS
  <2>2. h \in Nat /\ D \in Nat \ {0} /\ l \in Nat
    BY <2>1, Geometry, LenProperties
  <2>3. ~(h + D <= l) /\ D # 0
    BY <1>1, <2>1, <2>2 DEF PayloadOffset
  <2>4. ~CanRead(f, HeaderCells, DirectoryCells)
    BY <2>1, <2>3 DEF CanRead
  <2> QED BY <2>4 DEF Readable, CanOpen
<1>2. CASE ~(Len(f) < PayloadOffset) /\ \A k \in 1 .. DirectoryCells : f[HeaderCells + k] = 0
  <2>1. PICK d : d = [j \in Blocks |-> <<0, 0>>]
    OBVIOUS
  <2>2. d \in [Blocks -> Nat \X Nat] /\ d[i] = <<0, 0>> /\ d[i][1] = 0 /\ d[i][2] = 0
    BY <2>1
  <2>3. 0 \in 0 .. DirectoryCells /\ PayloadOffset <= Len(f)
    <3>1. PICK D, p, l : D = DirectoryCells /\ p = PayloadOffset /\ l = Len(f)
      OBVIOUS
    <3>2. D \in Nat /\ p \in Nat /\ l \in Nat
      BY <3>1, Geometry, LenProperties
    <3>3. 0 \in 0 .. D /\ p <= l
      BY <1>2, <3>1, <3>2
    <3> QED BY <3>1, <3>3
  <2>4. DirectoryUpTo(f, d, 0)
    <3>1. \A k \in 1 .. DirectoryCells : ~(k <= 0)
      OBVIOUS
    <3> QED BY <1>2, <2>3, <3>1 DEF DirectoryUpTo
  <2>5. 0 < Power(Base, Width)
    <3>1. Base \in Nat \ {0} /\ Width \in Nat
      BY Geometry
    <3>2. PICK P : P = Power(Base, Width)
      OBVIOUS
    <3>3. P \in Nat \ {0}
      BY <3>1, <3>2, PowerPositive
    <3> QED BY <3>2, <3>3
  <2>6. EntryFound(f, d, 0, i)
    BY <2>2, <2>3, <2>4, <2>5, EntryRead
  <2>7. Size(f, i) = 0
    BY <2>2, <2>6 DEF EntryFound
  <2> QED BY <2>7 DEF Readable, block_layout
<1> QED BY <1>1, <1>2

-----------------------------------------------------------------------------
(* Writing *)

\* Writing within a file replaces cells and leaves its length.
Within(f, s, o, r) ==
  /\ r \in Seq(Nat) /\ Len(r) = Len(f)
  /\ \A k \in 1 .. Len(f) : r[k] = IF k \in o + 1 .. o + Len(s) THEN s[k - o] ELSE f[k]

\* Overlay() writes within the file if there is room.
LEMMA OverlayWithin ==
  ASSUME NEW f \in Seq(Nat), NEW s \in Seq(Nat), NEW o \in Nat, o + Len(s) <= Len(f)
  PROVE  Within(f, s, o, Overlay(f, s, o))
<1>1. PICK l, m : l = Len(f) /\ m = Len(s)
  OBVIOUS
<1>2. l \in Nat /\ m \in Nat /\ o + m <= l
  BY <1>1, LenProperties
<1>3. \A k \in 1 .. l : f[k] \in Nat
  BY <1>1, ElementOfSeq
<1>4. \A k \in 1 .. m : s[k] \in Nat
  BY <1>1, ElementOfSeq
<1>5. PICK r : r = Overlay(f, s, o)
  OBVIOUS
<1>6. r = [k \in 1 .. l |-> IF k \in o + 1 .. o + m THEN s[k - o] ELSE f[k]]
  <2>1. ~(o + m > l)
    BY <1>2
  <2>2. (IF o + m > l THEN o + m ELSE l) = l
    BY <2>1
  <2> QED BY <1>1, <1>5, <2>2 DEF Overlay
<1>7. ASSUME NEW k \in 1 .. l
      PROVE  (IF k \in o + 1 .. o + m THEN s[k - o] ELSE f[k]) \in Nat
  <2>1. k \in o + 1 .. o + m => k - o \in 1 .. m
    BY <1>2
  <2> QED BY <1>3, <1>4, <2>1
<1>8. r \in [1 .. l -> Nat]
  BY <1>6, <1>7
<1>9. r \in Seq(Nat) /\ DOMAIN r = 1 .. l
  BY <1>2, <1>8, SeqDef
<1>10. Len(r) = l
  BY <1>2, <1>9
<1> QED BY <1>1, <1>5, <1>6, <1>9, <1>10 DEF Within

\* Writing to an empty file.
LEMMA OverlayEmpty ==
  ASSUME NEW s \in Seq(Nat)
  PROVE  Overlay(<<>>, s, 0) = s
<1>1. PICK m : m = Len(s)
  OBVIOUS
<1>2. m \in Nat /\ s \in [1 .. m -> Nat]
  BY <1>1, LenProperties
<1>3. PICK z : z = Overlay(<<>>, s, 0)
  OBVIOUS
<1>4. Len(<<>>) = 0
  OBVIOUS
<1>5. PICK e : e = IF 0 + m > 0 THEN 0 + m ELSE 0
  OBVIOUS
<1>6. e = m
  BY <1>2, <1>5
<1>7. PICK u : u = <<>>
  OBVIOUS
<1>8. z = [k \in 1 .. e |-> IF k \in 0 + 1 .. 0 + m THEN s[k - 0] ELSE u[k]]
  BY <1>1, <1>3, <1>4, <1>5, <1>7 DEF Overlay
<1>9. \A k \in 1 .. m : k \in 0 + 1 .. 0 + m /\ k - 0 = k
  BY <1>2
<1>10. z = [k \in 1 .. m |-> s[k]]
  BY <1>6, <1>8, <1>9
<1> QED BY <1>2, <1>3, <1>10

\* What lies outside the cells written stays.
LEMMA HeldOutside ==
  ASSUME NEW f, NEW s, NEW o \in Nat, NEW r, Within(f, s, o, r), Len(s) \in Nat, Len(f) \in Nat,
         NEW at \in Nat, NEW b \in Seq(Nat), Holds(f, at, b),
         at + Len(b) <= o \/ o + Len(s) <= at
  PROVE  Holds(r, at, b)
<1>1. PICK l, m, n : l = Len(f) /\ m = Len(s) /\ n = Len(b)
  OBVIOUS
<1>2. l \in Nat /\ m \in Nat /\ n \in Nat
  BY <1>1, LenProperties
<1>3. at + n <= l /\ \A k \in 1 .. n : f[at + k] = b[k]
  BY <1>1 DEF Holds
<1>4. Len(r) = l /\ \A k \in 1 .. l : r[k] = IF k \in o + 1 .. o + m THEN s[k - o] ELSE f[k]
  BY <1>1 DEF Within
<1>5. ASSUME NEW k \in 1 .. n PROVE r[at + k] = b[k]
  <2>1. at + k \in 1 .. l /\ at + k \notin o + 1 .. o + m
    BY <1>1, <1>2, <1>3
  <2> QED BY <1>3, <1>4, <2>1
<1> QED BY <1>1, <1>3, <1>4, <1>5 DEF Holds

\* What open() writes: the header and room for the directory.
Prologue == Header \o [k \in 1 .. DirectoryCells |-> 0]

\* A file that begins with the prologue has the header and an empty directory.
LEMMA PrologueIs ==
  /\ Prologue \in Seq(Nat) /\ Len(Prologue) = PayloadOffset
  /\ \A f \in Seq(Nat) : Holds(f, 0, Prologue) =>
       /\ Holds(f, 0, Header) /\ PayloadOffset <= Len(f)
       /\ \A k \in 1 .. DirectoryCells : f[HeaderCells + k] = 0
<1>1. PICK D, z : D = DirectoryCells /\ z = [k \in 1 .. D |-> 0]
  OBVIOUS
<1>2. D \in Nat
  BY <1>1, Geometry
<1>3. z \in [1 .. D -> Nat]
  BY <1>1
<1>4. z \in Seq(Nat) /\ DOMAIN z = 1 .. D
  BY <1>2, <1>3, SeqDef
<1>5. Len(z) = D
  BY <1>2, <1>4
<1>6. Header \in Seq(Nat) /\ Len(Header) = HeaderCells
  BY HeaderCellsAre
<1>7. Header \o z \in Seq(Nat) /\ Len(Header \o z) = Len(Header) + Len(z)
  BY <1>4, <1>6, ConcatProperties
<1>8. Prologue = Header \o z
  BY <1>1 DEF Prologue
<1>9. Prologue \in Seq(Nat) /\ Len(Prologue) = PayloadOffset
  BY <1>1, <1>5, <1>6, <1>7, <1>8 DEF PayloadOffset
<1>10. ASSUME NEW f \in Seq(Nat), Holds(f, 0, Prologue)
       PROVE  /\ Holds(f, 0, Header) /\ PayloadOffset <= Len(f)
              /\ \A k \in 1 .. DirectoryCells : f[HeaderCells + k] = 0
  <2>0. 0 \in Nat
    OBVIOUS
  <2>1. Holds(f, 0, Header) /\ Holds(f, 0 + Len(Header), z)
    BY <1>4, <1>6, <1>8, <1>10, <2>0, HoldsBoth
  <2>2. PayloadOffset <= Len(f)
    <3>1. 0 + Len(Prologue) <= Len(f)
      BY <1>10 DEF Holds
    <3>2. PayloadOffset \in Nat
      BY Geometry
    <3> QED BY <1>9, <3>1, <3>2
  <2>3. ASSUME NEW k \in 1 .. DirectoryCells PROVE f[HeaderCells + k] = 0
    <3>1. 0 + Len(Header) = HeaderCells
      BY <1>6, Geometry
    <3>2. z[k] = 0 /\ k \in 1 .. Len(z)
      BY <1>1, <1>5
    <3> QED BY <2>1, <3>1, <3>2 DEF Holds
  <2> QED BY <2>1, <2>2, <2>3
<1> QED BY <1>9, <1>10

\* The first n elements of a sequence.
LEMMA Cut ==
  ASSUME NEW s \in Seq(Nat), NEW n \in 0 .. Len(s)
  PROVE  /\ SubSeq(s, 1, n) \in Seq(Nat) /\ Len(SubSeq(s, 1, n)) = n
         /\ \A k \in 1 .. n : SubSeq(s, 1, n)[k] = s[k]
<1>1. n \in Nat /\ n <= Len(s) /\ Len(s) \in Nat
  BY LenProperties
<1>2. ASSUME NEW k \in 1 .. n PROVE s[k] \in Nat
  <2>1. k \in 1 .. Len(s)
    BY <1>1
  <2> QED BY <2>1, ElementOfSeq
<1>3. PICK u : u = SubSeq(s, 1, n)
  OBVIOUS
<1>4. /\ u \in Seq(Nat) /\ Len(u) = IF 1 <= n THEN n - 1 + 1 ELSE 0
      /\ \A i \in 1 .. n - 1 + 1 : u[i] = s[1 + i - 1]
  <2>1. 1 \in Int /\ n \in Int
    BY <1>1
  <2> QED BY <1>2, <1>3, <2>1, SubSeqProperties
<1>5. n - 1 + 1 = n /\ \A i \in 1 .. n : 1 + i - 1 = i
  BY <1>1
<1>6. Len(u) = n
  BY <1>1, <1>4
<1> QED BY <1>3, <1>4, <1>5, <1>6

\* Once close() has written some of the directory over the room for it.
LEMMA Patched ==
  ASSUME NEW f \in Seq(Nat), Holds(f, 0, Prologue),
         NEW d \in [Blocks -> Nat \X Nat], NEW b, Indexed(f, d, b),
         NEW t \in Seq(Nat), NEW n \in 0 .. DirectoryCells, Len(t) = n,
         \A k \in 1 .. n : t[k] = Table(d)[k]
  PROVE  FileIs(Overlay(f, t, HeaderCells), d, n, b)
<1>1. PICK h, D, l, p : h = HeaderCells /\ D = DirectoryCells /\ l = Len(f) /\ p = PayloadOffset
  OBVIOUS
<1>2. h \in Nat /\ D \in Nat /\ l \in Nat /\ n \in Nat /\ n <= D /\ p = h + D
  <2>1. h \in Nat /\ D \in Nat /\ l \in Nat
    BY <1>1, Geometry, LenProperties
  <2> QED BY <1>1, <2>1 DEF PayloadOffset
<1>3. /\ Holds(f, 0, Header) /\ p <= l
      /\ \A k \in 1 .. D : f[h + k] = 0
  BY <1>1, PrologueIs
<1>4. PICK r : r = Overlay(f, t, h)
  OBVIOUS
<1>5. Within(f, t, h, r)
  <2>1. h + Len(t) <= Len(f)
    BY <1>1, <1>2, <1>3
  <2> QED BY <1>2, <1>4, <2>1, OverlayWithin
<1>6. /\ r \in Seq(Nat) /\ Len(r) = l
      /\ \A k \in 1 .. l : r[k] = IF k \in h + 1 .. h + n THEN t[k - h] ELSE f[k]
  BY <1>1, <1>5 DEF Within
<1>7. ASSUME NEW at \in Nat, NEW s \in Seq(Nat), Holds(f, at, s), at + Len(s) <= h \/ p <= at
      PROVE  Holds(r, at, s)
  <2>1. at + Len(s) <= h \/ h + Len(t) <= at
    BY <1>2, <1>7
  <2>2. Len(t) \in Nat /\ Len(f) \in Nat
    BY <1>1, <1>2
  <2> QED BY <1>2, <1>5, <1>7, <2>1, <2>2, HeldOutside
<1>8. Holds(r, 0, Header)
  <2>1. 0 \in Nat /\ Header \in Seq(Nat) /\ 0 + Len(Header) <= h
    BY <1>1, <1>2, HeaderCellsAre
  <2> QED BY <1>3, <1>7, <2>1
<1>9. DirectoryUpTo(r, d, n)
  <2>1. ASSUME NEW k \in 1 .. D PROVE r[h + k] = IF k <= n THEN Table(d)[k] ELSE 0
    <3>1. h + k \in 1 .. l /\ (h + k) - h = k
      BY <1>2, <1>3
    <3>2. h + k \in h + 1 .. h + n <=> k <= n
      BY <1>2
    <3>3. k <= n => k \in 1 .. n
      BY <1>2
    <3> QED BY <1>3, <1>6, <3>1, <3>2, <3>3
  <2> QED BY <1>1, <1>3, <1>6, <2>1 DEF DirectoryUpTo
<1>10. ASSUME NEW i \in Blocks PROVE Entry(r, d[i], b[i])
  <2>1. Entry(f, d[i], b[i])
    BY DEF Indexed
  <2>2. CASE b[i] = NoBlock /\ d[i] = <<0, 0>>
    BY <2>2 DEF Entry
  <2>3. ASSUME NEW metadata \in Metadata, NEW parts \in Components,
               b[i] = [metadata |-> metadata, components |-> parts],
               d[i][2] = Len(Block(metadata, parts)),
               PayloadOffset <= d[i][1], d[i][1] + d[i][2] < Power(Base, Width),
               Holds(f, d[i][1], Block(metadata, parts))
        PROVE  Entry(r, d[i], b[i])
    <3>1. d[i][1] \in Nat
      <4>1. d[i] \in Nat \X Nat
        OBVIOUS
      <4> QED BY <4>1
    <3>2. Block(metadata, parts) \in Seq(Nat)
      <4>1. 0 \in Nat
        OBVIOUS
      <4> QED BY <4>1, BlockLength
    <3>3. Holds(r, d[i][1], Block(metadata, parts))
      BY <1>1, <1>7, <2>3, <3>1, <3>2
    <3> QED BY <2>3, <3>3 DEF Entry
  <2> QED BY <2>1, <2>2, <2>3 DEF Entry
<1> QED BY <1>1, <1>4, <1>6, <1>8, <1>9, <1>10 DEF FileIs, Indexed

\* What is held stays held when more is written behind it.
LEMMA HeldBefore ==
  ASSUME NEW f \in Seq(Nat), NEW g \in Seq(Nat), NEW at \in Nat, NEW s \in Seq(Nat), Holds(f, at, s)
  PROVE  Holds(f \o g, at, s)
<1>1. PICK l, m, n : l = Len(f) /\ m = Len(g) /\ n = Len(s)
  OBVIOUS
<1>2. l \in Nat /\ m \in Nat /\ n \in Nat
  BY <1>1, LenProperties
<1>3. PICK r : r = f \o g
  OBVIOUS
<1>4. r \in Seq(Nat) /\ Len(r) = l + m /\ \A i \in 1 .. l + m : r[i] = IF i <= l THEN f[i] ELSE g[i - l]
  BY <1>1, <1>3, ConcatProperties
<1>5. at + n <= l /\ \A k \in 1 .. n : f[at + k] = s[k]
  BY <1>1 DEF Holds
<1>6. ASSUME NEW k \in 1 .. n PROVE r[at + k] = s[k]
  <2>1. at + k \in 1 .. l + m /\ at + k <= l
    BY <1>2, <1>5
  <2> QED BY <1>4, <1>5, <2>1
<1>7. at + n <= Len(r)
  BY <1>2, <1>4, <1>5
<1> QED BY <1>1, <1>3, <1>6, <1>7 DEF Holds

\* A sequence ends with what was appended to it.
LEMMA HeldAtEnd ==
  ASSUME NEW f \in Seq(Nat), NEW g \in Seq(Nat)
  PROVE  /\ Holds(f \o g, Len(f), g) /\ Len(f) \in Nat
         /\ f \o g \in Seq(Nat) /\ Len(f \o g) = Len(f) + Len(g)
<1>1. PICK l, m : l = Len(f) /\ m = Len(g)
  OBVIOUS
<1>2. l \in Nat /\ m \in Nat
  BY <1>1, LenProperties
<1>3. PICK r : r = f \o g
  OBVIOUS
<1>4. r \in Seq(Nat) /\ Len(r) = l + m /\ \A i \in 1 .. l + m : r[i] = IF i <= l THEN f[i] ELSE g[i - l]
  BY <1>1, <1>3, ConcatProperties
<1>5. ASSUME NEW k \in 1 .. m PROVE r[l + k] = g[k]
  <2>1. l + k \in 1 .. l + m /\ ~(l + k <= l) /\ (l + k) - l = k
    BY <1>2
  <2> QED BY <1>4, <2>1
<1>6. l + m <= Len(r)
  BY <1>2, <1>4
<1> QED BY <1>1, <1>2, <1>3, <1>4, <1>5, <1>6 DEF Holds

-----------------------------------------------------------------------------
(* The invariant *)

\* The blocks a driver commits, and none.
BlockValues == {NoBlock} \cup [metadata : Metadata, components : Components]

TypesInv ==
  /\ pc \in {"idle", "open"} /\ dry \in BOOLEAN /\ outcome \in {"none", "died", "closed", "torn"}
  /\ file \in Seq(Nat) /\ commits \in Nat /\ reported \in Nat
  /\ directory \in [Blocks -> Nat \X Nat]
  /\ committed \in [Blocks -> BlockValues]

\* A writer starts from nothing.
FreshInv ==
  pc = "idle" => /\ directory = [i \in Blocks |-> <<0, 0>>]
                 /\ commits = 0 /\ reported = 0

\* n commits reported no more than n times the size of some block.
Room(n, sum) ==
  sum = 0 \/ \E metadata \in Metadata, parts \in Components : sum <= n * Len(Block(metadata, parts))

CursorInv ==
  pc = "open" => /\ cursor = PayloadOffset + reported
                 /\ commits <= MaxCommits /\ Room(commits, reported)

\* What stdio was given so far holds every block where the directory says.
StreamInv ==
  pc = "open" /\ ~dry =>
    /\ outcome = "none" /\ stream \in Seq(Nat) /\ Len(stream) = cursor
    /\ Holds(stream, 0, Prologue) /\ Indexed(stream, directory, committed)

\* What a run that ended left behind.
FileInv ==
  /\ outcome = "none" => file = <<>>
  /\ outcome = "died" => \/ Len(file) < PayloadOffset
                         \/ \A k \in 1 .. DirectoryCells : file[HeaderCells + k] = 0
  /\ outcome \in {"closed", "torn"} =>
       \E d, n : FileIs(file, d, n, committed) /\ (outcome = "closed" => n = DirectoryCells)

ArchiveInv == TypesInv /\ FreshInv /\ CursorInv /\ StreamInv /\ FileInv

-----------------------------------------------------------------------------
(* Sizes *)

\* One more commit needs the room of one more block.
LEMMA RoomGrows ==
  ASSUME NEW n \in Nat, NEW sum \in Nat, Room(n, sum)
  PROVE  /\ Room(n + 1, sum)
         /\ \A metadata \in Metadata, parts \in Components :
              Room(n + 1, sum + Len(Block(metadata, parts)))
<1>1. \A metadata \in Metadata, parts \in Components : Len(Block(metadata, parts)) \in Nat
  <2>1. 0 \in Nat
    OBVIOUS
  <2> QED BY <2>1, BlockLength
<1>2. ASSUME NEW a \in Metadata, NEW p \in Components, sum <= n * Len(Block(a, p))
      PROVE  /\ sum <= (n + 1) * Len(Block(a, p))
             /\ sum + Len(Block(a, p)) <= (n + 1) * Len(Block(a, p))
  <2>1. PICK l : l = Len(Block(a, p))
    OBVIOUS
  <2>2. l \in Nat
    BY <1>1, <2>1
  <2>3. (n + 1) * l = n * l + l /\ n * l \in Nat
    BY <2>2
  <2>4. sum <= n * l
    BY <1>2, <2>1
  <2>5. sum <= (n + 1) * l /\ sum + l <= (n + 1) * l
    BY <2>2, <2>3, <2>4
  <2> QED BY <2>1, <2>5
<1>3. Room(n + 1, sum)
  <2>1. CASE sum = 0
    BY <2>1 DEF Room
  <2>2. CASE \E a \in Metadata, p \in Components : sum <= n * Len(Block(a, p))
    BY <1>2, <2>2 DEF Room
  <2> QED BY <2>1, <2>2 DEF Room
<1>4. ASSUME NEW metadata \in Metadata, NEW parts \in Components
      PROVE  Room(n + 1, sum + Len(Block(metadata, parts)))
  <2>1. PICK l : l = Len(Block(metadata, parts))
    OBVIOUS
  <2>2. l \in Nat
    BY <1>1, <2>1
  <2>3. (n + 1) * l = n * l + l /\ n * l \in Nat
    BY <2>2
  <2>4. CASE sum = 0
    <3>1. sum + l <= (n + 1) * l
      BY <2>2, <2>3, <2>4
    <3> QED BY <2>1, <3>1 DEF Room
  <2>5. ASSUME NEW a \in Metadata, NEW p \in Components, sum <= n * Len(Block(a, p))
        PROVE  Room(n + 1, sum + l)
    <3>1. PICK c : c = Len(Block(a, p))
      OBVIOUS
    <3>2. c \in Nat
      BY <1>1, <3>1
    <3>3. n * c \in Nat /\ (n + 1) * c = n * c + c /\ sum <= n * c
      BY <2>5, <3>1, <3>2
    <3>4. CASE l <= c
      <4>1. sum + l <= (n + 1) * c
        BY <2>2, <3>2, <3>3, <3>4
      <4> QED BY <3>1, <4>1 DEF Room
    <3>5. CASE ~(l <= c)
      <4>1. PICK e \in Nat : l = c + e
        <5>1. l - c \in Nat /\ l = c + (l - c)
          BY <2>2, <3>2, <3>5
        <5> QED BY <5>1
      <4>2. n * l = n * c + n * e /\ n * e \in Nat
        BY <3>2, <4>1
      <4>3. sum + l <= (n + 1) * l
        BY <2>2, <2>3, <3>3, <4>2
      <4> QED BY <2>1, <4>3 DEF Room
    <3> QED BY <3>4, <3>5
  <2> QED BY <2>1, <2>4, <2>5 DEF Room
<1> QED BY <1>3, <1>4

\* The file of a run fits the numbers of the format.
LEMMA RunFits ==
  ASSUME NEW n \in Nat, NEW sum \in Nat, Room(n, sum), n <= MaxCommits, sum # 0
  PROVE  PayloadOffset + sum < Power(Base, Width)
<1>1. PICK metadata \in Metadata, parts \in Components : sum <= n * Len(Block(metadata, parts))
  BY DEF Room
<1>2. PICK l, P, p, M : /\ l = Len(Block(metadata, parts)) /\ P = Power(Base, Width)
                        /\ p = PayloadOffset /\ M = MaxCommits
  OBVIOUS
<1>3. l \in Nat /\ P \in Nat /\ p \in Nat /\ M \in Nat
  <2>1. l \in Nat
    <3>1. 0 \in Nat
      OBVIOUS
    <3> QED BY <1>2, <3>1, BlockLength
  <2>2. P \in Nat
    <3>1. Base \in Nat \ {0} /\ Width \in Nat
      BY Geometry
    <3> QED BY <1>2, <3>1, PowerPositive
  <2> QED BY <1>2, <2>1, <2>2, Geometry
<1>4. p + M * l < P
  BY <1>2, NumbersFit
<1>5. PICK e \in Nat : M = n + e
  <2>1. M - n \in Nat /\ M = n + (M - n)
    BY <1>2, <1>3
  <2> QED BY <2>1
<1>6. M * l = n * l + e * l /\ n * l \in Nat /\ e * l \in Nat
  BY <1>3, <1>5
<1>7. sum <= n * l
  BY <1>1, <1>2
<1>8. p + sum < P
  BY <1>3, <1>4, <1>6, <1>7
<1> QED BY <1>2, <1>8

\* An entry of what was written stays good when more is written behind.
LEMMA EntryKept ==
  ASSUME NEW f \in Seq(Nat), NEW g \in Seq(Nat), NEW at \in Nat \X Nat, NEW b, Entry(f, at, b)
  PROVE  Entry(f \o g, at, b)
<1>1. CASE b = NoBlock /\ at = <<0, 0>>
  BY <1>1 DEF Entry
<1>2. ASSUME NEW metadata \in Metadata, NEW parts \in Components,
             b = [metadata |-> metadata, components |-> parts],
             at[2] = Len(Block(metadata, parts)),
             PayloadOffset <= at[1], at[1] + at[2] < Power(Base, Width),
             Holds(f, at[1], Block(metadata, parts))
      PROVE  Entry(f \o g, at, b)
  <2>1. at[1] \in Nat
    OBVIOUS
  <2>2. Block(metadata, parts) \in Seq(Nat)
    <3>1. 0 \in Nat
      OBVIOUS
    <3> QED BY <3>1, BlockLength
  <2>3. Holds(f \o g, at[1], Block(metadata, parts))
    BY <1>2, <2>1, <2>2, HeldBefore
  <2> QED BY <1>2, <2>3 DEF Entry
<1> QED BY <1>1, <1>2 DEF Entry

\* begin_block() leaves nothing of an earlier block.
LEMMA Begun ==
  ASSUME NEW metadata \in Metadata, NEW parts \in Components, NEW before
  PROVE  begin_block(before) \o parts = parts
<1>1. parts \in Seq(Seq(Nat))
  BY Cells
<1> QED BY <1>1, ConcatEmptySeq DEF begin_block

-----------------------------------------------------------------------------
(* The steps *)

\* Before the first run there is no file.
LEMMA InitArchive == Init => ArchiveInv
<1> SUFFICES ASSUME Init PROVE ArchiveInv
  OBVIOUS
<1>1. TypesInv
  <2>1. file \in Seq(Nat)
    BY DEF Init
  <2>2. directory \in [Blocks -> Nat \X Nat]
    BY DEF Init
  <2>3. committed \in [Blocks -> BlockValues]
    BY DEF Init, BlockValues
  <2> QED BY <2>1, <2>2, <2>3 DEF Init, TypesInv
<1>2. FreshInv /\ CursorInv /\ StreamInv /\ FileInv
  BY DEF Init, FreshInv, CursorInv, StreamInv, FileInv
<1> QED BY <1>1, <1>2 DEF ArchiveInv

\* A file just opened: the prologue, and no block.
LEMMA OpenArchive ==
  ASSUME ArchiveInv, Open
  PROVE  ArchiveInv'
<1>1. /\ pc = "idle" /\ pc' = "open" /\ dry' \in BOOLEAN /\ cursor' = PayloadOffset
      /\ directory' = directory /\ commits' = commits /\ reported' = reported
      /\ directory = [i \in Blocks |-> <<0, 0>>] /\ commits = 0 /\ reported = 0
  BY DEF Open, ArchiveInv, FreshInv
<1>2. CursorInv'
  <2>1. PayloadOffset \in Nat /\ MaxCommits \in Nat
    BY Geometry
  <2> QED BY <1>1, <2>1 DEF CursorInv, Room
<1>3. FreshInv'
  BY <1>1 DEF FreshInv
<1>4. CASE dry'
  <2>1. file' = file /\ committed' = committed /\ outcome' = outcome
    BY <1>4 DEF Open
  <2>2. TypesInv'
    BY <1>1, <2>1 DEF ArchiveInv, TypesInv
  <2>3. StreamInv'
    BY <1>4 DEF StreamInv
  <2>4. FileInv'
    BY <2>1 DEF ArchiveInv, FileInv
  <2> QED BY <1>2, <1>3, <2>2, <2>3, <2>4 DEF ArchiveInv
<1>5. CASE ~dry'
  <2>1. /\ stream' = Prologue /\ file' = <<>> /\ outcome' = "none"
        /\ committed' = [i \in Blocks |-> NoBlock]
    BY <1>5 DEF Open, Truncated, Prologue
  <2>2. TypesInv'
    <3>1. file' \in Seq(Nat)
      BY <2>1
    <3>2. committed' \in [Blocks -> BlockValues]
      BY <2>1 DEF BlockValues
    <3> QED BY <1>1, <2>1, <3>1, <3>2 DEF ArchiveInv, TypesInv
  <2>3. StreamInv'
    <3>1. Prologue \in Seq(Nat) /\ Len(Prologue) = PayloadOffset
      BY PrologueIs
    <3>2. Holds(Prologue, 0, Prologue)
      <4>1. \A k \in 1 .. Len(Prologue) : 0 + k = k
        OBVIOUS
      <4>2. 0 + Len(Prologue) <= Len(Prologue)
        BY <3>1, Geometry
      <4> QED BY <4>1, <4>2 DEF Holds
    <3>3. Indexed(stream', directory', committed')
      <4>1. \A i \in Blocks : directory'[i] = <<0, 0>> /\ committed'[i] = NoBlock
        BY <1>1, <2>1
      <4> QED BY <4>1 DEF Indexed, Entry
    <3> QED BY <1>1, <2>1, <3>1, <3>2, <3>3 DEF StreamInv
  <2>4. FileInv'
    BY <2>1 DEF FileInv
  <2> QED BY <1>2, <1>3, <2>2, <2>3, <2>4 DEF ArchiveInv
<1> QED BY <1>4, <1>5, <1>1

\* One frame: a rejected index leaves the file alone, a good one puts the block
\* where its entry says.
LEMMA FrameArchive ==
  ASSUME ArchiveInv, NEW i \in 0 .. NumBlocks, NEW metadata \in Metadata, NEW parts \in Components,
         Frame(i, metadata, parts)
  PROVE  ArchiveInv'
<1>1. /\ pc = "open" /\ commits < MaxCommits /\ commits' = commits + 1 /\ dry' = dry
      /\ committed' = IF i \in Blocks /\ ~dry
                        THEN [committed EXCEPT ![i] = [metadata |-> metadata, components |-> parts]]
                        ELSE committed
      /\ commit_block(i, metadata, parts)
  <2>1. begin_block(components) \o parts = parts
    BY Begun
  <2> QED BY <2>1 DEF Frame
<1>2. pc' = "open" /\ file' = file /\ outcome' = outcome
  BY <1>1 DEF commit_block
<1>3. /\ cursor = PayloadOffset + reported /\ commits <= MaxCommits /\ Room(commits, reported)
      /\ commits \in Nat /\ reported \in Nat /\ MaxCommits \in Nat /\ PayloadOffset \in Nat
  BY <1>1, Geometry DEF ArchiveInv, CursorInv, TypesInv
<1>4. commits + 1 \in Nat /\ commits + 1 <= MaxCommits
  BY <1>1, <1>3
<1>5. FreshInv'
  BY <1>2 DEF FreshInv
<1>6. CASE i \notin Blocks
  <2>1. /\ stream' = stream /\ cursor' = cursor /\ directory' = directory /\ reported' = reported
        /\ committed' = committed
    BY <1>1, <1>6 DEF commit_block
  <2>2. TypesInv'
    BY <1>1, <1>2, <1>4, <2>1 DEF ArchiveInv, TypesInv
  <2>3. CursorInv'
    <3>1. Room(commits + 1, reported)
      BY <1>3, RoomGrows
    <3> QED BY <1>1, <1>2, <1>3, <1>4, <2>1, <3>1 DEF CursorInv
  <2>4. StreamInv'
    BY <1>1, <1>2, <2>1 DEF ArchiveInv, StreamInv
  <2>5. FileInv'
    BY <1>2, <2>1 DEF ArchiveInv, FileInv
  <2> QED BY <1>5, <2>2, <2>3, <2>4, <2>5 DEF ArchiveInv
<1>7. CASE i \in Blocks
  <2>1. PICK block, size : block = Block(metadata, parts) /\ size = Len(block)
    OBVIOUS
  <2>2. block \in Seq(Nat) /\ size \in Nat \ {0} /\ cursor \in Nat
    <3>1. 0 \in Nat
      OBVIOUS
    <3> QED BY <1>3, <2>1, <3>1, BlockLength
  <2>3. Layout(cursor, Len(metadata), [k \in DOMAIN parts |-> Len(parts[k])]).block_size = size
    BY <2>1, <2>2, BlockLength DEF Sizes
  <2>4. /\ stream' = IF dry THEN stream ELSE stream \o block
        /\ directory' = [directory EXCEPT ![i] = <<cursor, size>>]
        /\ cursor' = cursor + size /\ reported' = reported + size
    BY <1>1, <1>7, <2>1, <2>3 DEF commit_block
  <2>5. directory \in [Blocks -> Nat \X Nat] /\ committed \in [Blocks -> BlockValues]
    BY DEF ArchiveInv, TypesInv
  <2>6. TypesInv'
    <3>1. directory' \in [Blocks -> Nat \X Nat]
      BY <2>2, <2>4, <2>5
    <3>2. committed' \in [Blocks -> BlockValues]
      <4>1. [metadata |-> metadata, components |-> parts] \in BlockValues
        BY DEF BlockValues
      <4> QED BY <1>1, <2>5, <4>1
    <3>3. reported' \in Nat
      BY <1>3, <2>2, <2>4
    <3> QED BY <1>1, <1>2, <1>4, <3>1, <3>2, <3>3 DEF ArchiveInv, TypesInv
  <2>7. Room(commits + 1, reported + size)
    BY <1>3, <2>1, RoomGrows
  <2>8. CursorInv'
    <3>1. cursor + size = PayloadOffset + (reported + size)
      BY <1>3, <2>2
    <3> QED BY <1>1, <1>2, <1>4, <2>4, <2>7, <3>1 DEF CursorInv
  <2>9. StreamInv'
    <3> SUFFICES ASSUME ~dry PROVE StreamInv'
      BY <1>1 DEF StreamInv
    <3>1. /\ outcome = "none" /\ stream \in Seq(Nat) /\ Len(stream) = cursor
          /\ Holds(stream, 0, Prologue) /\ Indexed(stream, directory, committed)
      BY <1>1 DEF ArchiveInv, StreamInv
    <3>2. /\ Holds(stream \o block, Len(stream), block)
          /\ stream \o block \in Seq(Nat) /\ Len(stream \o block) = Len(stream) + Len(block)
      BY <2>2, <3>1, HeldAtEnd
    <3>3. Holds(stream \o block, 0, Prologue)
      <4>1. 0 \in Nat /\ Prologue \in Seq(Nat)
        BY PrologueIs
      <4> QED BY <2>2, <3>1, <4>1, HeldBefore
    <3>4. ASSUME NEW j \in Blocks PROVE Entry(stream \o block, directory'[j], committed'[j])
      <4>1. CASE j = i
        <5>1. directory'[j] = <<cursor, size>> /\ committed'[j] = [metadata |-> metadata, components |-> parts]
          BY <1>1, <1>7, <2>4, <2>5, <4>1
        <5>2. PICK at : at = <<cursor, size>>
          OBVIOUS
        <5>3. at[1] = cursor /\ at[2] = size
          BY <5>2
        <5>4. cursor + size < Power(Base, Width)
          <6>1. reported + size \in Nat /\ reported + size # 0
            BY <1>3, <2>2
          <6>2. PayloadOffset + (reported + size) < Power(Base, Width)
            BY <1>4, <2>7, <6>1, RunFits
          <6>3. cursor + size = PayloadOffset + (reported + size)
            BY <1>3, <2>2
          <6> QED BY <6>2, <6>3
        <5>5. PayloadOffset <= cursor
          BY <1>3
        <5>6. Entry(stream \o block, at, committed'[j])
          BY <2>1, <3>1, <3>2, <5>1, <5>3, <5>4, <5>5 DEF Entry
        <5> QED BY <5>1, <5>2, <5>6
      <4>2. CASE j # i
        <5>1. directory'[j] = directory[j] /\ committed'[j] = committed[j]
          BY <1>1, <2>4, <2>5, <4>2
        <5>2. Entry(stream, directory[j], committed[j])
          BY <3>1 DEF Indexed
        <5>3. directory[j] \in Nat \X Nat
          BY <2>5
        <5>4. Entry(stream \o block, directory[j], committed[j])
          BY <2>2, <3>1, <5>2, <5>3, EntryKept
        <5> QED BY <5>1, <5>4
      <4> QED BY <4>1, <4>2
    <3>5. stream' = stream \o block /\ cursor' = Len(stream \o block) /\ outcome' = "none"
      BY <1>2, <2>1, <2>4, <3>1, <3>2
    <3>6. Indexed(stream', directory', committed')
      BY <3>4, <3>5 DEF Indexed
    <3>7. Holds(stream', 0, Prologue) /\ stream' \in Seq(Nat) /\ Len(stream') = cursor'
      BY <3>2, <3>3, <3>5
    <3> QED BY <3>5, <3>6, <3>7 DEF StreamInv
  <2>10. FileInv'
    <3>1. CASE dry
      <4>1. committed' = committed
        BY <1>1, <3>1
      <4> QED BY <1>2, <4>1 DEF ArchiveInv, FileInv
    <3>2. CASE ~dry
      <4>1. outcome = "none"
        BY <1>1, <3>2 DEF ArchiveInv, StreamInv
      <4> QED BY <1>2, <4>1 DEF ArchiveInv, FileInv
    <3> QED BY <3>1, <3>2
  <2> QED BY <1>5, <2>6, <2>8, <2>9, <2>10 DEF ArchiveInv
<1> QED BY <1>6, <1>7

\* A dead writer leaves a file that ends in the prologue, or one whose directory
\* is the zeros it reserved.
LEMMA CrashArchive ==
  ASSUME ArchiveInv, Crash
  PROVE  ArchiveInv'
<1>1. /\ outcome = "none" /\ stream \in Seq(Nat) /\ Holds(stream, 0, Prologue) /\ file = <<>>
  BY DEF ArchiveInv, StreamInv, FileInv, Crash
<1>2. PICK s \in Seq(Nat) : Holds(s, 0, Prologue) /\ Dies(s, "died")
  <2>1. CASE Dies(stream, "died")
    BY <1>1, <2>1
  <2>2. ASSUME NEW metadata \in Metadata, NEW parts \in Components,
               Dies(stream \o Front(Block(metadata, parts)), "died")
        PROVE  \E s \in Seq(Nat) : Holds(s, 0, Prologue) /\ Dies(s, "died")
    <3>1. PICK b, l : b = Block(metadata, parts) /\ l = Len(b)
      OBVIOUS
    <3>2. b \in Seq(Nat) /\ l \in Nat \ {0}
      <4>1. 0 \in Nat
        OBVIOUS
      <4> QED BY <3>1, <4>1, BlockLength
    <3>3. PICK g : g = Front(b)
      OBVIOUS
    <3>4. g \in Seq(Nat)
      <4>1. l - 1 \in 0 .. Len(b)
        BY <3>1, <3>2
      <4>2. SubSeq(b, 1, l - 1) \in Seq(Nat)
        BY <3>2, <4>1, Cut
      <4> QED BY <3>1, <3>3, <4>2 DEF Front
    <3>5. stream \o g \in Seq(Nat)
      BY <1>1, <3>4, HeldAtEnd
    <3>6. Holds(stream \o g, 0, Prologue)
      <4>1. 0 \in Nat /\ Prologue \in Seq(Nat)
        BY PrologueIs
      <4> QED BY <1>1, <3>4, <4>1, HeldBefore
    <3>7. Dies(stream \o g, "died")
      BY <2>2, <3>1, <3>3
    <3> QED BY <3>5, <3>6, <3>7
  <2> QED BY <2>1, <2>2 DEF Crash
<1>3. PICK n \in 0 .. Len(s) : file' = Overlay(file, SubSeq(s, 1, n), 0)
  BY <1>2 DEF Dies
<1>4. outcome' = "died" /\ committed' = committed /\ Destroyed
  BY <1>2 DEF Dies
<1>5. PICK t : t = SubSeq(s, 1, n)
  OBVIOUS
<1>6. t \in Seq(Nat) /\ Len(t) = n /\ \A k \in 1 .. n : t[k] = s[k]
  BY <1>5, Cut
<1>7. file' = t
  BY <1>1, <1>3, <1>5, <1>6, OverlayEmpty
<1>8. TypesInv'
  <2>1. directory' \in [Blocks -> Nat \X Nat]
    BY <1>4 DEF Destroyed
  <2> QED BY <1>4, <1>6, <1>7, <2>1 DEF Destroyed, ArchiveInv, TypesInv
<1>9. FreshInv' /\ CursorInv' /\ StreamInv'
  BY <1>4 DEF Destroyed, FreshInv, CursorInv, StreamInv
<1>10. FileInv'
  <2>1. CASE Len(t) < PayloadOffset
    BY <1>4, <1>7, <2>1 DEF FileInv
  <2>2. CASE ~(Len(t) < PayloadOffset)
    <3>1. \A k \in 1 .. DirectoryCells : s[HeaderCells + k] = 0
      BY <1>2, PrologueIs
    <3>2. ASSUME NEW k \in 1 .. DirectoryCells PROVE t[HeaderCells + k] = 0
      <4>1. PICK h, D, p : h = HeaderCells /\ D = DirectoryCells /\ p = PayloadOffset
        OBVIOUS
      <4>2. h \in Nat /\ D \in Nat /\ p = h + D
        <5>1. h \in Nat /\ D \in Nat
          BY <4>1, Geometry
        <5> QED BY <4>1, <5>1 DEF PayloadOffset
      <4>3. n \in Nat /\ p <= n
        <5>1. n \in Nat
          BY <1>2, LenProperties
        <5> QED BY <1>6, <2>2, <4>1, <4>2, <5>1
      <4>4. h + k \in 1 .. n
        BY <4>1, <4>2, <4>3
      <4> QED BY <1>6, <3>1, <4>1, <4>4
    <3> QED BY <1>4, <1>7, <3>2 DEF FileInv
  <2> QED BY <2>1, <2>2
<1> QED BY <1>8, <1>9, <1>10 DEF ArchiveInv

\* close() leaves the directory it kept, or the beginning of it, over the zeros.
LEMMA CloseArchive ==
  ASSUME ArchiveInv, Close
  PROVE  ArchiveInv'
<1>1. pc = "open" /\ Destroyed /\ committed' = committed
  BY DEF Close
<1>2. FreshInv' /\ CursorInv' /\ StreamInv'
  BY <1>1 DEF Destroyed, FreshInv, CursorInv, StreamInv
<1>3. directory' \in [Blocks -> Nat \X Nat]
  BY <1>1 DEF Destroyed
<1>4. CASE dry
  <2>1. file' = file /\ outcome' = outcome
    BY <1>4 DEF Close
  <2>2. TypesInv'
    BY <1>1, <1>3, <2>1 DEF Destroyed, ArchiveInv, TypesInv
  <2>3. FileInv'
    BY <1>1, <2>1 DEF ArchiveInv, FileInv
  <2> QED BY <1>2, <2>2, <2>3 DEF ArchiveInv
<1>5. CASE ~dry
  <2>1. /\ outcome = "none" /\ stream \in Seq(Nat) /\ file = <<>>
        /\ Holds(stream, 0, Prologue) /\ Indexed(stream, directory, committed)
        /\ directory \in [Blocks -> Nat \X Nat]
    BY <1>1, <1>5 DEF ArchiveInv, StreamInv, FileInv, TypesInv
  <2>2. Overlay(file, stream, 0) = stream
    BY <2>1, OverlayEmpty
  <2>3. PICK T : T = Table(directory)
    OBVIOUS
  <2>4. T \in Seq(Nat) /\ Len(T) = DirectoryCells /\ DirectoryTable = T
    <3>1. T \in Seq(Nat) /\ Len(T) = DirectoryCells
      BY <2>1, <2>3, TableCells
    <3> QED BY <2>3, <3>1 DEF DirectoryTable, Table, Entries
  <2>5. DirectoryCells \in Nat /\ DirectoryCells \in 0 .. DirectoryCells
    <3>1. DirectoryCells \in Nat
      BY Geometry
    <3> QED BY <3>1
  <2>6. ASSUME NEW n \in 0 .. DirectoryCells, NEW t \in Seq(Nat), Len(t) = n,
               \A k \in 1 .. n : t[k] = T[k]
        PROVE  FileIs(Overlay(stream, t, HeaderCells), directory, n, committed)
    BY <2>1, <2>3, <2>6, Patched
  <2>7. ASSUME NEW n \in 0 .. DirectoryCells, NEW how \in {"closed", "torn"},
               how = "closed" => n = DirectoryCells,
               FileIs(file', directory, n, committed), outcome' = how
        PROVE  TypesInv' /\ FileInv'
    <3>1. file' \in Seq(Nat)
      BY <2>7 DEF FileIs
    <3>2. TypesInv'
      BY <1>1, <1>3, <2>7, <3>1 DEF Destroyed, ArchiveInv, TypesInv
    <3>3. \E d, m : FileIs(file', d, m, committed') /\ (outcome' = "closed" => m = DirectoryCells)
      BY <1>1, <2>7
    <3>4. outcome' # "none" /\ outcome' # "died"
      BY <2>7
    <3>5. FileInv'
      BY <3>3, <3>4 DEF FileInv
    <3> QED BY <3>2, <3>5
  <2>8. CASE file' = Overlay(Overlay(file, stream, 0), DirectoryTable, PatchOffset) /\ outcome' = "closed"
    <3>1. FileIs(Overlay(stream, T, HeaderCells), directory, DirectoryCells, committed)
      BY <2>4, <2>5, <2>6
    <3>2. FileIs(file', directory, DirectoryCells, committed)
      BY <2>2, <2>4, <2>8, <3>1 DEF PatchOffset
    <3> QED BY <1>2, <2>5, <2>7, <2>8, <3>2 DEF ArchiveInv
  <2>9. ASSUME NEW n \in 0 .. Len(DirectoryTable),
               file' = Overlay(Overlay(file, stream, 0), SubSeq(DirectoryTable, 1, n), PatchOffset),
               outcome' = "torn"
        PROVE  ArchiveInv'
    <3>1. PICK t : t = SubSeq(T, 1, n)
      OBVIOUS
    <3>2. n \in 0 .. Len(T) /\ n \in 0 .. DirectoryCells
      BY <2>4
    <3>3. t \in Seq(Nat) /\ Len(t) = n /\ \A k \in 1 .. n : t[k] = T[k]
      BY <2>4, <3>1, <3>2, Cut
    <3>4. FileIs(Overlay(stream, t, HeaderCells), directory, n, committed)
      BY <2>6, <3>2, <3>3
    <3>5. FileIs(file', directory, n, committed)
      BY <2>2, <2>4, <2>9, <3>1, <3>4 DEF PatchOffset
    <3> QED BY <1>2, <2>7, <2>9, <3>2, <3>5 DEF ArchiveInv
  <2>10. \/ file' = Overlay(Overlay(file, stream, 0), DirectoryTable, PatchOffset) /\ outcome' = "closed"
         \/ /\ \E n \in 0 .. Len(DirectoryTable) :
                 file' = Overlay(Overlay(file, stream, 0), SubSeq(DirectoryTable, 1, n), PatchOffset)
            /\ outcome' = "torn"
    BY <1>5 DEF Close
  <2> QED BY <2>8, <2>9, <2>10
<1> QED BY <1>4, <1>5

\* Every step keeps the invariant.
LEMMA NextArchive ==
  ASSUME ArchiveInv, [Next]_vars
  PROVE  ArchiveInv'
<1>1. CASE Open
  BY <1>1, OpenArchive
<1>2. ASSUME NEW i \in 0 .. NumBlocks, NEW metadata \in Metadata, NEW parts \in Components,
             Frame(i, metadata, parts)
      PROVE  ArchiveInv'
  BY <1>2, FrameArchive
<1>3. CASE Crash
  BY <1>3, CrashArchive
<1>4. CASE Close
  BY <1>4, CloseArchive
<1>5. CASE UNCHANGED vars
  BY <1>5 DEF vars, writer, ArchiveInv, TypesInv, FreshInv, CursorInv, StreamInv, FileInv
<1> QED BY <1>1, <1>2, <1>3, <1>4, <1>5 DEF Next

-----------------------------------------------------------------------------
(* The theorems *)

\* Whatever the writer did, and however its run ended, the file holds what the
\* invariant says.
THEOREM ArchiveInvariant == Spec => []ArchiveInv
<1>1. Init => ArchiveInv
  BY InitArchive
<1>2. ArchiveInv /\ [Next]_vars => ArchiveInv'
  BY NextArchive
<1> QED BY <1>1, <1>2, PTL DEF Spec

\* A reader is given the blocks that were committed, or refused.
THEOREM ArchiveReaderNeverLies == Spec => []ReaderNeverLies
<1>1. ArchiveInv => ReaderNeverLies
  <2> SUFFICES ASSUME ArchiveInv, NEW i \in Blocks, Readable(file, i)
               PROVE  read_block_components(file, i) = committed[i]
    BY DEF ReaderNeverLies
  <2>1. file \in Seq(Nat) /\ outcome \in {"none", "died", "closed", "torn"} /\ FileInv
    BY DEF ArchiveInv, TypesInv
  <2>2. CASE outcome = "none"
    <3>1. file = <<>> /\ Len(<<>>) = 0
      BY <2>1, <2>2 DEF FileInv
    <3>2. Len(file) < PayloadOffset
      BY <3>1, Geometry
    <3> QED BY <2>1, <3>2, NothingToRead
  <2>3. CASE outcome = "died"
    <3>1. Len(file) < PayloadOffset \/ \A k \in 1 .. DirectoryCells : file[HeaderCells + k] = 0
      BY <2>1, <2>3 DEF FileInv
    <3> QED BY <2>1, <3>1, NothingToRead
  <2>4. CASE outcome \in {"closed", "torn"}
    <3>1. PICK d, n : FileIs(file, d, n, committed)
      BY <2>1, <2>4 DEF FileInv
    <3> QED BY <3>1, Truthful
  <2> QED BY <2>1, <2>2, <2>3, <2>4
<1> QED BY <1>1, ArchiveInvariant, PTL

\* After close() has returned true every committed block can be read.
THEOREM ArchiveCloseCompletes == Spec => []CloseCompletes
<1>1. ArchiveInv => CloseCompletes
  <2> SUFFICES ASSUME ArchiveInv, outcome = "closed", NEW i \in Blocks, committed[i] # NoBlock
               PROVE  Readable(file, i)
    BY DEF CloseCompletes
  <2>1. PICK d, n : FileIs(file, d, n, committed) /\ n = DirectoryCells
    BY DEF ArchiveInv, FileInv
  <2> QED BY <2>1, Truthful
<1> QED BY <1>1, ArchiveInvariant, PTL

\* A run that died before close() left no block to find.
THEOREM ArchiveUnclosedIsEmpty == Spec => []UnclosedIsEmpty
<1>1. ArchiveInv => UnclosedIsEmpty
  <2> SUFFICES ASSUME ArchiveInv, outcome = "died", NEW i \in Blocks PROVE ~Readable(file, i)
    BY DEF UnclosedIsEmpty
  <2>1. file \in Seq(Nat) /\ FileInv
    BY DEF ArchiveInv, TypesInv
  <2>2. Len(file) < PayloadOffset \/ \A k \in 1 .. DirectoryCells : file[HeaderCells + k] = 0
    BY <2>1 DEF FileInv
  <2> QED BY <2>1, <2>2, NothingToRead
<1> QED BY <1>1, ArchiveInvariant, PTL

\* The sizes commit_block() reports add up to what was written.
THEOREM ArchiveSizesExact == Spec => []SizesExact
<1>1. ArchiveInv => SizesExact
  BY DEF ArchiveInv, CursorInv, StreamInv, SizesExact
<1> QED BY <1>1, ArchiveInvariant, PTL
===============================================================================
