------------------------- MODULE ParallelDriversProofs -------------------------
(***************************************************************************)
(* Proofs about the parallel programs, for any number of ranks, arrays,    *)
(* tolerances and variables.                                               *)
(***************************************************************************)
EXTENDS ParallelDrivers, OperatorLemmas

-----------------------------------------------------------------------------
(* The steps of a program that are of some kind *)

Only(kind, step) == IF step \in kind THEN <<step>> ELSE <<>>
Marks(kind, p)   == [k \in 1 .. Len(p) |-> Only(kind, p[k])]

\* Those among the first k steps, and among all.
UpTo(kind, p, k) == FlattenSeq(Prefix(Marks(kind, p), k))
Of(kind, p)      == FlattenSeq(Marks(kind, p))

\* They are gathered step by step.
Gathers(S, kind, p) ==
  /\ UpTo(kind, p, 0) = <<>>
  /\ \A k \in 0 .. Len(p) : UpTo(kind, p, k) \in Seq(S)
  /\ \A k \in 0 .. Len(p) - 1 :
       UpTo(kind, p, k + 1) = IF p[k + 1] \in kind THEN Append(UpTo(kind, p, k), p[k + 1])
                              ELSE UpTo(kind, p, k)
  /\ UpTo(kind, p, Len(p)) = Of(kind, p)

\* A step of the kind comes at the end of those before it, another adds nothing.
LEMMA UpToStep ==
  ASSUME NEW S, NEW kind, NEW p \in Seq(S)
  PROVE  Gathers(S, kind, p)
<1> DEFINE n == Len(p)
           f == Marks(kind, p)
           F(k) == FlattenSeq(Prefix(f, k))
<1>1. n \in Nat /\ \A k \in 1 .. n : p[k] \in S
  BY LenProperties, ElementOfSeq
<1>2. \A k \in 1 .. n : f[k] = Only(kind, p[k])
  BY DEF Marks
<1>3. \A k \in 1 .. n : f[k] \in Seq(S)
  <2> SUFFICES ASSUME NEW k \in 1 .. n PROVE Only(kind, p[k]) \in Seq(S)
    BY <1>2
  <2>1. PICK e \in S : e = p[k]
    BY <1>1
  <2>2. <<>> \in Seq(S)
    BY EmptySeq
  <2>3. <<e>> \in Seq(S)
    OBVIOUS
  <2> QED BY <2>1, <2>2, <2>3, Zenon DEF Only
<1>4. f = Prefix(f, n)
  BY <1>2 DEF Marks, Prefix
<1> HIDE DEF n, f
<1>5. /\ F(0) = <<>>
      /\ \A k \in 0 .. n : F(k) \in Seq(S)
      /\ \A k \in 0 .. n - 1 : F(k + 1) = F(k) \o f[k + 1]
  <2>1. Grows(S, n, f)
    BY <1>1, <1>3, FlattenPrefix, Zenon
  <2> QED BY <2>1, Zenon DEF Grows
<1>6. \A k : UpTo(kind, p, k) = F(k)
  BY DEF UpTo, f
<1> HIDE DEF F
<1>7. ASSUME NEW k \in 0 .. n - 1
      PROVE  F(k + 1) = IF p[k + 1] \in kind THEN Append(F(k), p[k + 1]) ELSE F(k)
  <2>1. k + 1 \in 1 .. n /\ k \in 0 .. n
    BY <1>1
  <2>2. F(k) \in Seq(S) /\ p[k + 1] \in S /\ F(k + 1) = F(k) \o Only(kind, p[k + 1])
    BY <1>1, <1>2, <1>5, <2>1
  <2>3. F(k) \o <<>> = F(k)
    BY <2>2, ConcatEmptySeq
  <2>4. F(k) \o <<p[k + 1]>> = Append(F(k), p[k + 1])
    BY <2>2
  <2> QED BY <2>2, <2>3, <2>4 DEF Only
<1>8. F(n) = Of(kind, p)
  BY <1>4 DEF F, Of, f
<1> QED BY <1>5, <1>6, <1>7, <1>8 DEF n, Gathers

\* Those among the first steps are the first of all.
LEMMA UpToIsPrefix ==
  ASSUME NEW S, NEW kind, NEW p \in Seq(S), NEW k \in 0 .. Len(p)
  PROVE  /\ UpTo(kind, p, k) \in Seq(S) /\ Of(kind, p) \in Seq(S)
         /\ Len(UpTo(kind, p, k)) <= Len(Of(kind, p))
         /\ \A i \in 1 .. Len(UpTo(kind, p, k)) : UpTo(kind, p, k)[i] = Of(kind, p)[i]
<1> DEFINE n == Len(p)
           F(j) == UpTo(kind, p, j)
           Good(d) == /\ Len(F(k)) <= Len(F(k + d))
                      /\ \A i \in 1 .. Len(F(k)) : F(k)[i] = F(k + d)[i]
           N == {d \in Nat : k + d <= n => Good(d)}
<1>1. /\ n \in Nat /\ \A i \in 1 .. n : p[i] \in S
      /\ \A j \in 0 .. n : F(j) \in Seq(S)
      /\ \A j \in 0 .. n - 1 :
           F(j + 1) = IF p[j + 1] \in kind THEN Append(F(j), p[j + 1]) ELSE F(j)
      /\ F(n) = Of(kind, p)
  <2>1. Gathers(S, kind, p)
    BY UpToStep, Zenon
  <2>2. n \in Nat /\ \A i \in 1 .. n : p[i] \in S
    BY LenProperties, ElementOfSeq
  <2> QED BY <2>1, <2>2 DEF Gathers
<1>2. \A j \in 0 .. n : Len(F(j)) \in Nat
  BY <1>1, LenProperties
<1> HIDE DEF n, F
<1>3. 0 \in N
  <2>1. k + 0 = k /\ k \in 0 .. n
    BY <1>1 DEF n
  <2> QED BY <1>2, <2>1
<1>4. ASSUME NEW d \in Nat, d \in N PROVE d + 1 \in N
  <2> SUFFICES ASSUME k + (d + 1) <= n PROVE Good(d + 1)
    OBVIOUS
  <2>1. PICK j : j = k + d
    OBVIOUS
  <2>2. j \in 0 .. n - 1 /\ j \in 0 .. n /\ j <= n /\ j + 1 = k + (d + 1) /\ j + 1 \in 1 .. n /\ k \in 0 .. n
    BY <1>1, <2>1 DEF n
  <2>3. Len(F(k)) <= Len(F(j)) /\ \A i \in 1 .. Len(F(k)) : F(k)[i] = F(j)[i]
    BY <1>4, <2>1, <2>2
  <2>4. F(j) \in Seq(S) /\ F(k) \in Seq(S) /\ p[j + 1] \in S
        /\ Len(F(j)) \in Nat /\ Len(F(k)) \in Nat
    BY <1>1, <1>2, <2>2
  <2>5. CASE p[j + 1] \notin kind
    <3>1. F(j + 1) = F(j)
      BY <1>1, <2>2, <2>5
    <3> QED BY <2>2, <2>3, <3>1
  <2>6. CASE p[j + 1] \in kind
    <3>1. F(j + 1) = Append(F(j), p[j + 1])
      BY <1>1, <2>2, <2>6
    <3>2. Len(F(j + 1)) = Len(F(j)) + 1 /\ \A i \in 1 .. Len(F(j)) : F(j + 1)[i] = F(j)[i]
      <4>1. PICK t, e : t = F(j) /\ e = p[j + 1]
        OBVIOUS
      <4>2. t \in Seq(S) /\ e \in S
        BY <2>4, <4>1
      <4>3. Len(Append(t, e)) = Len(t) + 1 /\ \A i \in 1 .. Len(t) : Append(t, e)[i] = t[i]
        BY <4>2, AppendProperties
      <4> QED BY <3>1, <4>1, <4>3, Zenon
    <3>3. Len(F(k)) <= Len(F(j + 1)) /\ \A i \in 1 .. Len(F(k)) : i \in 1 .. Len(F(j))
      BY <2>3, <2>4, <3>2
    <3> QED BY <2>2, <2>3, <3>2, <3>3
  <2> QED BY <2>5, <2>6
<1> HIDE DEF N
<1>5. Nat \subseteq N
  BY <1>3, <1>4, SetInduction
<1>6. n - k \in Nat /\ k + (n - k) = n /\ n <= n /\ k \in 0 .. n /\ n \in 0 .. n
  BY <1>1 DEF n
<1>7. Good(n - k)
  BY <1>5, <1>6 DEF N
<1> QED BY <1>1, <1>6, <1>7 DEF F

\* It does not matter which two are put together first.
Associates(a, b, c) == (a \o b) \o c = a \o (b \o c)

\* It does for all sequences.
LEMMA AssociatesConcat ==
  ASSUME NEW S, NEW a \in Seq(S), NEW b \in Seq(S), NEW c \in Seq(S)
  PROVE  Associates(a, b, c)
BY ConcatAssociative DEF Associates

\* One program after another.
LEMMA UpToConcat ==
  ASSUME NEW S, NEW kind, NEW p \in Seq(S), NEW q \in Seq(S)
  PROVE  /\ p \o q \in Seq(S) /\ Len(p \o q) = Len(p) + Len(q)
         /\ \A k \in 0 .. Len(p) : UpTo(kind, p \o q, k) = UpTo(kind, p, k)
         /\ \A k \in 0 .. Len(q) :
              UpTo(kind, p \o q, Len(p) + k) = Of(kind, p) \o UpTo(kind, q, k)
         /\ Of(kind, p \o q) = Of(kind, p) \o Of(kind, q)
         /\ Of(kind, p) \in Seq(S)
<1> DEFINE m == Len(p)
           n == Len(q)
           pq == p \o q
           F(k) == UpTo(kind, pq, k)
           G(k) == UpTo(kind, q, k)
           P(k) == UpTo(kind, p, k)
<1>1. m \in Nat /\ n \in Nat /\ pq \in Seq(S) /\ Len(pq) = m + n
      /\ (\A k \in 1 .. m : pq[k] = p[k]) /\ (\A k \in 1 .. n : pq[m + k] = q[k])
      /\ \A k \in 1 .. n : q[k] \in S
  <2>1. m \in Nat /\ n \in Nat
    BY LenProperties
  <2>2. \A k \in 1 .. n : m + k \in 1 .. m + n /\ ~(m + k <= m) /\ (m + k) - m = k
    BY <2>1
  <2>3. \A k \in 1 .. m : k \in 1 .. m + n /\ k <= m
    BY <2>1
  <2> QED BY <2>1, <2>2, <2>3, ConcatProperties, ElementOfSeq
<1>2. /\ P(0) = <<>>
      /\ \A k \in 0 .. m : P(k) \in Seq(S)
      /\ \A k \in 0 .. m - 1 : P(k + 1) = IF p[k + 1] \in kind THEN Append(P(k), p[k + 1]) ELSE P(k)
      /\ P(m) = Of(kind, p)
  <2>1. Gathers(S, kind, p)
    BY UpToStep, Zenon
  <2> QED BY <2>1 DEF Gathers
<1>3. /\ G(0) = <<>>
      /\ \A k \in 0 .. n : G(k) \in Seq(S)
      /\ \A k \in 0 .. n - 1 : G(k + 1) = IF q[k + 1] \in kind THEN Append(G(k), q[k + 1]) ELSE G(k)
      /\ G(n) = Of(kind, q)
  <2>1. Gathers(S, kind, q)
    BY UpToStep, Zenon
  <2> QED BY <2>1 DEF Gathers
<1>4. /\ F(0) = <<>>
      /\ \A k \in 0 .. m + n : F(k) \in Seq(S)
      /\ \A k \in 0 .. (m + n) - 1 :
           F(k + 1) = IF pq[k + 1] \in kind THEN Append(F(k), pq[k + 1]) ELSE F(k)
      /\ F(m + n) = Of(kind, pq)
  <2> HIDE DEF pq, m, n
  <2>1. pq \in Seq(S) /\ Len(pq) = m + n
    BY <1>1
  <2>2. Gathers(S, kind, pq)
    BY <2>1, UpToStep, Zenon
  <2> QED BY <2>1, <2>2 DEF Gathers
<1> HIDE DEF m, n, pq, F, G, P
<1> DEFINE N == {k \in Nat : k <= m => F(k) = P(k)}
           M == {k \in Nat : k <= n => F(m + k) = Of(kind, p) \o G(k)}
<1>5. Nat \subseteq N
  <2>1. 0 \in N
    BY <1>2, <1>4
  <2>2. ASSUME NEW k \in Nat, k \in N PROVE k + 1 \in N
    <3> SUFFICES ASSUME k + 1 <= m PROVE F(k + 1) = P(k + 1)
      OBVIOUS
    <3>1. k \in 0 .. m - 1 /\ k \in 0 .. (m + n) - 1 /\ k + 1 \in 1 .. m /\ k <= m
      BY <1>1
    <3>2. F(k) = P(k) /\ pq[k + 1] = p[k + 1]
      BY <1>1, <2>2, <3>1
    <3> QED BY <1>2, <1>4, <3>1, <3>2
  <2> HIDE DEF N
  <2> QED BY <2>1, <2>2, SetInduction
<1>6. F(m) = Of(kind, p) /\ Of(kind, p) \in Seq(S)
  <2>1. m \in N /\ m <= m /\ m \in 0 .. m
    BY <1>1, <1>5
  <2> QED BY <1>2, <2>1
<1>7. Nat \subseteq M
  <2>1. 0 \in M
    <3>1. m + 0 = m
      BY <1>1
    <3>2. Of(kind, p) \o <<>> = Of(kind, p)
      BY <1>6, ConcatEmptySeq
    <3> QED BY <1>3, <1>6, <3>1, <3>2
  <2>2. ASSUME NEW k \in Nat, k \in M PROVE k + 1 \in M
    <3> SUFFICES ASSUME k + 1 <= n PROVE F(m + (k + 1)) = Of(kind, p) \o G(k + 1)
      OBVIOUS
    <3>1. k \in 0 .. n - 1 /\ k \in 0 .. n /\ m + k \in 0 .. (m + n) - 1
          /\ m + (k + 1) = (m + k) + 1 /\ k + 1 \in 1 .. n /\ k <= n
      BY <1>1
    <3>2. F(m + k) = Of(kind, p) \o G(k) /\ pq[(m + k) + 1] = q[k + 1] /\ q[k + 1] \in S
      <4>1. F(m + k) = Of(kind, p) \o G(k)
        BY <2>2, <3>1
      <4>2. pq[m + (k + 1)] = q[k + 1] /\ q[k + 1] \in S
        BY <1>1, <3>1
      <4> QED BY <3>1, <4>1, <4>2
    <3>3. F((m + k) + 1) = IF q[k + 1] \in kind THEN Append(F(m + k), q[k + 1]) ELSE F(m + k)
      BY <1>4, <3>1, <3>2
    <3>4. G(k) \in Seq(S)
          /\ G(k + 1) = IF q[k + 1] \in kind THEN Append(G(k), q[k + 1]) ELSE G(k)
      BY <1>3, <3>1
    <3>5. Append(Of(kind, p) \o G(k), q[k + 1]) = Of(kind, p) \o Append(G(k), q[k + 1])
      <4>1. PICK a, b, e : a = Of(kind, p) /\ b = G(k) /\ e = q[k + 1]
        OBVIOUS
      <4>2. a \in Seq(S) /\ b \in Seq(S) /\ e \in S
        BY <1>6, <3>2, <3>4, <4>1
      <4>3. PICK c, ab : c = <<e>> /\ ab = a \o b
        OBVIOUS
      <4>4. c \in Seq(S) /\ ab \in Seq(S)
        BY <4>2, <4>3, ConcatProperties
      <4>5. (a \o b) \o c = a \o (b \o c)
        <5>1. Associates(a, b, c)
          BY <4>2, <4>4, AssociatesConcat, Zenon
        <5> QED BY <5>1, Zenon DEF Associates
      <4>6. b \o c = Append(b, e)
        BY <4>2, <4>3
      <4>7. ab \o c = Append(ab, e)
        BY <4>2, <4>3, <4>4
      <4> QED BY <4>1, <4>3, <4>5, <4>6, <4>7
    <3> QED BY <3>1, <3>2, <3>3, <3>4, <3>5
  <2> HIDE DEF M
  <2> QED BY <2>1, <2>2, SetInduction
<1>8. n \in M /\ n <= n
  BY <1>1, <1>7
<1>9. F(m + n) = Of(kind, p) \o Of(kind, q)
  BY <1>3, <1>8
<1>10. \A k \in 0 .. m : F(k) = P(k)
  <2>1. \A k \in 0 .. m : k \in Nat /\ k <= m
    BY <1>1
  <2> QED BY <1>5, <2>1
<1>11. \A k \in 0 .. n : F(m + k) = Of(kind, p) \o G(k)
  <2>1. \A k \in 0 .. n : k \in Nat /\ k <= n
    BY <1>1
  <2> QED BY <1>7, <2>1
<1> QED BY <1>1, <1>4, <1>6, <1>9, <1>10, <1>11 DEF pq, m, n, F, P, G

\* The steps of a kind of two programs, one after another.
Adds(S, kind, p, q) ==
  /\ p \o q \in Seq(S) /\ Of(kind, p) \in Seq(S)
  /\ Of(kind, p \o q) = Of(kind, p) \o Of(kind, q)

\* They add up.
LEMMA OfConcat ==
  ASSUME NEW S, NEW kind, NEW p \in Seq(S), NEW q \in Seq(S)
  PROVE  Adds(S, kind, p, q)
<1>1. /\ p \o q \in Seq(S) /\ Len(p \o q) = Len(p) + Len(q)
      /\ \A k \in 0 .. Len(p) : UpTo(kind, p \o q, k) = UpTo(kind, p, k)
      /\ \A k \in 0 .. Len(q) :
           UpTo(kind, p \o q, Len(p) + k) = Of(kind, p) \o UpTo(kind, q, k)
      /\ Of(kind, p \o q) = Of(kind, p) \o Of(kind, q)
      /\ Of(kind, p) \in Seq(S)
  BY UpToConcat, Zenon
<1> QED BY <1>1 DEF Adds

\* A program has no steps of a kind when none of them is of the kind.
LEMMA OfNone ==
  ASSUME NEW S, NEW kind, NEW p \in Seq(S)
  PROVE  /\ Of(kind, p) = <<>> <=> \A k \in 1 .. Len(p) : p[k] \notin kind
         /\ Of(kind, p) = <<>> => \A k \in 0 .. Len(p) : UpTo(kind, p, k) = <<>>
<1> DEFINE n == Len(p)
           F(j) == UpTo(kind, p, j)
<1>1. /\ n \in Nat
      /\ F(0) = <<>>
      /\ \A j \in 0 .. n : F(j) \in Seq(S)
      /\ \A j \in 0 .. n - 1 :
           F(j + 1) = IF p[j + 1] \in kind THEN Append(F(j), p[j + 1]) ELSE F(j)
      /\ F(n) = Of(kind, p)
  <2>1. Gathers(S, kind, p)
    BY UpToStep, Zenon
  <2> QED BY <2>1, LenProperties DEF Gathers
<1>2. ASSUME Of(kind, p) = <<>>, NEW k \in 0 .. n PROVE F(k) = <<>>
  <2>1. F(k) \in Seq(S) /\ Len(F(k)) <= Len(Of(kind, p))
    BY UpToIsPrefix
  <2>2. Len(F(k)) = 0
    BY <1>2, <2>1, EmptySeq, LenProperties
  <2> HIDE DEF F
  <2> QED BY <2>1, <2>2, EmptySeq
<1>3. ASSUME Of(kind, p) = <<>>, NEW k \in 1 .. n PROVE p[k] \notin kind
  <2>1. k - 1 \in 0 .. n - 1 /\ (k - 1) + 1 = k /\ k - 1 \in 0 .. n /\ k \in 0 .. n
    BY <1>1
  <2>2. F(k) = <<>> /\ F(k - 1) = <<>>
    BY <1>2, <1>3, <2>1
  <2>3. F(k) = IF p[k] \in kind THEN Append(F(k - 1), p[k]) ELSE F(k - 1)
    <3> HIDE DEF F
    <3> QED BY <1>1, <2>1
  <2>4. p[k] \in S
    BY <1>3, ElementOfSeq
  <2>5. ASSUME NEW e \in S PROVE Append(<<>>, e) # <<>>
    <3>1. <<>> \in Seq(S)
      BY EmptySeq
    <3>2. Len(Append(<<>>, e)) = Len(<<>>) + 1
      BY <3>1, AppendProperties
    <3> QED BY <3>2, EmptySeq
  <2> HIDE DEF F
  <2> QED BY <2>2, <2>3, <2>4, <2>5
<1> HIDE DEF n, F
<1>4. ASSUME \A k \in 1 .. n : p[k] \notin kind PROVE F(n) = <<>>
  <2> DEFINE N == {k \in Nat : k <= n => F(k) = <<>>}
  <2>1. 0 \in N
    BY <1>1
  <2>2. ASSUME NEW k \in Nat, k \in N PROVE k + 1 \in N
    <3> SUFFICES ASSUME k + 1 <= n PROVE F(k + 1) = <<>>
      OBVIOUS
    <3>1. k \in 0 .. n - 1 /\ k + 1 \in 1 .. n /\ k <= n
      BY <1>1
    <3> QED BY <1>1, <1>4, <2>2, <3>1
  <2> HIDE DEF N
  <2>3. Nat \subseteq N
    BY <2>1, <2>2, SetInduction
  <2>4. n \in N /\ n <= n
    BY <1>1, <2>3
  <2> QED BY <2>4 DEF N
<1> QED BY <1>1, <1>2, <1>3, <1>4 DEF n, F

\* A program whose last step alone is of the kind.
LEMMA OfLast ==
  ASSUME NEW S, NEW kind, NEW p \in Seq(S), Len(p) > 0,
         \A k \in 1 .. Len(p) - 1 : p[k] \notin kind, p[Len(p)] \in kind
  PROVE  Len(Of(kind, p)) = 1
<1> DEFINE n == Len(p)
           F(j) == UpTo(kind, p, j)
<1>1. /\ n \in Nat \ {0}
      /\ F(0) = <<>>
      /\ \A j \in 0 .. n - 1 :
           F(j + 1) = IF p[j + 1] \in kind THEN Append(F(j), p[j + 1]) ELSE F(j)
      /\ F(n) = Of(kind, p)
      /\ \A k \in 1 .. n - 1 : p[k] \notin kind
      /\ p[n] \in kind /\ p[n] \in S
  <2>1. Gathers(S, kind, p)
    BY UpToStep, Zenon
  <2>2. n \in Nat \ {0} /\ n \in 1 .. n
    BY LenProperties
  <2>3. p[n] \in S
    BY <2>2, ElementOfSeq
  <2> QED BY <2>1, <2>2, <2>3 DEF Gathers
<1> HIDE DEF n, F
<1> DEFINE N == {k \in Nat : k <= n - 1 => F(k) = <<>>}
<1>2. 0 \in N
  BY <1>1
<1>3. ASSUME NEW k \in Nat, k \in N PROVE k + 1 \in N
  <2> SUFFICES ASSUME k + 1 <= n - 1 PROVE F(k + 1) = <<>>
    OBVIOUS
  <2>1. k \in 0 .. n - 1 /\ k + 1 \in 1 .. n - 1 /\ k <= n - 1
    BY <1>1
  <2> QED BY <1>1, <1>3, <2>1
<1> HIDE DEF N
<1>4. Nat \subseteq N
  BY <1>2, <1>3, SetInduction
<1>5. n - 1 \in Nat /\ n - 1 \in 0 .. n - 1 /\ (n - 1) + 1 = n
  BY <1>1
<1>6. F(n - 1) = <<>>
  BY <1>4, <1>5 DEF N
<1>7. F(n) = Append(<<>>, p[n])
  BY <1>1, <1>5, <1>6
<1>8. Len(Append(<<>>, p[n])) = Len(<<>>) + 1
  <2>1. <<>> \in Seq(S) /\ Len(<<>>) = 0
    BY EmptySeq
  <2> QED BY <1>1, <2>1, AppendProperties
<1>9. Len(<<>>) = 0
  BY EmptySeq
<1> QED BY <1>1, <1>7, <1>8, <1>9

-----------------------------------------------------------------------------
(* Repeated programs *)

\* One time more is once more at the end.
LEMMA TimesStep ==
  ASSUME NEW S, NEW p \in Seq(S)
  PROVE  /\ Times(0, p) = <<>>
         /\ \A n \in Nat : Times(n, p) \in Seq(S) /\ Times(n + 1, p) = Times(n, p) \o p
<1>1. ASSUME NEW n \in Nat
      PROVE  /\ Times(0, p) = <<>>
             /\ Times(n, p) \in Seq(S) /\ Times(n + 1, p) = Times(n, p) \o p
  <2> DEFINE f == [k \in 1 .. n + 1 |-> p]
  <2>1. \A k \in 1 .. n + 1 : f[k] = p
    OBVIOUS
  <2>2. \A k \in 0 .. n + 1 : Prefix(f, k) = [i \in 1 .. k |-> p]
    BY DEF Prefix
  <2> HIDE DEF f
  <2>3. \A k \in 0 .. n + 1 : FlattenSeq(Prefix(f, k)) = Times(k, p)
    BY <2>2, Zenon DEF Times
  <2>4. n + 1 \in Nat /\ \A k \in 1 .. n + 1 : f[k] \in Seq(S)
    BY <2>1
  <2>5. /\ FlattenSeq(Prefix(f, 0)) = <<>>
        /\ \A k \in 0 .. n + 1 : FlattenSeq(Prefix(f, k)) \in Seq(S)
        /\ \A k \in 0 .. (n + 1) - 1 :
             FlattenSeq(Prefix(f, k + 1)) = FlattenSeq(Prefix(f, k)) \o f[k + 1]
    <3>1. Grows(S, n + 1, f)
      BY <2>4, FlattenPrefix, Zenon
    <3> QED BY <3>1, Zenon DEF Grows
  <2>6. 0 \in 0 .. n + 1 /\ n \in 0 .. n + 1 /\ n + 1 \in 0 .. n + 1
        /\ n \in 0 .. (n + 1) - 1 /\ n + 1 \in 1 .. n + 1
    OBVIOUS
  <2> QED BY <2>1, <2>3, <2>5, <2>6
<1> QED BY <1>1

\* Repeated programs have as many steps of a kind as their parts, one after another.
Multiplies(S, kind, p, n) ==
  /\ Times(n, p) \in Seq(S)
  /\ Len(Of(kind, Times(n, p))) = n * Len(Of(kind, p))
  /\ Of(kind, p) = <<>> => Of(kind, Times(n, p)) = <<>>

\* What a program has of a kind is multiplied when it is repeated.
LEMMA OfTimes ==
  ASSUME NEW S, NEW kind, NEW p \in Seq(S), NEW n \in Nat
  PROVE  Multiplies(S, kind, p, n)
<1> DEFINE T(k) == Times(k, p)
           o == Of(kind, p)
           N == {k \in Nat : /\ Len(Of(kind, T(k))) = k * Len(o)
                             /\ o = <<>> => Of(kind, T(k)) = <<>>}
<1>1. T(0) = <<>> /\ \A k \in Nat : T(k) \in Seq(S) /\ T(k + 1) = T(k) \o p
  BY TimesStep
<1>2. o \in Seq(S) /\ Len(o) \in Nat
  <2>1. o \in Seq(S)
    BY UpToConcat
  <2> QED BY <2>1, LenProperties
<1> HIDE DEF T, o
<1>3. <<>> \in Seq(S) /\ Len(<<>>) = 0
  BY EmptySeq
<1>4. 0 \in N
  <2>1. Of(kind, <<>>) = <<>>
    <3>1. \A k \in 1 .. Len(<<>>) : <<>>[k] \notin kind
      BY <1>3
    <3> QED BY <1>3, <3>1, OfNone
  <2>2. Of(kind, T(0)) = <<>> /\ 0 * Len(o) = 0
    BY <1>1, <1>2, <2>1
  <2> QED BY <1>3, <2>2
<1>5. ASSUME NEW k \in Nat, k \in N PROVE k + 1 \in N
  <2>1. PICK t : t = T(k)
    OBVIOUS
  <2>2. t \in Seq(S) /\ T(k + 1) = t \o p
    BY <1>1, <2>1
  <2>a. t \in Seq(S)
    BY <2>2
  <2>3. Adds(S, kind, t, p)
    BY <2>a, OfConcat, Zenon
  <2>4. PICK a : a = Of(kind, t)
    OBVIOUS
  <2>5. Of(kind, T(k + 1)) = a \o o /\ a \in Seq(S) /\ Len(a) = k * Len(o) /\ (o = <<>> => a = <<>>)
    BY <1>5, <2>1, <2>2, <2>3, <2>4 DEF o, Adds
  <2>6. Len(a \o o) = Len(a) + Len(o)
    BY <1>2, <2>5, ConcatProperties
  <2>7. a = <<>> /\ o = <<>> => a \o o = <<>>
    BY <1>3, ConcatEmptySeq
  <2>8. (k + 1) * Len(o) = k * Len(o) + Len(o)
    BY <1>2
  <2>9. Len(Of(kind, T(k + 1))) = (k + 1) * Len(o)
    BY <2>5, <2>6, <2>8
  <2>10. o = <<>> => Of(kind, T(k + 1)) = <<>>
    BY <2>5, <2>7
  <2> QED BY <2>9, <2>10
<1> HIDE DEF N
<1>6. Nat \subseteq N
  BY <1>4, <1>5, SetInduction
<1>7. n \in N
  BY <1>6
<1>8. Len(Of(kind, T(n))) = n * Len(o) /\ (o = <<>> => Of(kind, T(n)) = <<>>)
  BY <1>7 DEF N
<1> QED BY <1>1, <1>8 DEF T, o, Multiplies

\* Two programs with the same steps of a kind.
Same(kind, p, q) == Of(kind, p) = Of(kind, q)

\* Repeated, they have the same again.
LEMMA TimesAlike ==
  ASSUME NEW S, NEW kind, NEW p \in Seq(S), NEW q \in Seq(S), Same(kind, p, q),
         NEW n \in Nat
  PROVE  Same(kind, Times(n, p), Times(n, q))
<1>0. Of(kind, p) = Of(kind, q)
  BY DEF Same
<1> DEFINE N == {k \in Nat : Of(kind, Times(k, p)) = Of(kind, Times(k, q))}
<1>1. /\ Times(0, p) = <<>> /\ Times(0, q) = <<>>
      /\ \A k \in Nat : Times(k, p) \in Seq(S) /\ Times(k + 1, p) = Times(k, p) \o p
      /\ \A k \in Nat : Times(k, q) \in Seq(S) /\ Times(k + 1, q) = Times(k, q) \o q
  BY TimesStep
<1>2. 0 \in N
  BY <1>1
<1>3. ASSUME NEW k \in Nat, k \in N PROVE k + 1 \in N
  <2>1. PICK t, u : t = Times(k, p) /\ u = Times(k, q)
    OBVIOUS
  <2>2. t \in Seq(S) /\ u \in Seq(S) /\ Of(kind, t) = Of(kind, u)
        /\ Times(k + 1, p) = t \o p /\ Times(k + 1, q) = u \o q
    BY <1>1, <1>3, <2>1
  <2>a. t \in Seq(S)
    BY <2>2
  <2>3. Adds(S, kind, t, p)
    BY <2>a, OfConcat, Zenon
  <2>b. u \in Seq(S)
    BY <2>2
  <2>4. Adds(S, kind, u, q)
    BY <2>b, OfConcat, Zenon
  <2>5. /\ Of(kind, t \o p) = Of(kind, t) \o Of(kind, p)
        /\ Of(kind, u \o q) = Of(kind, u) \o Of(kind, q)
    BY <2>3, <2>4 DEF Adds
  <2>6. Of(kind, Times(k + 1, p)) = Of(kind, Times(k + 1, q))
    BY <1>0, <2>2, <2>5, Zenon
  <2> QED BY <2>6
<1> HIDE DEF N
<1>4. n \in N
  BY <1>2, <1>3, SetInduction
<1> QED BY <1>4 DEF N, Same

\* A program that ends with a collective.
Ends(p) == p # <<>> /\ p[Len(p)] \in Collectives

\* What comes last decides how a program ends.
LEMMA EndsConcat ==
  ASSUME NEW S, NEW p \in Seq(S), NEW q \in Seq(S), Ends(q)
  PROVE  Ends(p \o q)
<1>1. /\ p \o q \in Seq(S) /\ Len(p \o q) = Len(p) + Len(q)
      /\ \A i \in 1 .. Len(p) + Len(q) : (p \o q)[i] =
           IF i <= Len(p) THEN p[i] ELSE q[i - Len(p)]
  BY ConcatProperties
<1>2. PICK m, n, pq : m = Len(p) /\ n = Len(q) /\ pq = p \o q
  OBVIOUS
<1>3. m \in Nat /\ n \in Nat \ {0}
  BY <1>2, EmptySeq, LenProperties DEF Ends
<1>4. m + n \in 1 .. m + n /\ ~(m + n <= m) /\ (m + n) - m = n
  BY <1>3
<1>5. pq[m + n] = q[n] /\ Len(pq) = m + n
  BY <1>1, <1>2, <1>4
<1>6. pq # <<>>
  BY <1>3, <1>5, EmptySeq
<1> QED BY <1>2, <1>5, <1>6 DEF Ends

\* A program that ends with a collective still does when it is repeated.
LEMMA EndsTimes ==
  ASSUME NEW S, NEW p \in Seq(S), Ends(p), NEW n \in Nat \ {0}
  PROVE  Ends(Times(n, p))
<1>1. n - 1 \in Nat /\ (n - 1) + 1 = n
  OBVIOUS
<1>2. Times(n - 1, p) \in Seq(S) /\ Times(n, p) = Times(n - 1, p) \o p
  BY <1>1, TimesStep
<1> QED BY <1>2, EndsConcat

-----------------------------------------------------------------------------
(* What the programs have in common *)

Names == Collectives \cup CanFail \cup Records \cup {"scan", "pack", "recv", "send", "write"}

\* The steps that may find a rank's own extremes, the collectives that bind every
\* rank, and the programs that determine value ranges.
Measures  == {"scan", "read"}
Syncs     == Collectives \ {"reduce"}
Measuring == {"refactor", "array_refactor", "array_reconstruct", "qoi_refactor", "PT", "Vtot"}
Mode(d)   == IF d \in Measuring THEN "ranges" ELSE "none"

\* Before an array is recorded there is a step of the kind, and none to stop at since.
Fenced(kind, stop, p) ==
  \A k \in 1 .. Len(p) : p[k] \in Records =>
    \E i \in 1 .. k - 1 : p[i] \in kind /\ \A j \in i + 1 .. k - 1 : p[j] \notin stop

\* The ranks meet before each array is recorded; the last they reduce are then the
\* extremes of what they have measured, or nothing is measured at all.
Orderly(mode, p) ==
  /\ Fenced(Syncs, Records, p)
  /\ mode = "ranges" => /\ Fenced({"min"}, Records \cup Measures \cup {"min"}, p)
                         /\ Fenced({"max"}, Records \cup Measures \cup {"max"}, p)
  /\ mode = "none" => \A k \in 1 .. Len(p) : p[k] # "scan"

\* One program after another keeps its fences.
LEMMA FencedConcat ==
  ASSUME NEW S, NEW p \in Seq(S), NEW q \in Seq(S), NEW kind, NEW stop,
         Fenced(kind, stop, p), Fenced(kind, stop, q)
  PROVE  Fenced(kind, stop, p \o q)
<1> DEFINE m == Len(p)
           n == Len(q)
           pq == p \o q
<1>1. /\ m \in Nat /\ n \in Nat /\ Len(pq) = m + n
      /\ \A i \in 1 .. m + n : pq[i] = IF i <= m THEN p[i] ELSE q[i - m]
  BY LenProperties, ConcatProperties
<1>2. \A k \in 1 .. m : p[k] \in Records =>
        \E i \in 1 .. k - 1 : p[i] \in kind /\ \A j \in i + 1 .. k - 1 : p[j] \notin stop
  BY DEF Fenced
<1>3. \A k \in 1 .. n : q[k] \in Records =>
        \E i \in 1 .. k - 1 : q[i] \in kind /\ \A j \in i + 1 .. k - 1 : q[j] \notin stop
  BY DEF Fenced
<1> HIDE DEF m, n, pq
<1>4. ASSUME NEW k \in 1 .. m + n, pq[k] \in Records
      PROVE  \E i \in 1 .. k - 1 : pq[i] \in kind /\ \A j \in i + 1 .. k - 1 : pq[j] \notin stop
  <2>1. CASE k <= m
    <3>1. k \in 1 .. m /\ p[k] \in Records
      BY <1>1, <1>4, <2>1
    <3>2. PICK i \in 1 .. k - 1 : p[i] \in kind /\ \A j \in i + 1 .. k - 1 : p[j] \notin stop
      BY <1>2, <3>1
    <3>3. \A j \in 1 .. k - 1 : j \in 1 .. m + n /\ j <= m
      BY <1>1, <2>1
    <3>4. \A j \in i + 1 .. k - 1 : j \in 1 .. k - 1
      BY <3>2
    <3> QED BY <1>1, <3>2, <3>3, <3>4
  <2>2. CASE ~(k <= m)
    <3>1. PICK l \in 1 .. n : k = m + l
      <4>1. k - m \in 1 .. n /\ k = m + (k - m)
        BY <1>1, <2>2
      <4> QED BY <4>1
    <3>2. \A j \in 1 .. n : m + j \in 1 .. m + n /\ ~(m + j <= m) /\ (m + j) - m = j
      BY <1>1
    <3>3. \A j \in 1 .. n : pq[m + j] = q[j]
      BY <1>1, <3>2
    <3>4. PICK h \in 1 .. l - 1 : q[h] \in kind /\ \A j \in h + 1 .. l - 1 : q[j] \notin stop
      BY <1>3, <1>4, <3>1, <3>3
    <3>5. m + h \in 1 .. k - 1 /\ h \in 1 .. n
      BY <1>1, <3>1, <3>4
    <3>6. ASSUME NEW j \in (m + h) + 1 .. k - 1 PROVE pq[j] \notin stop
      <4>1. j - m \in h + 1 .. l - 1 /\ j - m \in 1 .. n /\ m + (j - m) = j
        BY <1>1, <3>1, <3>4
      <4> QED BY <3>3, <3>4, <4>1
    <3> QED BY <3>3, <3>4, <3>5, <3>6
  <2> QED BY <2>1, <2>2
<1> QED BY <1>1, <1>4 DEF Fenced, pq

\* Programs without arrays need no fences.
LEMMA OrderlyNone ==
  ASSUME NEW p \in Seq(Names), Of(Records, p) = <<>>
  PROVE  Orderly("ranges", p)
<1>1. \A k \in 1 .. Len(p) : p[k] \notin Records
  BY OfNone
<1> QED BY <1>1 DEF Orderly, Fenced

\* Orderly programs one after another,
LEMMA OrderlyConcat ==
  ASSUME NEW v, NEW p \in Seq(Names), NEW q \in Seq(Names),
         Orderly(v, p), Orderly(v, q)
  PROVE  Orderly(v, p \o q)
<1>1. Fenced(Syncs, Records, p \o q)
  BY FencedConcat DEF Orderly
<1>2. v = "ranges" => /\ Fenced({"min"}, Records \cup Measures \cup {"min"}, p \o q)
                      /\ Fenced({"max"}, Records \cup Measures \cup {"max"}, p \o q)
  BY FencedConcat DEF Orderly
<1>3. ASSUME v = "none", NEW k \in 1 .. Len(p \o q) PROVE (p \o q)[k] # "scan"
  <2>1. (\A i \in 1 .. Len(p) : p[i] # "scan") /\ \A i \in 1 .. Len(q) : q[i] # "scan"
    BY <1>3 DEF Orderly
  <2>2. /\ Len(p) \in Nat /\ Len(q) \in Nat /\ Len(p \o q) = Len(p) + Len(q)
        /\ \A i \in 1 .. Len(p) + Len(q) :
             (p \o q)[i] = IF i <= Len(p) THEN p[i] ELSE q[i - Len(p)]
    BY LenProperties, ConcatProperties
  <2>3. k \in 1 .. Len(p) + Len(q) /\ (k <= Len(p) => k \in 1 .. Len(p))
        /\ (~(k <= Len(p)) => k - Len(p) \in 1 .. Len(q))
    BY <1>3, <2>2
  <2> QED BY <2>1, <2>2, <2>3
<1> QED BY <1>1, <1>2, <1>3 DEF Orderly

\* and repeated.
LEMMA OrderlyTimes ==
  ASSUME NEW v, NEW p \in Seq(Names), Orderly(v, p), NEW n \in Nat
  PROVE  Orderly(v, Times(n, p))
<1> DEFINE N == {k \in Nat : Orderly(v, Times(k, p))}
<1>1. Times(0, p) = <<>> /\ \A k \in Nat : Times(k, p) \in Seq(Names) /\ Times(k + 1, p) = Times(k, p) \o p
  BY TimesStep
<1>2. 0 \in N
  <2>1. Len(<<>>) = 0 /\ \A k : k \notin 1 .. 0
    BY EmptySeq
  <2> QED BY <1>1, <2>1 DEF Orderly, Fenced
<1>3. ASSUME NEW k \in Nat, k \in N PROVE k + 1 \in N
  <2>1. PICK t : t = Times(k, p)
    OBVIOUS
  <2>2. t \in Seq(Names)
    BY <1>1, <2>1
  <2>3. Orderly(v, t)
    BY <1>3, <2>1
  <2>4. Orderly(v, t \o p)
    BY <2>2, <2>3, OrderlyConcat
  <2>5. Times(k + 1, p) = t \o p
    BY <1>1, <2>1
  <2>6. Orderly(v, Times(k + 1, p))
    BY <2>4, <2>5, Zenon
  <2> QED BY <2>6
<1> HIDE DEF N
<1>4. Nat \subseteq N
  BY <1>2, <1>3, SetInduction
<1> QED BY <1>4 DEF N

\* A program whose arrays, n of them, are all recorded before its first reduction.
Reports(p, n) ==
  /\ p \in Seq(Names)
  /\ Len(Of(Records, p)) = n
  /\ \A k \in 1 .. Len(p) : p[k] = "reduce" => Len(UpTo(Records, p, k)) = n
  /\ Of({"reduce"}, p) # <<>>

\* Steps that record nothing and reduce nothing.
Silent(p) == p \in Seq(Names) /\ Of(Records, p) = <<>> /\ Of({"reduce"}, p) = <<>>

\* Steps that lead to the report.
Prepares(v, p, n) ==
  /\ p \in Seq(Names) /\ Len(Of(Records, p)) = n /\ Of({"reduce"}, p) = <<>>
  /\ Orderly(v, p)

\* Empty sequences are neutral and no others add up to one.
LEMMA ConcatEmpty ==
  ASSUME NEW S, NEW a \in Seq(S), NEW b \in Seq(S)
  PROVE  /\ a \o <<>> = a /\ <<>> \o b = b
         /\ a \o b = <<>> <=> a = <<>> /\ b = <<>>
         /\ Len(a \o b) = Len(a) + Len(b)
BY ConcatEmptySeq, ConcatEqualIffEmpty, ConcatProperties

\* Silent steps and steps that prepare make up steps that prepare.
LEMMA PreparesConcat ==
  ASSUME NEW v, NEW m \in Nat, NEW n \in Nat, NEW p, NEW q,
         Prepares(v, p, m), Prepares(v, q, n)
  PROVE  Prepares(v, p \o q, m + n)
<1>1. p \in Seq(Names) /\ q \in Seq(Names)
  BY DEF Prepares
<1>2. /\ Adds(Names, Records, p, q) /\ Adds(Names, {"reduce"}, p, q)
      /\ Adds(Names, Records, q, p) /\ Adds(Names, {"reduce"}, q, p)
  BY <1>1, OfConcat, Zenon
<1>3. PICK a, b, c, d : /\ a = Of(Records, p) /\ b = Of(Records, q)
                        /\ c = Of({"reduce"}, p) /\ d = Of({"reduce"}, q)
  OBVIOUS
<1>4. /\ a \in Seq(Names) /\ b \in Seq(Names) /\ c \in Seq(Names) /\ d \in Seq(Names)
      /\ Of(Records, p \o q) = a \o b /\ Of({"reduce"}, p \o q) = c \o d
      /\ p \o q \in Seq(Names)
  BY <1>2, <1>3, Zenon DEF Adds
<1>5. Len(a) = m /\ Len(b) = n /\ c = <<>> /\ d = <<>>
  BY <1>3 DEF Prepares
<1>6. Len(a \o b) = Len(a) + Len(b)
  BY <1>4, ConcatProperties
<1>7. c \o d = <<>>
  BY <1>4, <1>5, ConcatEmptySeq
<1>8. Orderly(v, p \o q)
  <2>1. Orderly(v, p) /\ Orderly(v, q)
    BY DEF Prepares
  <2> QED BY <1>1, <2>1, OrderlyConcat
<1> QED BY <1>4, <1>5, <1>6, <1>7, <1>8 DEF Prepares

\* Repeated preparations.
LEMMA PreparesTimes ==
  ASSUME NEW v, NEW m \in Nat, NEW n \in Nat, NEW p, Prepares(v, p, m)
  PROVE  Prepares(v, Times(n, p), n * m)
<1>1. p \in Seq(Names)
  BY DEF Prepares
<1>2. Multiplies(Names, Records, p, n) /\ Multiplies(Names, {"reduce"}, p, n)
  BY <1>1, OfTimes, Zenon
<1>3. Orderly(v, Times(n, p))
  <2>1. Orderly(v, p)
    BY DEF Prepares
  <2> QED BY <1>1, <2>1, OrderlyTimes
<1> QED BY <1>2, <1>3 DEF Prepares, Multiplies

\* The reductions of a report, after all it needs.
LEMMA ReportsReduce ==
  ASSUME NEW v, NEW n \in Nat, NEW p, Prepares(v, p, n),
         NEW q \in Seq({"reduce"}), q # <<>>
  PROVE  Reports(p \o q, n) /\ Ends(q) /\ Orderly(v, p \o q)
<1> DEFINE pq == p \o q
           l == Len(p)
           e == Len(q)
<1>1. p \in Seq(Names) /\ Len(Of(Records, p)) = n /\ Of({"reduce"}, p) = <<>>
  BY DEF Prepares
<1>2. e \in Nat \ {0} /\ l \in Nat /\ \A k \in 1 .. e : q[k] = "reduce"
  BY <1>1, EmptySeq, LenProperties, ElementOfSeq
<1>3. q \in Seq(Names)
  <2>1. {"reduce"} \subseteq Names
    BY DEF Names, Collectives
  <2> QED BY <2>1, SeqMonotonic
<1>4. Ends(q)
  <2>1. q[e] = "reduce"
    BY <1>2
  <2> QED BY <2>1 DEF Ends, Collectives
<1>5. Of(Records, q) = <<>> /\ \A k \in 0 .. e : UpTo(Records, q, k) = <<>>
  <2>1. "reduce" \notin Records
    BY DEF Records
  <2>2. \A k \in 1 .. Len(q) : q[k] \notin Records
    BY <1>2, <2>1
  <2> QED BY <1>3, <2>2, OfNone
<1>6. Of({"reduce"}, q) # <<>>
  <2>1. e \in 1 .. Len(q) /\ q[e] \in {"reduce"}
    BY <1>2
  <2> QED BY <1>3, <2>1, OfNone
<1>7. Adds(Names, Records, p, q) /\ Adds(Names, {"reduce"}, p, q) /\ Adds(Names, {"reduce"}, q, p)
  BY <1>1, <1>3, OfConcat, Zenon
<1>8. /\ pq \in Seq(Names) /\ Len(pq) = l + e
      /\ \A k \in 0 .. e : UpTo(Records, pq, l + k) = Of(Records, p) \o UpTo(Records, q, k)
      /\ Of(Records, p) \in Seq(Names)
  <2>1. /\ p \o q \in Seq(Names) /\ Len(p \o q) = Len(p) + Len(q)
        /\ \A k \in 0 .. Len(p) : UpTo(Records, p \o q, k) = UpTo(Records, p, k)
        /\ \A k \in 0 .. Len(q) :
             UpTo(Records, p \o q, Len(p) + k) = Of(Records, p) \o UpTo(Records, q, k)
        /\ Of(Records, p \o q) = Of(Records, p) \o Of(Records, q)
        /\ Of(Records, p) \in Seq(Names)
    BY <1>1, <1>3, UpToConcat, Zenon
  <2> QED BY <2>1
<1>9. Len(Of(Records, pq)) = n
  <2>1. PICK a : a = Of(Records, p)
    OBVIOUS
  <2>2. Of(Records, pq) = a \o <<>> /\ a \in Seq(Names) /\ Len(a) = n
    BY <1>1, <1>5, <1>7, <2>1 DEF Adds
  <2>3. a \o <<>> = a
    BY <2>2, ConcatEmptySeq
  <2> QED BY <2>2, <2>3
<1>10. Of({"reduce"}, pq) # <<>>
  <2>1. PICK a : a = Of({"reduce"}, q)
    OBVIOUS
  <2>2. Of({"reduce"}, pq) = <<>> \o a /\ a \in Seq(Names)
    BY <1>1, <1>7, <2>1, Zenon DEF Adds
  <2>3. <<>> \o a = a
    BY <2>2, ConcatEmptySeq
  <2> QED BY <1>6, <2>1, <2>2, <2>3
<1>11. ASSUME NEW k \in 1 .. Len(pq), pq[k] = "reduce" PROVE Len(UpTo(Records, pq, k)) = n
  <2>1. k > l
    <3> SUFFICES ASSUME ~(k > l) PROVE FALSE
      OBVIOUS
    <3>1. k \in 1 .. l /\ k <= l /\ k \in 1 .. l + e
      BY <1>2, <1>8
    <3>2. pq[k] = p[k]
      BY <1>1, <1>3, <3>1, ConcatProperties
    <3>3. \A j \in 1 .. Len(p) : p[j] \notin {"reduce"}
      BY <1>1, OfNone
    <3> QED BY <1>11, <3>1, <3>2, <3>3
  <2>2. k - l \in 0 .. e /\ l + (k - l) = k
    BY <1>2, <1>8, <2>1
  <2>3. UpTo(Records, pq, k) = Of(Records, p) \o <<>>
    BY <1>5, <1>8, <2>2
  <2>4. Of(Records, p) \o <<>> = Of(Records, p)
    BY <1>8, ConcatEmptySeq
  <2> QED BY <1>1, <2>3, <2>4
<1>12. Orderly(v, pq)
  <2>1. \A k \in 1 .. Len(q) : q[k] \notin Records /\ q[k] # "scan"
    BY <1>2 DEF Records
  <2>2. Orderly(v, q)
    BY <2>1 DEF Orderly, Fenced
  <2>3. Orderly(v, p)
    BY DEF Prepares
  <2> QED BY <1>1, <1>3, <2>2, <2>3, OrderlyConcat
<1> QED BY <1>4, <1>8, <1>9, <1>10, <1>11, <1>12 DEF Reports

\* Silent steps after the report change nothing about it.
LEMMA ReportsConcat ==
  ASSUME NEW n \in Nat, NEW p, Reports(p, n), NEW q, Silent(q)
  PROVE  Reports(p \o q, n)
<1> DEFINE pq == p \o q
           l == Len(p)
           e == Len(q)
<1>1. /\ p \in Seq(Names) /\ q \in Seq(Names) /\ Len(Of(Records, p)) = n
      /\ Of(Records, q) = <<>> /\ Of({"reduce"}, q) = <<>>
      /\ \A k \in 1 .. l : p[k] = "reduce" => Len(UpTo(Records, p, k)) = n
      /\ Of({"reduce"}, p) # <<>>
  BY DEF Reports, Silent
<1>2. l \in Nat /\ e \in Nat
  BY <1>1, LenProperties
<1>3. Adds(Names, Records, p, q) /\ Adds(Names, {"reduce"}, p, q)
  BY <1>1, OfConcat, Zenon
<1>4. /\ pq \in Seq(Names) /\ Len(pq) = l + e
      /\ \A k \in 0 .. l : UpTo(Records, pq, k) = UpTo(Records, p, k)
  <2>1. /\ p \o q \in Seq(Names) /\ Len(p \o q) = Len(p) + Len(q)
        /\ \A k \in 0 .. Len(p) : UpTo(Records, p \o q, k) = UpTo(Records, p, k)
        /\ \A k \in 0 .. Len(q) :
             UpTo(Records, p \o q, Len(p) + k) = Of(Records, p) \o UpTo(Records, q, k)
        /\ Of(Records, p \o q) = Of(Records, p) \o Of(Records, q)
        /\ Of(Records, p) \in Seq(Names)
    BY <1>1, UpToConcat, Zenon
  <2> QED BY <2>1
<1>5. Of(Records, pq) = Of(Records, p) /\ Of({"reduce"}, pq) = Of({"reduce"}, p)
  <2>1. PICK a, b : a = Of(Records, p) /\ b = Of({"reduce"}, p)
    OBVIOUS
  <2>2. /\ Of(Records, pq) = a \o <<>> /\ a \in Seq(Names)
        /\ Of({"reduce"}, pq) = b \o <<>> /\ b \in Seq(Names)
    BY <1>1, <1>3, <2>1, Zenon DEF Adds
  <2>3. a \o <<>> = a /\ b \o <<>> = b
    BY <2>2, ConcatEmptySeq
  <2> QED BY <2>1, <2>2, <2>3
<1>6. ASSUME NEW k \in 1 .. Len(pq), pq[k] = "reduce" PROVE Len(UpTo(Records, pq, k)) = n
  <2>1. CASE k <= l
    <3>1. k \in 1 .. l /\ k \in 0 .. l /\ k \in 1 .. l + e
      BY <1>2, <1>4, <2>1
    <3>2. pq[k] = p[k]
      BY <1>1, <2>1, <3>1, ConcatProperties
    <3> QED BY <1>1, <1>4, <1>6, <3>1, <3>2
  <2>2. CASE ~(k <= l)
    <3>1. k - l \in 1 .. e /\ k \in 1 .. l + e
      BY <1>2, <1>4, <2>2
    <3>2. pq[k] = q[k - l]
      BY <1>1, <2>2, <3>1, ConcatProperties
    <3>3. \A j \in 1 .. Len(q) : q[j] \notin {"reduce"}
      BY <1>1, OfNone
    <3> QED BY <1>6, <3>1, <3>2, <3>3
  <2> QED BY <2>1, <2>2
<1> QED BY <1>1, <1>4, <1>5, <1>6 DEF Reports

\* The steps that every rank takes: all but those of a chain.
Shared == Names \ {"pack", "recv", "send"}

\* The programs of two ranks that share those steps.
Alike(p, q) == p \in Seq(Names) /\ q \in Seq(Names) /\ Of(Shared, p) = Of(Shared, q)

\* What two ranks do after their report.
Follows(p, q) == Silent(p) /\ Silent(q) /\ Alike(p, q)

\* The programs of two ranks, each with its report of n arrays.
Twins(v, p, q, n) ==
  Reports(p, n) /\ Reports(q, n) /\ Alike(p, q) /\ Orderly(v, p) /\ Orderly(v, q)

\* Alike stays alike, one part after another.
LEMMA AlikeConcat ==
  ASSUME NEW p, NEW q, Alike(p, q), NEW t, NEW u, Alike(t, u)
  PROVE  Alike(p \o t, q \o u)
<1>1. p \in Seq(Names) /\ q \in Seq(Names) /\ t \in Seq(Names) /\ u \in Seq(Names)
  BY DEF Alike
<1>2. Adds(Names, Shared, p, t) /\ Adds(Names, Shared, q, u)
  BY <1>1, OfConcat, Zenon
<1>3. PICK pt, qu : pt = p \o t /\ qu = q \o u
  OBVIOUS
<1>4. pt \in Seq(Names) /\ qu \in Seq(Names)
      /\ Of(Shared, pt) = Of(Shared, p) \o Of(Shared, t)
      /\ Of(Shared, qu) = Of(Shared, q) \o Of(Shared, u)
  BY <1>2, <1>3, Zenon DEF Adds
<1>5. Of(Shared, pt) = Of(Shared, qu)
  BY <1>4, Zenon DEF Alike
<1> QED BY <1>3, <1>4, <1>5, Zenon DEF Alike

\* Alike stays alike when it is repeated.
LEMMA AlikeTimes ==
  ASSUME NEW p, NEW q, Alike(p, q), NEW n \in Nat
  PROVE  Alike(Times(n, p), Times(n, q))
<1>1. p \in Seq(Names) /\ q \in Seq(Names) /\ Same(Shared, p, q)
  BY DEF Alike, Same
<1>2. Multiplies(Names, Shared, p, n) /\ Multiplies(Names, Shared, q, n)
  BY <1>1, OfTimes, Zenon
<1>3. Same(Shared, Times(n, p), Times(n, q))
  BY <1>1, TimesAlike, Zenon
<1> QED BY <1>2, <1>3, Zenon DEF Alike, Multiplies, Same

\* What follows the report may come in parts,
LEMMA FollowsConcat ==
  ASSUME NEW p, NEW q, Follows(p, q), NEW t, NEW u, Follows(t, u)
  PROVE  Follows(p \o t, q \o u)
<1>1. p \in Seq(Names) /\ q \in Seq(Names) /\ t \in Seq(Names) /\ u \in Seq(Names)
  BY DEF Follows, Alike
<1>2. /\ Adds(Names, Records, p, t) /\ Adds(Names, Records, q, u)
      /\ Adds(Names, {"reduce"}, p, t) /\ Adds(Names, {"reduce"}, q, u)
  BY <1>1, OfConcat, Zenon
<1>3. /\ Of(Records, p) = <<>> /\ Of(Records, q) = <<>>
      /\ Of(Records, t) = <<>> /\ Of(Records, u) = <<>>
      /\ Of({"reduce"}, p) = <<>> /\ Of({"reduce"}, q) = <<>>
      /\ Of({"reduce"}, t) = <<>> /\ Of({"reduce"}, u) = <<>>
  BY Zenon DEF Follows, Silent
<1>4. PICK pt, qu, e : pt = p \o t /\ qu = q \o u /\ e = <<>>
  OBVIOUS
<1>5. e \o e = e
  BY <1>4, EmptySeq, ConcatEmptySeq
<1>6. /\ pt \in Seq(Names) /\ qu \in Seq(Names)
      /\ Of(Records, pt) = e \o e /\ Of(Records, qu) = e \o e
      /\ Of({"reduce"}, pt) = e \o e /\ Of({"reduce"}, qu) = e \o e
  BY <1>2, <1>3, <1>4, Zenon DEF Adds
<1>7. Silent(pt) /\ Silent(qu)
  BY <1>4, <1>5, <1>6, Zenon DEF Silent
<1>8. Alike(pt, qu)
  BY <1>4, AlikeConcat, Zenon DEF Follows
<1> QED BY <1>4, <1>7, <1>8, Zenon DEF Follows

\* and repeatedly.
LEMMA FollowsTimes ==
  ASSUME NEW p, NEW q, Follows(p, q), NEW n \in Nat
  PROVE  Follows(Times(n, p), Times(n, q))
<1>1. p \in Seq(Names) /\ q \in Seq(Names)
  BY DEF Follows, Alike
<1>2. /\ Multiplies(Names, Records, p, n) /\ Multiplies(Names, Records, q, n)
      /\ Multiplies(Names, {"reduce"}, p, n) /\ Multiplies(Names, {"reduce"}, q, n)
  BY <1>1, OfTimes, Zenon
<1>3. Silent(Times(n, p)) /\ Silent(Times(n, q))
  BY <1>2, Zenon DEF Silent, Multiplies, Follows
<1>4. Alike(Times(n, p), Times(n, q))
  BY AlikeTimes, Zenon DEF Follows
<1> QED BY <1>3, <1>4, Zenon DEF Follows

\* Twins with what follows their report are twins.
LEMMA TwinsConcat ==
  ASSUME NEW n \in Nat, NEW p, NEW q, Twins("ranges", p, q, n), NEW t, NEW u, Follows(t, u)
  PROVE  Twins("ranges", p \o t, q \o u, n)
<1>1. Reports(p \o t, n)
  BY ReportsConcat, Zenon DEF Twins, Follows
<1>2. Reports(q \o u, n)
  BY ReportsConcat, Zenon DEF Twins, Follows
<1>3. Alike(p \o t, q \o u)
  BY AlikeConcat, Zenon DEF Twins, Follows
<1>4. Orderly("ranges", t) /\ Orderly("ranges", u)
  BY OrderlyNone, Zenon DEF Follows, Silent
<1>5. Orderly("ranges", p \o t) /\ Orderly("ranges", q \o u)
  <2>1. /\ p \in Seq(Names) /\ q \in Seq(Names) /\ t \in Seq(Names) /\ u \in Seq(Names)
        /\ Orderly("ranges", p) /\ Orderly("ranges", q)
    BY DEF Twins, Reports, Follows, Silent
  <2> QED BY <1>4, <2>1, OrderlyConcat
<1> QED BY <1>1, <1>2, <1>3, <1>5, Zenon DEF Twins

\* A report makes a program its own twin.
LEMMA TwinOfItself ==
  ASSUME NEW v, NEW n, NEW p, Reports(p, n), Orderly(v, p)
  PROVE  Twins(v, p, p, n)
BY Zenon DEF Twins, Reports, Alike

-----------------------------------------------------------------------------
(* The programs *)

\* The reductions of a report.
LEMMA ReductionsAre ==
  ASSUME NEW r, NEW n \in Nat \ {0}
  PROVE  Reductions(r, n) \in Seq({"reduce"}) /\ Reductions(r, n) # <<>> /\ Ends(Reductions(r, n))
<1> DEFINE p == <<"reduce">>
<1>1. p \in Seq({"reduce"}) /\ p # <<>> /\ Len(p) = 1 /\ p[1] = "reduce"
  OBVIOUS
<1>2. Ends(p)
  BY <1>1 DEF Ends, Collectives
<1>3. p \in Seq({"reduce"})
  BY <1>1
<1>4. n \in Nat
  OBVIOUS
<1> HIDE DEF p
<1>5. Ends(Times(n, p))
  BY <1>2, <1>3, EndsTimes
<1>6. Multiplies({"reduce"}, {"reduce"}, p, n)
  BY <1>3, <1>4, OfTimes, Zenon
<1>7. Times(n, p) # <<>>
  BY <1>5 DEF Ends
<1> QED BY <1>5, <1>6, <1>7 DEF Reductions, Multiplies, p

\* Steps of which the last alone records.
Section(v, p) ==
  /\ Orderly(v, p)
  /\ p \in Seq(Names) /\ Len(p) > 0 /\ p[Len(p)] \in Records
  /\ \A k \in 1 .. Len(p) - 1 : p[k] \notin Records \cup {"reduce"}

\* They prepare one array.
LEMMA PreparesLast ==
  ASSUME NEW v, NEW p, Section(v, p)
  PROVE  Prepares(v, p, 1)
<1>0. /\ Orderly(v, p) /\ p \in Seq(Names) /\ Len(p) > 0 /\ p[Len(p)] \in Records
      /\ \A k \in 1 .. Len(p) - 1 : p[k] \notin Records \cup {"reduce"}
  BY DEF Section
<1>1. Len(Of(Records, p)) = 1
  BY <1>0, OfLast
<1>2. \A k \in 1 .. Len(p) : p[k] \notin {"reduce"}
  <2>1. Len(p) \in Nat
    BY <1>0, LenProperties
  <2>2. \A k \in 1 .. Len(p) : k \in 1 .. Len(p) - 1 \/ k = Len(p)
    BY <2>1
  <2> QED BY <1>0, <2>2 DEF Records
<1>3. Of({"reduce"}, p) = <<>>
  BY <1>0, <1>2, OfNone
<1> QED BY <1>0, <1>1, <1>3 DEF Prepares

\* Steps none of which records or reduces.
Aside(p) ==
  p \in Seq(Names) /\ \A k \in 1 .. Len(p) : p[k] \notin Records \cup {"reduce", "scan"}

\* They change nothing about a report.
LEMMA SilentSteps ==
  ASSUME NEW p, Aside(p)
  PROVE  Silent(p) /\ (\A v : Prepares(v, p, 0)) /\ Follows(p, p)
<1>0. p \in Seq(Names) /\ \A k \in 1 .. Len(p) : p[k] \notin Records \cup {"reduce", "scan"}
  BY DEF Aside
<1>1. Of(Records, p) = <<>>
  BY <1>0, OfNone
<1>2. Of({"reduce"}, p) = <<>>
  BY <1>0, OfNone
<1>3. Len(<<>>) = 0
  BY EmptySeq
<1>4. \A v : Orderly(v, p)
  BY <1>0 DEF Orderly, Fenced
<1> QED BY <1>0, <1>1, <1>2, <1>3, <1>4 DEF Silent, Prepares, Follows, Alike

\* The parts of the programs that no rank writes a different way.
LEMMA Sections ==
  /\ Prepares("ranges", <<"read", "min", "max", "barrier", "commit">>, 1)
  /\ Prepares("none", <<"barrier", "commit">>, 1)
  /\ Prepares("none", <<"read", "barrier", "commit">>, 1)
  /\ Prepares("none", <<"barrier", "decode">>, 1)
  /\ Prepares("ranges", <<"load", "scan", "min", "max", "store">>, 1)
  /\ Prepares("ranges", <<"scan", "min", "max", "store">>, 1)
  /\ Prepares("ranges", <<"load", "scan", "min", "max", "load", "setup">>, 1)
  /\ Prepares("ranges", <<"scan", "min", "max", "setup">>, 1)
<1>1. Section("ranges", <<"read", "min", "max", "barrier", "commit">>)
  BY DEF Section, Orderly, Fenced, Measures, Syncs, Names, Collectives, CanFail, Records
<1>2. Section("none", <<"barrier", "commit">>)
  BY DEF Section, Orderly, Fenced, Measures, Syncs, Names, Collectives, CanFail, Records
<1>3. Section("none", <<"read", "barrier", "commit">>)
  BY DEF Section, Orderly, Fenced, Measures, Syncs, Names, Collectives, CanFail, Records
<1>4. Section("none", <<"barrier", "decode">>)
  BY DEF Section, Orderly, Fenced, Measures, Syncs, Names, Collectives, CanFail, Records
<1>5. Section("ranges", <<"load", "scan", "min", "max", "store">>)
  BY DEF Section, Orderly, Fenced, Measures, Syncs, Names, Collectives, CanFail, Records
<1>6. Section("ranges", <<"scan", "min", "max", "store">>)
  BY DEF Section, Orderly, Fenced, Measures, Syncs, Names, Collectives, CanFail, Records
<1>7. Section("ranges", <<"load", "scan", "min", "max", "load", "setup">>)
  BY DEF Section, Orderly, Fenced, Measures, Syncs, Names, Collectives, CanFail, Records
<1>8. Section("ranges", <<"scan", "min", "max", "setup">>)
  BY DEF Section, Orderly, Fenced, Measures, Syncs, Names, Collectives, CanFail, Records
<1> QED BY <1>1, <1>2, <1>3, <1>4, <1>5, <1>6, <1>7, <1>8, PreparesLast, Zenon

\* The parts that record nothing.
LEMMA Asides ==
  ASSUME NEW v
  PROVE
  /\ Prepares(v, <<"open">>, 0) /\ Prepares(v, <<"close">>, 0) /\ Prepares(v, <<"read">>, 0)
  /\ Prepares(v, <<"barrier">>, 0) /\ Prepares(v, <<"load">>, 0) /\ Prepares(v, <<"min", "max">>, 0)
  /\ Prepares(v, <<"load", "min", "max", "load">>, 0)
  /\ Follows(<<"load">>, <<"load">>) /\ Follows(SharedFile, SharedFile)
<1>1. /\ Aside(<<"open">>) /\ Aside(<<"close">>) /\ Aside(<<"read">>) /\ Aside(<<"barrier">>)
      /\ Aside(<<"load">>) /\ Aside(<<"min", "max">>)
  BY DEF Aside, Names, Collectives, CanFail, Records
<1>2. Aside(<<"load", "min", "max", "load">>)
  BY DEF Aside, Names, Collectives, CanFail, Records
<1>3. Aside(SharedFile)
  BY DEF Aside, Names, Collectives, CanFail, Records, SharedFile
<1> QED BY <1>1, <1>2, <1>3, SilentSteps, Zenon

\* A rank's part in the chain of offsets is none of the shared steps.
LEMMA ChainsFollow ==
  ASSUME NEW r, NEW q
  PROVE  Follows(Chain(r), Chain(q))
<1>1. ASSUME NEW i PROVE Silent(Chain(i)) /\ Alike(Chain(i), <<>>)
  <2> DEFINE a == <<"pack">>
             b == IF i = 0 THEN <<>> ELSE <<"recv">>
             c == IF i = NumRanks - 1 THEN <<>> ELSE <<"send">>
             p == (a \o b) \o c
             L == {"pack", "recv", "send"}
  <2>1. a \in Seq(L) /\ b \in Seq(L) /\ c \in Seq(L)
    <3>1. <<"pack">> \in Seq(L) /\ <<"recv">> \in Seq(L) /\ <<"send">> \in Seq(L)
      OBVIOUS
    <3>2. <<>> \in Seq(L)
      BY EmptySeq
    <3> QED BY <3>1, <3>2
  <2> HIDE DEF a, b, c
  <2>2. PICK ab : ab = a \o b
    OBVIOUS
  <2>3. ab \in Seq(L)
    BY <2>1, <2>2, ConcatProperties
  <2>4. p \in Seq(L)
    BY <2>1, <2>2, <2>3, ConcatProperties
  <2>5. L \subseteq Names
    BY DEF Names
  <2>6. p \in Seq(Names)
    BY <2>4, <2>5, SeqMonotonic
  <2> HIDE DEF p
  <2>7. \A k \in 1 .. Len(p) : p[k] \in L
    BY <2>4, ElementOfSeq
  <2>8. \A k \in 1 .. Len(p) :
          p[k] \notin Records \cup {"reduce", "scan"} /\ p[k] \notin Shared
    BY <2>7 DEF Records, Collectives, Shared
  <2>9. Silent(p)
    BY <2>6, <2>8, SilentSteps DEF Aside
  <2>10. Of(Shared, p) = <<>>
    BY <2>6, <2>8, OfNone
  <2>11. <<>> \in Seq(Names) /\ \A k \in 1 .. Len(<<>>) : <<>>[k] \notin Shared
    BY EmptySeq
  <2>12. Of(Shared, <<>>) = <<>>
    BY <2>11, OfNone
  <2>13. Chain(i) = p
    BY DEF Chain, a, b, c, p
  <2> QED BY <2>6, <2>9, <2>10, <2>11, <2>12, <2>13 DEF Alike
<1> QED BY <1>1 DEF Alike, Follows

\* A report at the end of what it needs.
LEMMA Reporting ==
  ASSUME NEW v, NEW n \in Nat, NEW p, Prepares(v, p, n), NEW r, NEW q,
         NEW m \in Nat \ {0}
  PROVE  Twins(v, p \o Reductions(r, m), p \o Reductions(q, m), n) /\ Ends(p \o Reductions(r, m))
<1>1. Reductions(r, m) = Reductions(q, m)
  BY DEF Reductions
<1>2. PICK s : s = Reductions(r, m)
  OBVIOUS
<1>3. s \in Seq({"reduce"}) /\ s # <<>> /\ Ends(s)
  BY <1>2, ReductionsAre
<1>4. Reports(p \o s, n) /\ Orderly(v, p \o s)
  BY <1>3, ReportsReduce
<1>5. Twins(v, p \o s, p \o s, n)
  BY <1>4, TwinOfItself
<1>6. p \in Seq(Names) /\ s \in Seq(Names)
  <2>1. {"reduce"} \subseteq Names
    BY DEF Names, Collectives
  <2> QED BY <1>3, <2>1, SeqMonotonic DEF Prepares
<1>7. Ends(p \o s)
  BY <1>3, <1>6, EndsConcat
<1> QED BY <1>1, <1>2, <1>5, <1>7

\* The parts before the report, with 0 + 1 added up.
LEMMA PreparesFirst ==
  ASSUME NEW v, NEW m \in Nat, NEW p, NEW q, Prepares(v, p, 0), Prepares(v, q, m)
  PROVE  Prepares(v, p \o q, m) /\ Prepares(v, q \o p, m)
<1>1. Prepares(v, p \o q, 0 + m) /\ Prepares(v, q \o p, m + 0)
  BY PreparesConcat
<1>2. 0 + m = m /\ m + 0 = m
  OBVIOUS
<1> QED BY <1>1, <1>2

\* One array after another.
LEMMA PreparesEach ==
  ASSUME NEW v, NEW n \in Nat, NEW p
  PROVE  /\ Prepares(v, p, 1) => Prepares(v, Times(n, p), n)
         /\ Prepares(v, p, 0) => Prepares(v, Times(n, p), 0)
<1>1. n * 1 = n /\ n * 0 = 0
  OBVIOUS
<1>2. ASSUME NEW m \in Nat, Prepares(v, p, m) PROVE Prepares(v, Times(n, p), n * m)
  BY <1>2, PreparesTimes
<1> QED BY <1>1, <1>2

\* Two ranks take the same shared steps, the last of all being a collective, and each
\* reports after its n arrays.
Proper(v, p, q, n) == Twins(v, p, q, n) /\ Ends(p)

\* Which parts are put together first makes no difference.
Regroups(a, b, c, d) == (a \o (b \o c)) \o d = (a \o b) \o (c \o d)

\* It holds for all sequences.
LEMMA RegroupsConcat ==
  ASSUME NEW S, NEW a \in Seq(S), NEW b \in Seq(S), NEW c \in Seq(S), NEW d \in Seq(S)
  PROVE  Regroups(a, b, c, d)
<1>1. PICK ab : ab = a \o b
  OBVIOUS
<1>2. ab \in Seq(S)
  BY <1>1, ConcatProperties
<1>3. Associates(a, b, c)
  BY AssociatesConcat, Zenon
<1>4. Associates(ab, c, d)
  BY <1>2, AssociatesConcat, Zenon
<1>5. a \o (b \o c) = ab \o c
  BY <1>1, <1>3 DEF Associates
<1>6. (ab \o c) \o d = ab \o (c \o d)
  BY <1>4, Zenon DEF Associates
<1> QED BY <1>1, <1>5, <1>6 DEF Regroups

\* Two steps, one after the other.
LEMMA PairIs ==
  ASSUME NEW x, NEW y
  PROVE  <<x>> \o <<y>> = <<x, y>>
<1> DEFINE S == {x, y}
<1>1. /\ <<x>> \in Seq(S) /\ <<y>> \in Seq(S) /\ <<x, y>> \in Seq(S)
      /\ Len(<<x>>) = 1 /\ Len(<<y>>) = 1 /\ Len(<<x, y>>) = 2
  OBVIOUS
<1> HIDE DEF S
<1>2. PICK a, b, c : a = <<x>> /\ b = <<y>> /\ c = <<x, y>>
  OBVIOUS
<1>3. a \o b \in Seq(S) /\ Len(a \o b) = 2 /\ \A i \in 1 .. 2 : (a \o b)[i] = c[i]
  <2>1. a[1] = x /\ b[1] = y /\ c[1] = x /\ c[2] = y
    BY <1>2
  <2>2. a \in Seq(S) /\ b \in Seq(S) /\ Len(a) = 1 /\ Len(b) = 1
    BY <1>1, <1>2
  <2>3. /\ a \o b \in Seq(S) /\ Len(a \o b) = Len(a) + Len(b)
        /\ \A i \in 1 .. Len(a) + Len(b) :
             (a \o b)[i] = IF i <= Len(a) THEN a[i] ELSE b[i - Len(a)]
    BY <2>2, ConcatProperties
  <2>4. (a \o b)[1] = x /\ (a \o b)[2] = y
    BY <2>1, <2>2, <2>3
  <2> QED BY <2>1, <2>2, <2>3, <2>4
<1>4. a \o b = c
  BY <1>1, <1>2, <1>3, SeqEqual
<1> QED BY <1>2, <1>4

\* The FUN3D programs.
LEMMA FUN3DProper ==
  ASSUME NEW r, NEW q
  PROVE  /\ Proper("ranges", refactor(r), refactor(q), Frames)
         /\ Proper("none", retrieve(r), retrieve(q), Frames)
         /\ Proper("none", reconstruct(r), reconstruct(q), Frames)
         /\ Proper("none", reconstruct_retrieved(r), reconstruct_retrieved(q), Frames)
<1>0. Frames \in Nat /\ Tolerances \in Nat
  BY FramesAssumption
<1>1. Proper("ranges", refactor(r), refactor(q), Frames)
  <2> DEFINE a == Times(Frames, <<"read", "min", "max", "barrier", "commit">>)
  <2>1. Prepares("ranges", a, Frames)
    BY <1>0, PreparesEach, Sections
  <2> HIDE DEF a
  <2>2. Prepares("ranges", <<"open">> \o a, Frames)
    BY <1>0, <2>1, PreparesFirst, Asides
  <2>3. Prepares("ranges", (<<"open">> \o a) \o <<"close">>, Frames)
    BY <1>0, <2>2, PreparesFirst, Asides
  <2> QED BY <1>0, <2>3, Reporting DEF refactor, Proper, a
<1>2. Proper("none", retrieve(r), retrieve(q), Frames)
  <2> DEFINE a == Times(Frames, <<"barrier", "commit">>)
  <2>1. Prepares("none", a, Frames)
    BY <1>0, PreparesEach, Sections
  <2> HIDE DEF a
  <2>2. Prepares("none", <<"open">> \o a, Frames)
    BY <1>0, <2>1, PreparesFirst, Asides
  <2>3. Prepares("none", (<<"open">> \o a) \o <<"close">>, Frames)
    BY <1>0, <2>2, PreparesFirst, Asides
  <2> QED BY <1>0, <2>3, Reporting DEF retrieve, Proper, a
<1>3. Proper("none", reconstruct(r), reconstruct(q), Frames)
  <2> DEFINE b == Times(Tolerances - 1, <<"barrier">>)
             c == (<<"read">> \o Times(Tolerances, <<"barrier">>)) \o <<"decode">>
             a == Times(Frames, c)
             one == <<"barrier">>
             two == <<"decode">>
  <2>0. Tolerances - 1 \in Nat /\ (Tolerances - 1) + 1 = Tolerances
    BY FramesAssumption
  <2>1. Prepares("none", b, 0)
    BY <2>0, PreparesEach, Asides
  <2>2. Times(Tolerances, one) = b \o one
    <3>1. one \in Seq(Names)
      BY DEF Names, Collectives
    <3> HIDE DEF one
    <3> QED BY <2>0, <3>1, TimesStep DEF one
  <2> HIDE DEF b
  <2>a. Prepares("none", <<"read">> \o b, 0)
    BY <2>1, PreparesFirst, Asides
  <2>b. Prepares("none", (<<"read">> \o b) \o <<"barrier", "decode">>, 1)
    BY <2>a, PreparesFirst, Sections
  <2>3. Prepares("none", c, 1)
    <3>1. /\ <<"read">> \in Seq(Names) /\ b \in Seq(Names) /\ one \in Seq(Names)
          /\ two \in Seq(Names)
      BY <2>1 DEF Prepares, Names, Collectives, CanFail, Records
    <3>2. one \o two = <<"barrier", "decode">>
      BY PairIs
    <3> HIDE DEF one, two
    <3>4. Regroups(<<"read">>, b, one, two)
      BY <3>1, RegroupsConcat, Zenon
    <3> QED BY <2>b, <2>2, <3>2, <3>4, Zenon DEF Regroups, one, two
  <2> HIDE DEF c
  <2>4. Prepares("none", a, Frames)
    BY <1>0, <2>3, PreparesEach
  <2> HIDE DEF a
  <2>5. Prepares("none", <<"open">> \o a, Frames)
    BY <1>0, <2>4, PreparesFirst, Asides
  <2> QED BY <1>0, <2>5, Reporting DEF reconstruct, Proper, a, c
<1>4. Proper("none", reconstruct_retrieved(r), reconstruct_retrieved(q), Frames)
  <2> DEFINE a == Times(Frames, <<"read", "barrier", "commit">>)
  <2>1. Prepares("none", a, Frames)
    BY <1>0, PreparesEach, Sections
  <2> HIDE DEF a
  <2>2. Prepares("none", <<"open">> \o a, Frames)
    BY <1>0, <2>1, PreparesFirst, Asides
  <2> QED BY <1>0, <2>2, Reporting DEF reconstruct_retrieved, Proper, a
<1> QED BY <1>1, <1>2, <1>3, <1>4

\* What follows the report and ends with the closing of a file.
Closes(t, u) == Follows(t, u) /\ Ends(t)

\* A shared file, written after its chain of offsets.
LEMMA FilesClose ==
  ASSUME NEW r, NEW q
  PROVE  /\ Closes(Chain(r) \o SharedFile, Chain(q) \o SharedFile)
         /\ \A n \in Nat \ {0} : Closes(Times(n, Chain(r) \o SharedFile),
                                        Times(n, Chain(q) \o SharedFile))
<1>1. Follows(Chain(r), Chain(q)) /\ Follows(SharedFile, SharedFile)
  BY ChainsFollow, Asides
<1>2. Ends(SharedFile)
  BY DEF SharedFile, Ends, Collectives
<1>3. Chain(r) \in Seq(Names) /\ SharedFile \in Seq(Names)
  BY <1>1 DEF Follows, Silent
<1>4. PICK t, u : t = Chain(r) \o SharedFile /\ u = Chain(q) \o SharedFile
  OBVIOUS
<1>5. Follows(t, u) /\ Ends(t)
  BY <1>1, <1>2, <1>3, <1>4, FollowsConcat, EndsConcat
<1>6. t \in Seq(Names)
  BY <1>5 DEF Follows, Silent
<1>7. \A n \in Nat \ {0} : n \in Nat /\ Follows(Times(n, t), Times(n, u)) /\ Ends(Times(n, t))
  BY <1>5, <1>6, FollowsTimes, EndsTimes
<1> QED BY <1>4, <1>5, <1>7 DEF Closes

\* A file written after the report.
LEMMA ProperConcat ==
  ASSUME NEW n \in Nat, NEW p, NEW q, Twins("ranges", p, q, n), NEW t, NEW u, Closes(t, u)
  PROVE  Proper("ranges", p \o t, q \o u, n)
<1>1. Follows(t, u) /\ Ends(t)
  BY DEF Closes
<1>2. Twins("ranges", p \o t, q \o u, n)
  BY <1>1, TwinsConcat
<1>3. p \in Seq(Names) /\ t \in Seq(Names)
  BY <1>1 DEF Twins, Reports, Follows, Silent
<1>4. Ends(p \o t)
  BY <1>1, <1>3, EndsConcat
<1> QED BY <1>2, <1>4 DEF Proper

\* The programs that write shared files, and the two refactorers.
LEMMA OthersProper ==
  ASSUME NEW r, NEW q
  PROVE  /\ Proper("ranges", array_refactor(r), array_refactor(q), 1)
         /\ Proper("ranges", qoi_refactor(r), qoi_refactor(q), Variables)
         /\ Proper("ranges", array_reconstruct(r), array_reconstruct(q), 1)
         /\ Proper("ranges", Vtot(r), Vtot(q), Variables)
         /\ Proper("ranges", PT(r), PT(q), Variables)
<1>0. Variables \in Nat \ {0} /\ Variables \in Nat /\ Variables - 1 \in Nat
  BY FramesAssumption
<1>a. Follows(Chain(r), Chain(q)) /\ Follows(SharedFile, SharedFile)
      /\ Follows(<<"load">>, <<"load">>) /\ Closes(SharedFile, SharedFile)
  <2>1. Ends(SharedFile)
    BY DEF SharedFile, Ends, Collectives
  <2> QED BY <2>1, ChainsFollow, Asides DEF Closes
<1>1. Proper("ranges", array_refactor(r), array_refactor(q), 1)
  BY Reporting, Sections DEF array_refactor, Proper
<1>2. Proper("ranges", qoi_refactor(r), qoi_refactor(q), Variables)
  <2> DEFINE a == Times(Variables, <<"load">>)
             b == Times(Variables, <<"scan", "min", "max", "store">>)
  <2>1. Prepares("ranges", a, 0) /\ Prepares("ranges", b, Variables)
    BY <1>0, PreparesEach, Asides, Sections
  <2> HIDE DEF a, b
  <2>2. Prepares("ranges", a \o b, Variables)
    BY <1>0, <2>1, PreparesFirst
  <2> QED BY <1>0, <2>2, Reporting DEF qoi_refactor, Proper, a, b
<1>3. Proper("ranges", array_reconstruct(r), array_reconstruct(q), 1)
  <2> DEFINE s == <<"load", "scan", "min", "max", "load", "setup">>
             p(i) == s \o Reductions(i, 4)
  <2>1. Twins("ranges", p(r), p(q), 1)
    BY Reporting, Sections
  <2> HIDE DEF p
  <2>2. Twins("ranges", p(r) \o Chain(r), p(q) \o Chain(q), 1)
    BY <1>a, <2>1, TwinsConcat
  <2>3. Proper("ranges", (p(r) \o Chain(r)) \o SharedFile, (p(q) \o Chain(q)) \o SharedFile, 1)
    BY <1>a, <2>2, ProperConcat
  <2> QED BY <2>3 DEF array_reconstruct, p
<1>4. Twins("ranges", qoi_reconstruct(r), qoi_reconstruct(q), Variables)
  <2> DEFINE a == Times(Variables, <<"load", "min", "max", "load">>)
             b == Times(Variables, <<"scan", "min", "max", "setup">>)
  <2>1. Prepares("ranges", a, 0) /\ Prepares("ranges", b, Variables) /\ Prepares("ranges", <<"min", "max">>, 0)
    BY <1>0, PreparesEach, Asides, Sections
  <2> HIDE DEF a, b
  <2>2. Prepares("ranges", a \o <<"min", "max">>, 0)
    BY <2>1, PreparesFirst
  <2>3. Prepares("ranges", (a \o <<"min", "max">>) \o b, Variables)
    BY <1>0, <2>1, <2>2, PreparesFirst
  <2> QED BY <1>0, <2>3, Reporting DEF qoi_reconstruct, a, b
<1>5. Proper("ranges", Vtot(r), Vtot(q), Variables)
  <2>1. Closes(Times(Variables, Chain(r) \o SharedFile), Times(Variables, Chain(q) \o SharedFile))
    BY <1>0, FilesClose
  <2> QED BY <1>0, <1>4, <2>1, ProperConcat DEF Vtot
<1>6. Proper("ranges", PT(r), PT(q), Variables)
  <2> DEFINE a(i) == qoi_reconstruct(i) \o Chain(i)
             b(i) == a(i) \o SharedFile
             c(i) == b(i) \o Chain(i)
             d(i) == c(i) \o <<"load">>
             e(i) == d(i) \o SharedFile
             t(i) == Times(Variables - 1, Chain(i) \o SharedFile)
  <2>1. Twins("ranges", a(r), a(q), Variables)
    BY <1>0, <1>a, <1>4, TwinsConcat
  <2> HIDE DEF a
  <2>2. Twins("ranges", b(r), b(q), Variables)
    BY <1>0, <1>a, <2>1, TwinsConcat
  <2> HIDE DEF b
  <2>3. Twins("ranges", c(r), c(q), Variables)
    BY <1>0, <1>a, <2>2, TwinsConcat
  <2> HIDE DEF c
  <2>4. Twins("ranges", d(r), d(q), Variables)
    BY <1>0, <1>a, <2>3, TwinsConcat
  <2> HIDE DEF d
  <2>5. Proper("ranges", e(r), e(q), Variables)
    BY <1>0, <1>a, <2>4, ProperConcat
  <2> HIDE DEF e
  <2>6. CASE Variables - 1 # 0
    <3>1. Variables - 1 \in Nat \ {0}
      BY <1>0, <2>6
    <3>2. Closes(t(r), t(q))
      BY <3>1, FilesClose
    <3> HIDE DEF t
    <3>3. Twins("ranges", e(r), e(q), Variables)
      BY <2>5 DEF Proper
    <3>4. Proper("ranges", e(r) \o t(r), e(q) \o t(q), Variables)
      BY <1>0, <3>2, <3>3, ProperConcat
    <3> QED BY <3>4 DEF PT, a, b, c, d, e, t
  <2>7. CASE Variables - 1 = 0
    <3>1. Chain(r) \o SharedFile \in Seq(Names) /\ Chain(q) \o SharedFile \in Seq(Names)
      BY FilesClose DEF Closes, Follows, Silent
    <3>2. t(r) = <<>> /\ t(q) = <<>>
      BY <2>7, <3>1, TimesStep
    <3> HIDE DEF t
    <3>3. e(r) \in Seq(Names) /\ e(q) \in Seq(Names)
      BY <2>5 DEF Proper, Twins, Reports
    <3>4. e(r) \o t(r) = e(r) /\ e(q) \o t(q) = e(q)
      BY <3>2, <3>3, ConcatEmptySeq
    <3>5. Proper("ranges", e(r) \o t(r), e(q) \o t(q), Variables)
      BY <2>5, <3>4
    <3> QED BY <3>5 DEF PT, a, b, c, d, e, t
  <2> QED BY <2>6, <2>7
<1> QED BY <1>1, <1>2, <1>3, <1>5, <1>6

\* How many arrays a program goes through.
ArraysOf(d) == IF d \in FUN3D THEN Frames
               ELSE IF d \in {"array_refactor", "array_reconstruct"} THEN 1 ELSE Variables

\* Whatever the program, the ranks share its steps.
LEMMA ProgramsProper ==
  ASSUME NEW d \in Drivers, NEW r \in Ranks, NEW q \in Ranks
  PROVE  Proper(Mode(d), Program[d][r], Program[d][q], ArraysOf(d)) /\ ArraysOf(d) \in Nat
<1>1. d \in {"refactor", "retrieve", "reconstruct", "reconstruct_retrieved",
             "array_refactor", "array_reconstruct", "qoi_refactor", "PT", "Vtot"}
  BY DriversAssumption
<1>2. ArraysOf(d) \in Nat
  BY FramesAssumption DEF ArraysOf
<1>3. d \in FUN3D => Proper(Mode(d), Program[d][r], Program[d][q], Frames)
  BY FUN3DProper DEF Program, FUN3D, Mode, Measuring
<1>4. d \in {"array_refactor", "array_reconstruct"} => Proper(Mode(d), Program[d][r], Program[d][q], 1)
  BY OthersProper DEF Program, Mode, Measuring
<1>5. d \in {"qoi_refactor", "PT", "Vtot"} => Proper(Mode(d), Program[d][r], Program[d][q], Variables)
  BY OthersProper DEF Program, Mode, Measuring
<1> QED BY <1>1, <1>2, <1>3, <1>4, <1>5 DEF ArraysOf, FUN3D

-----------------------------------------------------------------------------
(* The common trace *)

\* How many of the first k steps are of a kind.
Count(kind, p, k) == Len(UpTo(kind, p, k))

\* A step of the kind counts one more.
Counts(kind, p) ==
  /\ Len(p) \in Nat /\ Count(kind, p, 0) = 0 /\ Count(kind, p, Len(p)) = Len(Of(kind, p))
  /\ \A k \in 0 .. Len(p) : Count(kind, p, k) \in Nat
  /\ \A k \in 1 .. Len(p) :
       /\ k - 1 \in 0 .. Len(p) /\ k \in 0 .. Len(p)
       /\ Count(kind, p, k) = IF p[k] \in kind THEN Count(kind, p, k - 1) + 1
                              ELSE Count(kind, p, k - 1)
  /\ \A j, k \in 0 .. Len(p) : j <= k => Count(kind, p, j) <= Count(kind, p, k)

\* Every sequence is counted so.
LEMMA CountStep ==
  ASSUME NEW S, NEW kind, NEW p \in Seq(S)
  PROVE  Counts(kind, p)
<1> DEFINE n == Len(p)
           F(k) == UpTo(kind, p, k)
           C(k) == Count(kind, p, k)
<1>1. Gathers(S, kind, p)
  BY UpToStep, Zenon
<1>2. /\ n \in Nat /\ \A k \in 1 .. n : p[k] \in S
      /\ F(0) = <<>>
      /\ \A k \in 0 .. n : F(k) \in Seq(S) /\ Len(F(k)) \in Nat
      /\ \A k \in 0 .. n - 1 : F(k + 1) = IF p[k + 1] \in kind THEN Append(F(k), p[k + 1]) ELSE F(k)
      /\ F(n) = Of(kind, p)
  BY <1>1, LenProperties, ElementOfSeq DEF Gathers
<1>3. \A k : C(k) = Len(F(k))
  BY DEF Count
<1> HIDE DEF n, F, C
<1>4. ASSUME NEW k \in 1 .. n
      PROVE  /\ k - 1 \in 0 .. n /\ k \in 0 .. n
             /\ C(k) = IF p[k] \in kind THEN C(k - 1) + 1 ELSE C(k - 1)
  <2>1. k - 1 \in 0 .. n - 1 /\ k - 1 \in 0 .. n /\ k \in 0 .. n /\ (k - 1) + 1 = k
    BY <1>2
  <2>2. PICK t, e : t = F(k - 1) /\ e = p[k]
    OBVIOUS
  <2>3. t \in Seq(S) /\ e \in S /\ F(k) = IF e \in kind THEN Append(t, e) ELSE t
    BY <1>2, <2>1, <2>2
  <2>4. Len(Append(t, e)) = Len(t) + 1
    BY <2>3, AppendProperties
  <2> QED BY <1>3, <2>1, <2>2, <2>3, <2>4
<1>5. C(0) = 0
  BY <1>2, <1>3, EmptySeq
<1>6. \A k \in 0 .. n : C(k) \in Nat
  BY <1>2, <1>3
<1>7. ASSUME NEW j \in 0 .. n, NEW k \in 0 .. n, j <= k PROVE C(j) <= C(k)
  <2> DEFINE N == {d \in Nat : j + d <= n => C(j) <= C(j + d)}
  <2>1. 0 \in N
    BY <1>2, <1>6
  <2>2. ASSUME NEW d \in Nat, d \in N PROVE d + 1 \in N
    <3> SUFFICES ASSUME j + (d + 1) <= n PROVE C(j) <= C(j + (d + 1))
      OBVIOUS
    <3>1. PICK i : i = j + (d + 1)
      OBVIOUS
    <3>2. i \in 1 .. n /\ i - 1 = j + d /\ j + d <= n
      BY <1>2, <3>1
    <3>3. C(j) <= C(i - 1) /\ C(i - 1) \in Nat /\ C(j) \in Nat
      BY <1>4, <1>6, <2>2, <3>2
    <3>5. C(i) \in Nat
      BY <1>4, <1>6, <3>2
    <3>4. C(i - 1) <= C(i)
      <4>1. C(i) = C(i - 1) + 1 \/ C(i) = C(i - 1)
        BY <1>4, <3>2
      <4> QED BY <3>3, <3>5, <4>1
    <3> QED BY <3>1, <3>3, <3>4, <3>5
  <2> HIDE DEF N
  <2>3. Nat \subseteq N
    BY <2>1, <2>2, SetInduction
  <2>4. j + (k - j) = k /\ k <= n /\ k - j \in Nat
    BY <1>2, <1>7
  <2> QED BY <2>3, <2>4 DEF N
<1>8. C(n) = Len(Of(kind, p))
  BY <1>2, <1>3
<1> QED BY <1>2, <1>4, <1>5, <1>6, <1>7, <1>8 DEF Counts, n, C

\* What is kept of a program is what was kept of it, taken further.
Projects(K, kind, p) ==
  /\ \A k \in 0 .. Len(p) :
       /\ Count(K, p, k) \in 0 .. Len(Of(K, p))
       /\ UpTo(kind, p, k) = UpTo(kind, Of(K, p), Count(K, p, k))
  /\ \A k \in 1 .. Len(p) : p[k] \in K => Of(K, p)[Count(K, p, k)] = p[k]
  /\ \A i \in 1 .. Len(Of(K, p)) :
       \E k \in 1 .. Len(p) : Count(K, p, k) = i /\ p[k] \in K /\ p[k] = Of(K, p)[i]

\* Whatever is taken, of a kind that was kept.
LEMMA OfProjects ==
  ASSUME NEW S, NEW K, NEW kind, kind \subseteq K, NEW p \in Seq(S)
  PROVE  Projects(K, kind, p) /\ Of(K, p) \in Seq(S)
<1> DEFINE n == Len(p)
           C(k) == Count(K, p, k)
           F(k) == UpTo(K, p, k)
           T == Of(K, p)
           m == Len(T)
<1>1. Gathers(S, K, p) /\ Gathers(S, kind, p)
  BY UpToStep, Zenon
<1>2. Counts(K, p)
  BY CountStep, Zenon
<1>3. T \in Seq(S) /\ m \in Nat
  <2>1. T \in Seq(S)
    BY UpToIsPrefix, <1>2 DEF Counts
  <2> QED BY <2>1, LenProperties
<1>4. /\ n \in Nat /\ C(0) = 0 /\ C(n) = m
      /\ \A k \in 0 .. n : C(k) \in 0 .. m
      /\ \A k \in 1 .. n : /\ k - 1 \in 0 .. n /\ k \in 0 .. n
                           /\ C(k) = IF p[k] \in K THEN C(k - 1) + 1 ELSE C(k - 1)
  <2>1. n \in Nat /\ n \in 0 .. n /\ \A k \in 0 .. n : k <= n
    BY <1>2 DEF Counts
  <2>2. \A k \in 0 .. n : C(k) \in Nat /\ C(k) <= C(n)
    BY <1>2, <2>1 DEF Counts
  <2> HIDE DEF C
  <2>3. C(n) = m
    BY <1>2 DEF Counts, C
  <2>4. \A k \in 0 .. n : C(k) \in 0 .. m
    BY <1>3, <2>2, <2>3
  <2> QED BY <1>2, <2>1, <2>3, <2>4 DEF Counts, C
<1>5. ASSUME NEW k \in 1 .. n, p[k] \in K PROVE T[C(k)] = p[k]
  <2>1. k - 1 \in 0 .. n - 1 /\ k - 1 \in 0 .. n /\ k \in 0 .. n /\ (k - 1) + 1 = k
    BY <1>4
  <2>2. F(k) = Append(F(k - 1), p[k])
    <3> HIDE DEF F
    <3>1. \A j \in 0 .. n - 1 : F(j + 1) = IF p[j + 1] \in K THEN Append(F(j), p[j + 1]) ELSE F(j)
      BY <1>1 DEF Gathers, F
    <3> QED BY <1>5, <2>1, <3>1
  <2>3. PICK t, e : t = F(k - 1) /\ e = p[k]
    OBVIOUS
  <2>4. t \in Seq(S) /\ e \in S
    BY <1>1, <2>1, <2>3, ElementOfSeq DEF Gathers
  <2>5. Len(Append(t, e)) = Len(t) + 1 /\ Append(t, e)[Len(t) + 1] = e /\ Len(t) \in Nat
    BY <2>4, AppendProperties, LenProperties
  <2>6. PICK c : c = Len(t) + 1
    OBVIOUS
  <2>7. c \in Nat /\ c \in 1 .. c
    BY <2>5, <2>6
  <2>8. C(k) = c /\ F(k)[c] = p[k] /\ Len(F(k)) = c
    BY <2>2, <2>3, <2>5, <2>6, Zenon DEF Count
  <2>9. \A i \in 1 .. Len(F(k)) : F(k)[i] = T[i]
    BY <2>1, UpToIsPrefix
  <2> HIDE DEF F, C, T
  <2> QED BY <2>7, <2>8, <2>9
<1>6. ASSUME NEW i \in 1 .. m
      PROVE  \E k \in 1 .. n : C(k) = i /\ p[k] \in K /\ p[k] = T[i]
  <2> DEFINE J == {k \in 0 .. n : C(k) >= i}
  <2> HIDE DEF C, T, m
  <2>1. J \subseteq Nat /\ n \in J
    BY <1>3, <1>4
  <2>2. PICK k \in J : \A j \in J : k <= j
    BY <2>1, LeastExists
  <2>3. k # 0
    BY <1>3, <1>4, <2>2
  <2>4. k \in 1 .. n /\ ~(k <= k - 1)
    BY <1>4, <2>2, <2>3
  <2>5. k - 1 \in 0 .. n /\ ~(C(k - 1) >= i)
    BY <1>4, <2>2, <2>4
  <2>6. C(k) = i /\ p[k] \in K
    BY <1>3, <1>4, <2>2, <2>4, <2>5
  <2> QED BY <1>5, <2>4, <2>6
<1> DEFINE G(k) == UpTo(kind, p, k)
           H(i) == UpTo(kind, T, i)
           N == {k \in Nat : k <= n => G(k) = H(C(k))}
<1>7. Gathers(S, kind, T)
  <2> HIDE DEF T
  <2> QED BY <1>3, UpToStep, Zenon
<1>8. /\ G(0) = <<>> /\ H(0) = <<>>
      /\ \A k \in 0 .. n - 1 : G(k + 1) = IF p[k + 1] \in kind THEN Append(G(k), p[k + 1]) ELSE G(k)
      /\ \A k \in 0 .. m - 1 : H(k + 1) = IF T[k + 1] \in kind THEN Append(H(k), T[k + 1]) ELSE H(k)
  BY <1>1, <1>7 DEF Gathers
<1> HIDE DEF n, C, F, T, m, G, H
<1>9. 0 \in N
  BY <1>4, <1>8
<1>10. ASSUME NEW k \in Nat, k \in N PROVE k + 1 \in N
  <2> SUFFICES ASSUME k + 1 <= n PROVE G(k + 1) = H(C(k + 1))
    OBVIOUS
  <2>1. /\ k \in 0 .. n - 1 /\ k + 1 \in 1 .. n /\ k <= n /\ (k + 1) - 1 = k
        /\ k \in 0 .. n /\ k + 1 \in 0 .. n
    BY <1>4
  <2>2. G(k) = H(C(k)) /\ C(k) \in 0 .. m /\ C(k + 1) \in 0 .. m
    BY <1>4, <1>10, <2>1
  <2>3. C(k + 1) = IF p[k + 1] \in K THEN C(k) + 1 ELSE C(k)
    BY <1>4, <2>1
  <2>4. CASE p[k + 1] \in K
    <3>1. C(k) \in 0 .. m - 1 /\ C(k + 1) = C(k) + 1
      BY <1>3, <2>2, <2>3, <2>4
    <3>2. T[C(k) + 1] = p[k + 1]
      BY <1>5, <2>1, <2>4, <3>1
    <3> QED BY <1>8, <2>1, <2>2, <3>1, <3>2
  <2>5. CASE p[k + 1] \notin K
    BY <1>8, <2>1, <2>2, <2>3, <2>5
  <2> QED BY <2>4, <2>5
<1> HIDE DEF N
<1>11. Nat \subseteq N
  BY <1>9, <1>10, SetInduction
<1>12. \A k \in 0 .. n : k \in N /\ k <= n
  BY <1>4, <1>11
<1>13. \A k \in 0 .. n : G(k) = H(C(k))
  BY <1>12 DEF N
<1> QED BY <1>3, <1>4, <1>5, <1>6, <1>13 DEF Projects, n, C, T, m, G, H

\* The shared steps, as the root takes them.
Trace(d) == Of(Shared, Program[d][Root])

\* What is kept keeps its fences.
LEMMA FencedProjects ==
  ASSUME NEW S, NEW p \in Seq(S), NEW K, Records \subseteq K, NEW kind, kind \subseteq K,
         NEW stop, Fenced(kind, stop, p)
  PROVE  Fenced(kind, stop, Of(K, p))
<1> DEFINE n == Len(p)
           T == Of(K, p)
           m == Len(T)
           C(k) == Count(K, p, k)
<1>1. Counts(K, p)
  BY CountStep, Zenon
<1>2. K \subseteq K
  OBVIOUS
<1>3. Projects(K, K, p) /\ T \in Seq(S)
  BY <1>2, OfProjects, Zenon
<1>4. /\ n \in Nat /\ m \in Nat
      /\ \A k \in 0 .. n : C(k) \in Nat
      /\ \A k \in 1 .. n : k - 1 \in 0 .. n /\ k \in 0 .. n
                           /\ C(k) = IF p[k] \in K THEN C(k - 1) + 1 ELSE C(k - 1)
      /\ \A j, k \in 0 .. n : j <= k => C(j) <= C(k)
      /\ \A k \in 0 .. n : C(k) \in 0 .. m
      /\ \A k \in 1 .. n : p[k] \in K => T[C(k)] = p[k]
      /\ \A i \in 1 .. m : \E k \in 1 .. n : C(k) = i /\ p[k] \in K /\ p[k] = T[i]
  BY <1>1, <1>3, LenProperties DEF Counts, Projects
<1>5. \A k \in 1 .. n : p[k] \in Records =>
        \E i \in 1 .. k - 1 : p[i] \in kind /\ \A j \in i + 1 .. k - 1 : p[j] \notin stop
  BY DEF Fenced
<1> HIDE DEF n, T, m, C
<1>6. ASSUME NEW i \in 1 .. m, T[i] \in Records
      PROVE  \E h \in 1 .. i - 1 : T[h] \in kind /\ \A j \in h + 1 .. i - 1 : T[j] \notin stop
  <2>1. PICK k \in 1 .. n : C(k) = i /\ p[k] \in K /\ p[k] = T[i]
    BY <1>4
  <2>2. PICK g \in 1 .. k - 1 : p[g] \in kind /\ \A j \in g + 1 .. k - 1 : p[j] \notin stop
    BY <1>5, <1>6, <2>1
  <2>3. g \in 1 .. n /\ g \in 0 .. n /\ g <= k - 1 /\ k - 1 \in 0 .. n /\ p[g] \in K
    BY <1>4, <2>2
  <2>4. C(k) = C(k - 1) + 1 /\ C(g) <= C(k - 1) /\ C(g) \in Nat /\ C(k - 1) \in Nat
        /\ C(g) = C(g - 1) + 1 /\ C(g - 1) \in Nat
    BY <1>4, <2>1, <2>3
  <2>a. C(k) = i /\ i \in Nat
    BY <1>4, <2>1
  <2>b. C(g) \in 1 .. i - 1
    BY <2>4, <2>a
  <2>c. T[C(g)] = p[g]
    BY <1>4, <2>3
  <2>5. C(g) \in 1 .. i - 1 /\ T[C(g)] = p[g]
    BY <2>b, <2>c
  <2>6. ASSUME NEW j \in C(g) + 1 .. i - 1 PROVE T[j] \notin stop
    <3>1. j \in 1 .. m
      <4>1. C(g) \in Nat /\ m \in Nat
        BY <1>4, <2>4
      <4> QED BY <4>1
    <3>2. PICK l \in 1 .. n : C(l) = j /\ p[l] \in K /\ p[l] = T[j]
      BY <1>4, <3>1
    <3>a. l \in 0 .. n /\ k \in 0 .. n /\ C(l) \in Nat /\ C(l) < C(k) /\ C(g) < C(l)
      <4>0. l \in 1 .. n /\ k \in 1 .. n /\ n \in Nat
        BY <1>4, <2>1, <3>2
      <4>1. l \in 0 .. n /\ k \in 0 .. n
        BY <4>0
      <4>2. C(l) = j /\ C(k) = i
        BY <2>1, <3>2
      <4>3. j \in Nat /\ j < i /\ C(g) < j
        BY <2>4, <2>a
      <4> QED BY <4>1, <4>2, <4>3
    <3>b. (l <= g => C(l) <= C(g)) /\ (k <= l => C(k) <= C(l))
      BY <1>4, <2>3, <3>a
    <3>3. ~(l <= g) /\ ~(k <= l)
      <4>0. C(g) \in Nat /\ C(k) \in Nat
        BY <2>1, <2>4, <2>a
      <4>1. ~(C(l) <= C(g)) /\ ~(C(k) <= C(l))
        BY <3>a, <4>0
      <4> QED BY <3>b, <4>1, Zenon
    <3>4. l \in g + 1 .. k - 1
      <4>1. n \in Nat
        BY <1>4
      <4> QED BY <3>3, <4>1
    <3>5. p[l] \notin stop
      BY <2>2, <3>4
    <3> QED BY <3>2, <3>5, Zenon
  <2> QED BY <2>2, <2>5, <2>6
<1> QED BY <1>6 DEF Fenced, T, m

\* A rank's way through the trace.
Follow(d, r) ==
  /\ Program[d][r] \in Seq(Names) /\ Trace(d) \in Seq(Names)
  /\ Len(Program[d][r]) \in Nat \ {0} /\ Len(Trace(d)) \in Nat
  /\ Program[d][r][Len(Program[d][r])] \in Collectives
  /\ Count(Shared, Program[d][r], 0) = 0
  /\ Count(Shared, Program[d][r], Len(Program[d][r])) = Len(Trace(d))
  /\ \A k \in 0 .. Len(Program[d][r]) : Count(Shared, Program[d][r], k) \in 0 .. Len(Trace(d))
  /\ \A k \in 1 .. Len(Program[d][r]) :
       /\ k - 1 \in 0 .. Len(Program[d][r]) /\ k \in 0 .. Len(Program[d][r])
       /\ Program[d][r][k] \in Shared =>
            /\ Count(Shared, Program[d][r], k) = Count(Shared, Program[d][r], k - 1) + 1
            /\ Trace(d)[Count(Shared, Program[d][r], k)] = Program[d][r][k]
       /\ Program[d][r][k] \notin Shared =>
            Count(Shared, Program[d][r], k) = Count(Shared, Program[d][r], k - 1)

\* Each rank goes through all of it, and takes a collective as its last step.
LEMMA RanksFollow ==
  ASSUME NEW d \in Drivers, NEW r \in Ranks
  PROVE  Follow(d, r)
<1> DEFINE P == Program[d][r]
           T == Trace(d)
<1>1. Root \in Ranks
  BY RanksAssumption DEF Ranks, Root
<1>2. Proper(Mode(d), P, Program[d][Root], ArraysOf(d))
  BY <1>1, ProgramsProper
<1>3. P \in Seq(Names) /\ Of(Shared, P) = T /\ Ends(P)
  BY <1>2 DEF Proper, Twins, Alike, Trace
<1> HIDE DEF P, T
<1>4. Shared \subseteq Shared
  OBVIOUS
<1>a. P \in Seq(Names)
  BY <1>3
<1>5. Projects(Shared, Shared, P) /\ Of(Shared, P) \in Seq(Names)
  BY <1>4, <1>a, OfProjects, Zenon
<1>6. Counts(Shared, P)
  BY <1>a, CountStep, Zenon
<1>7. Len(T) \in Nat /\ T \in Seq(Names)
  BY <1>3, <1>5, LenProperties
<1>8. Len(P) \in Nat \ {0} /\ P[Len(P)] \in Collectives
  BY <1>3, <1>6, EmptySeq DEF Ends, Counts
<1>9. \A k \in 0 .. Len(P) : Count(Shared, P, k) \in 0 .. Len(T)
  BY <1>3, <1>5 DEF Projects
<1>10. ASSUME NEW k \in 1 .. Len(P)
       PROVE  /\ k - 1 \in 0 .. Len(P) /\ k \in 0 .. Len(P)
              /\ P[k] \in Shared => /\ Count(Shared, P, k) = Count(Shared, P, k - 1) + 1
                                    /\ T[Count(Shared, P, k)] = P[k]
              /\ P[k] \notin Shared => Count(Shared, P, k) = Count(Shared, P, k - 1)
  BY <1>3, <1>5, <1>6, <1>10 DEF Counts, Projects
<1>11. Count(Shared, P, 0) = 0 /\ Count(Shared, P, Len(P)) = Len(T)
  BY <1>3, <1>6 DEF Counts
<1> QED BY <1>a, <1>7, <1>8, <1>9, <1>10, <1>11 DEF Follow, P, T

\* What the trace of a program is like.
Well(d) ==
  /\ Trace(d) \in Seq(Names) /\ ArraysOf(d) \in Nat
  /\ Orderly(Mode(d), Trace(d))
  /\ Count(Records, Trace(d), Len(Trace(d))) = ArraysOf(d)
  /\ \A i \in 1 .. Len(Trace(d)) :
       Trace(d)[i] = "reduce" => Count(Records, Trace(d), i) = ArraysOf(d)
  /\ \E i \in 1 .. Len(Trace(d)) : Trace(d)[i] = "reduce"

\* The trace reports what the programs report, and has their fences.
LEMMA TraceWell ==
  ASSUME NEW d \in Drivers
  PROVE  Well(d)
<1> DEFINE P == Program[d][Root]
           T == Trace(d)
           n == ArraysOf(d)
<1>1. Root \in Ranks
  BY RanksAssumption DEF Ranks, Root
<1>2. Proper(Mode(d), P, P, n) /\ n \in Nat
  BY <1>1, ProgramsProper
<1>3. Reports(P, n) /\ Orderly(Mode(d), P) /\ Of(Shared, P) = T
  BY <1>2 DEF Proper, Twins, Trace
<1>4. P \in Seq(Names)
  BY <1>3 DEF Reports
<1> HIDE DEF P, T, n
<1>5. /\ Records \subseteq Shared /\ Syncs \subseteq Shared /\ {"min"} \subseteq Shared
      /\ {"max"} \subseteq Shared /\ {"reduce"} \subseteq Shared
  BY DEF Shared, Names, Records, Syncs, Collectives
<1>6. /\ Projects(Shared, Records, P) /\ Projects(Shared, {"reduce"}, P)
      /\ Of(Shared, P) \in Seq(Names)
  BY <1>4, <1>5, OfProjects, Zenon
<1>7. T \in Seq(Names)
  BY <1>3, <1>6
<1>8. Counts(Shared, P) /\ Counts(Records, T) /\ Counts(Records, P)
  BY <1>4, <1>7, CountStep, Zenon
<1>9. Orderly(Mode(d), T)
  <2>1. Fenced(Syncs, Records, T)
    BY <1>3, <1>4, <1>5, FencedProjects DEF Orderly
  <2>2. Mode(d) = "ranges" => /\ Fenced({"min"}, Records \cup Measures \cup {"min"}, T)
                              /\ Fenced({"max"}, Records \cup Measures \cup {"max"}, T)
    BY <1>3, <1>4, <1>5, FencedProjects DEF Orderly
  <2>3. Mode(d) = "none" => \A i \in 1 .. Len(T) : T[i] # "scan"
    <3>1. \A i \in 1 .. Len(T) : \E k \in 1 .. Len(P) : P[k] = T[i]
      BY <1>3, <1>6 DEF Projects
    <3> QED BY <1>3, <3>1 DEF Orderly
  <2> QED BY <2>1, <2>2, <2>3 DEF Orderly
<1>10. \A k \in 0 .. Len(P) : Count(Records, P, k) = Count(Records, T, Count(Shared, P, k))
  BY <1>3, <1>6 DEF Projects, Count
<1>11. Count(Records, T, Len(T)) = n
  <2>1. Count(Records, P, Len(P)) = n
    BY <1>3, <1>8 DEF Counts, Reports
  <2>2. Count(Shared, P, Len(P)) = Len(T) /\ Len(P) \in 0 .. Len(P)
    BY <1>3, <1>8 DEF Counts
  <2> QED BY <1>10, <2>1, <2>2
<1>12. ASSUME NEW i \in 1 .. Len(T), T[i] = "reduce" PROVE Count(Records, T, i) = n
  <2>1. PICK k \in 1 .. Len(P) : Count(Shared, P, k) = i /\ P[k] = T[i]
    BY <1>3, <1>6 DEF Projects
  <2>2. Count(Records, P, k) = n
    BY <1>3, <1>12, <2>1 DEF Reports, Count
  <2>3. k \in 0 .. Len(P)
    BY <1>8, <2>1 DEF Counts
  <2> QED BY <1>10, <2>1, <2>2, <2>3
<1>13. \E i \in 1 .. Len(T) : T[i] = "reduce"
  <2>1. PICK k \in 1 .. Len(P) : P[k] = "reduce"
    <3>1. Of({"reduce"}, P) # <<>>
      BY <1>3 DEF Reports
    <3> QED BY <1>4, <3>1, OfNone
  <2>2. P[k] \in Shared
    BY <1>5, <2>1
  <2>3. /\ k - 1 \in 0 .. Len(P) /\ k \in 0 .. Len(P)
        /\ Count(Shared, P, k) = Count(Shared, P, k - 1) + 1
        /\ Count(Shared, P, k - 1) \in Nat
    BY <1>8, <2>1, <2>2 DEF Counts
  <2>4. Count(Shared, P, k) \in 0 .. Len(T) /\ T[Count(Shared, P, k)] = P[k]
    BY <1>3, <1>6, <2>1, <2>2, <2>3 DEF Projects
  <2> QED BY <2>1, <2>3, <2>4
<1> QED BY <1>2, <1>7, <1>9, <1>11, <1>12, <1>13 DEF Well, T, n

\* How many of them a rank has done, and how many it has begun: it is inside a
\* collective it has called.
Pos(r)    == Count(Shared, Program[driver][r], at[r] - 1)
Joined(r) == inside[r] /\ Step(r) \in Collectives
Begun(r)  == IF Joined(r) THEN Pos(r) + 1 ELSE Pos(r)

-----------------------------------------------------------------------------
(* The invariant *)

TypeInv ==
  /\ driver \in Drivers /\ eager \in BOOLEAN
  /\ at \in [Ranks -> Nat] /\ inside \in [Ranks -> BOOLEAN]
  /\ posted \in [Ranks -> Seq(Names)]
  /\ extremes \in [Ranks -> Int \X Int] /\ global \in [Ranks -> Int \X Int]
  /\ frames \in [Ranks -> Seq(Int)]
  /\ status \in [Ranks -> {"running", "finalizing", "exited"}]
  /\ code \in [Ranks -> {0, 1}]
  /\ total \in Nat
  /\ size \in [Ranks -> Nat] /\ offset \in [Ranks -> Nat] /\ opened \in [Ranks -> Nat]
  /\ inbox \in [Ranks -> Seq(Nat)]
  /\ written \subseteq Nat \X Ranks \X Nat \X Nat

\* Where a rank is in its program, and how it can have left it.
Placed(r) ==
  /\ at[r] \in 1 .. Len(Program[driver][r]) + 1
  /\ inside[r] => /\ at[r] <= Len(Program[driver][r])
                  /\ Step(r) \in Collectives \cup {"send"} /\ status[r] = "running"
  /\ code[r] = 1 => /\ status[r] # "running" /\ at[r] <= Len(Program[driver][r])
                    /\ Step(r) \in CanFail
  /\ code[r] = 0 /\ status[r] # "running" => at[r] = Len(Program[driver][r]) + 1

\* What it has called and recorded follows from that.
Kept(r) ==
  /\ posted[r] = UpTo(Collectives, Trace(driver), Begun(r))
  /\ Len(frames[r]) = Count(Records, Trace(driver), Pos(r))

\* A collective that binds the rank has been begun by all when the rank is past it.
Binds(r, i) == Trace(driver)[i] \in Collectives /\ (Trace(driver)[i] # "reduce" \/ r = Root)
AllBegun(i) == \A q \in Ranks : Begun(q) >= i
Awaited(r)  == \A i \in 1 .. Pos(r) : Binds(r, i) => AllBegun(i)

\* A reduction begun by all has counted the arrays of all.
Totalled ==
  \A i \in 1 .. Len(Trace(driver)) :
    Trace(driver)[i] = "reduce" /\ AllBegun(i) => total = NumRanks * Arrays

RanksInv ==
  /\ TypeInv
  /\ \A r \in Ranks : Placed(r) /\ Kept(r) /\ Awaited(r)
  /\ Totalled

-----------------------------------------------------------------------------
(* The value ranges *)

\* A step of its kind that no other of the kind and no measuring follows before the
\* array's range is recorded.
Final(op, i) ==
  /\ Trace(driver)[i] = op
  /\ \A j \in i + 1 .. Len(Trace(driver)) :
       Trace(driver)[j] \in Measures \cup {op} =>
         Count(Records, Trace(driver), i) < Count(Records, Trace(driver), j)

Spread(e) == e[2] - e[1]

\* Two ranks at the same array hold the same range, one that is an array ahead
\* none yet, and then the other holds what that one has recorded.
Together(r, q) ==
  /\ Len(frames[r]) = Len(frames[q]) => global[r] = global[q]
  /\ Len(frames[r]) > Len(frames[q]) =>
       /\ Len(frames[r]) = Len(frames[q]) + 1
       /\ global[r] = <<0, 0>>
       /\ frames[r][Len(frames[r])] = Spread(global[q])
  /\ \A f \in DOMAIN frames[r] \cap DOMAIN frames[q] : frames[r][f] = frames[q][f]

\* After the last reduction of an array's minimum, or maximum, the ranks at that
\* array hold one that covers their parts.
Covered(r, q) ==
  \A i \in 1 .. Len(Trace(driver)) :
    AllBegun(i) /\ Len(frames[r]) = Count(Records, Trace(driver), i)
                /\ Len(frames[q]) = Count(Records, Trace(driver), i) =>
      /\ Final("min", i) => global[r][1] <= extremes[q][1]
      /\ Final("max", i) => extremes[q][2] <= global[r][2]

\* Who measures nothing has no range.
Unmeasured ==
  driver \notin Measuring =>
    \A r \in Ranks : extremes[r] = <<0, 0>> /\ global[r] = <<0, 0>>

RangesInv == (\A r, q \in Ranks : Together(r, q) /\ Covered(r, q)) /\ Unmeasured

-----------------------------------------------------------------------------
(* Types *)

\* The ranks are finitely many.
LEMMA RanksFinite ==
  IsFiniteSet(Ranks) /\ Cardinality(Ranks) = NumRanks /\ Root \in Ranks
<1>1. NumRanks \in Nat \ {0} /\ Root \in Ranks
  BY RanksAssumption DEF Ranks, Root
<1>2. IsFiniteSet(Ranks) /\ Cardinality(Ranks) = NumRanks
  <2>1. 0 \in Int /\ NumRanks - 1 \in Int /\ ~(0 > NumRanks - 1) /\ (NumRanks - 1) - 0 + 1 = NumRanks
    BY <1>1
  <2> QED BY <2>1, FS_Interval DEF Ranks
<1> QED BY <1>1, <1>2

\* The least and the largest of the numbers they have.
Bounds(w, low, high) ==
  /\ low \in {w[q] : q \in Ranks} /\ high \in {w[q] : q \in Ranks}
  /\ \A q \in Ranks : low <= w[q] /\ w[q] <= high

\* Finitely many numbers have both.
LEMMA MinMax ==
  ASSUME NEW w, \A q \in Ranks : w[q] \in Int
  PROVE  Bounds(w, Min({w[q] : q \in Ranks}), Max({w[q] : q \in Ranks}))
<1> DEFINE S == {w[q] : q \in Ranks}
           v == [q \in Ranks |-> 0 - w[q]]
<1>1. IsFiniteSet(Ranks) /\ Ranks # {}
  BY RanksFinite
<1>2. PICK i \in Ranks : \A j \in Ranks : w[j] <= w[i]
  BY <1>1, LargestExists
<1>3. \A q \in Ranks : v[q] \in Int
  OBVIOUS
<1>4. PICK h \in Ranks : \A j \in Ranks : v[j] <= v[h]
  <2> HIDE DEF v
  <2> QED BY <1>1, <1>3, LargestExists
<1>5. \A j \in Ranks : w[h] <= w[j]
  BY <1>4
<1>6. \E x \in S : \A y \in S : x >= y
  BY <1>2
<1>7. \E x \in S : \A y \in S : x <= y
  BY <1>5
<1>8. Max(S) \in S /\ \A y \in S : Max(S) >= y
  BY <1>6 DEF Max
<1>9. Min(S) \in S /\ \A y \in S : Min(S) <= y
  BY <1>7 DEF Min
<1>10. S \subseteq Int /\ \A q \in Ranks : w[q] \in S
  OBVIOUS
<1> HIDE DEF S
<1>11. \A q \in Ranks : Min(S) <= w[q] /\ w[q] <= Max(S)
  BY <1>8, <1>9, <1>10
<1> QED BY <1>8, <1>9, <1>11 DEF S, Bounds

\* The step a rank is at.
LEMMA StepIsName ==
  ASSUME TypeInv, NEW r \in Ranks, at[r] \in 1 .. Len(Program[driver][r])
  PROVE  Step(r) \in Names
<1>1. driver \in Drivers
  BY DEF TypeInv
<1>2. Program[driver][r] \in Seq(Names)
  BY <1>1, RanksFollow DEF Follow
<1> QED BY <1>2, ElementOfSeq DEF Step

\* A reduction gives everyone the least, or the largest.
Lowered(ranges) ==
  \E low \in {extremes[q][1] : q \in Ranks} :
    /\ \A q \in Ranks : low <= extremes[q][1]
    /\ ranges = [q \in Ranks |-> <<low, global[q][2]>>]
Raised(ranges) ==
  \E high \in {extremes[q][2] : q \in Ranks} :
    /\ \A q \in Ranks : extremes[q][2] <= high
    /\ ranges = [q \in Ranks |-> <<global[q][1], high>>]

\* The ranges after a reduction.
LEMMA ReducedIs ==
  ASSUME extremes \in [Ranks -> Int \X Int], global \in [Ranks -> Int \X Int], NEW op
  PROVE  /\ Reduced(op) \in [Ranks -> Int \X Int]
         /\ op \notin {"min", "max"} => Reduced(op) = global
         /\ op = "min" => Lowered(Reduced(op))
         /\ op = "max" => Raised(Reduced(op))
<1> DEFINE lows  == [q \in Ranks |-> extremes[q][1]]
           highs == [q \in Ranks |-> extremes[q][2]]
<1>1. \A q \in Ranks : extremes[q] \in Int \X Int /\ global[q] \in Int \X Int
  OBVIOUS
<1>2. \A q \in Ranks : /\ lows[q] \in Int /\ highs[q] \in Int
                      /\ lows[q] = extremes[q][1] /\ highs[q] = extremes[q][2]
  BY <1>1
<1>3. /\ {extremes[q][1] : q \in Ranks} = {lows[q] : q \in Ranks}
      /\ {extremes[q][2] : q \in Ranks} = {highs[q] : q \in Ranks}
  BY <1>2
<1> HIDE DEF lows, highs
<1>4. PICK a, b : /\ a = Min({extremes[q][1] : q \in Ranks})
                  /\ b = Max({extremes[q][2] : q \in Ranks})
  OBVIOUS
<1>5. Bounds(lows, Min({lows[q] : q \in Ranks}), Max({lows[q] : q \in Ranks}))
  BY <1>2, MinMax
<1>6. Bounds(highs, Min({highs[q] : q \in Ranks}), Max({highs[q] : q \in Ranks}))
  BY <1>2, MinMax
<1>7. /\ a \in {extremes[q][1] : q \in Ranks} /\ \A q \in Ranks : a <= extremes[q][1]
      /\ a \in Int
  <2>1. a = Min({lows[q] : q \in Ranks})
    BY <1>3, <1>4
  <2>2. a \in {lows[q] : q \in Ranks} /\ \A q \in Ranks : a <= lows[q]
    BY <1>5, <2>1 DEF Bounds
  <2> QED BY <1>2, <1>3, <2>2
<1>8. /\ b \in {extremes[q][2] : q \in Ranks} /\ \A q \in Ranks : extremes[q][2] <= b
      /\ b \in Int
  <2>1. b = Max({highs[q] : q \in Ranks})
    BY <1>3, <1>4
  <2>2. b \in {highs[q] : q \in Ranks} /\ \A q \in Ranks : highs[q] <= b
    BY <1>6, <2>1 DEF Bounds
  <2> QED BY <1>2, <1>3, <2>2
<1>9. ASSUME op = "min" PROVE Reduced(op) = [q \in Ranks |-> <<a, global[q][2]>>]
  BY <1>4, <1>9 DEF Reduced
<1>10. ASSUME op = "max" PROVE Reduced(op) = [q \in Ranks |-> <<global[q][1], b>>]
  BY <1>4, <1>10 DEF Reduced
<1>11. ASSUME op \notin {"min", "max"} PROVE Reduced(op) = global
  BY <1>11 DEF Reduced
<1>12. \A q \in Ranks : /\ <<a, global[q][2]>> \in Int \X Int
                       /\ <<global[q][1], b>> \in Int \X Int
  BY <1>1, <1>7, <1>8
<1>13. Reduced(op) \in [Ranks -> Int \X Int]
  BY <1>9, <1>10, <1>11, <1>12
<1>14. op = "min" => Lowered(Reduced(op))
  BY <1>7, <1>9 DEF Lowered
<1>15. op = "max" => Raised(Reduced(op))
  BY <1>8, <1>10 DEF Raised
<1> QED BY <1>11, <1>13, <1>14, <1>15

\* All ranks start at the beginning.
LEMMA TypeInit ==
  ASSUME Init
  PROVE  TypeInv
<1>1. <<>> \in Seq(Names) /\ <<>> \in Seq(Int) /\ <<>> \in Seq(Nat) /\ <<0, 0>> \in Int \X Int
  BY EmptySeq
<1>2. /\ posted \in [Ranks -> Seq(Names)] /\ frames \in [Ranks -> Seq(Int)]
      /\ inbox \in [Ranks -> Seq(Nat)]
  BY <1>1 DEF Init
<1>3. extremes \in [Ranks -> Int \X Int] /\ global \in [Ranks -> Int \X Int]
  BY <1>1 DEF Init
<1> QED BY <1>2, <1>3 DEF Init, TypeInv

\* Every step keeps the types.
LEMMA TypeNext ==
  ASSUME TypeInv, [Next]_vars
  PROVE  TypeInv'
<1> USE DEF TypeInv
<1>0. ASSUME NEW r \in Ranks, GoOn(r) PROVE at' \in [Ranks -> Nat]
  <2>1. at[r] \in Nat /\ at \in [Ranks -> Nat]
    OBVIOUS
  <2> QED BY <1>0, <2>1 DEF GoOn
<1>1. ASSUME UNCHANGED vars PROVE TypeInv'
  BY <1>1 DEF vars, fileVars
<1>2. ASSUME NEW r \in Ranks, Scan(r) PROVE TypeInv'
  <2>1. PICK low \in Values, high \in Values : extremes' = [extremes EXCEPT ![r] = <<low, high>>]
    BY <1>2 DEF Scan
  <2>2. low \in Int /\ high \in Int
    BY ValuesAssumption
  <2>3. <<low, high>> \in Int \X Int
    BY <2>2
  <2>4. extremes' \in [Ranks -> Int \X Int]
    BY <2>1, <2>3
  <2> QED BY <1>0, <1>2, <2>4 DEF Scan, AfterScan, fileVars
<1>3. ASSUME NEW r \in Ranks, Work(r) PROVE TypeInv'
  <2>1. CASE Step(r) \in Records
    <3>1. global[r][2] - global[r][1] \in Int /\ frames[r] \in Seq(Int)
      <4>1. global[r] \in Int \X Int /\ frames[r] \in Seq(Int)
        OBVIOUS
      <4>2. PICK a \in Int, b \in Int : global[r][1] = a /\ global[r][2] = b
        BY <4>1
      <4> QED BY <4>1, <4>2
    <3>2. Append(frames[r], global[r][2] - global[r][1]) \in Seq(Int)
      BY <3>1
    <3>3. frames' \in [Ranks -> Seq(Int)]
      <4>1. PICK s : s = Append(frames[r], global[r][2] - global[r][1])
        OBVIOUS
      <4>2. frames' = [frames EXCEPT ![r] = s]
        BY <1>3, <2>1, <4>1 DEF Work
      <4> QED BY <3>2, <4>1, <4>2
    <3>4. <<0, 0>> \in Int \X Int
      OBVIOUS
    <3>5. extremes' \in [Ranks -> Int \X Int] /\ global' \in [Ranks -> Int \X Int]
      <4>1. PICK o : o = <<0, 0>>
        OBVIOUS
      <4>2. /\ extremes' = [extremes EXCEPT ![r] = o]
            /\ global' = [global EXCEPT ![r] = o]
        BY <1>3, <2>1, <4>1 DEF Work
      <4> QED BY <3>4, <4>1, <4>2
    <3> QED BY <1>0, <1>3, <3>3, <3>5 DEF Work, fileVars
  <2>2. CASE Step(r) \notin Records
    BY <1>0, <1>3, <2>2 DEF Work, fileVars
  <2> QED BY <2>1, <2>2
<1>4. ASSUME NEW r \in Ranks, Fail(r) PROVE TypeInv'
  BY <1>4 DEF Fail, fileVars
<1>5. ASSUME NEW r \in Ranks, Enter(r) PROVE TypeInv'
  <2>1. Step(r) \in Names /\ posted[r] \in Seq(Names)
    BY <1>5 DEF Enter, Names
  <2>2. Append(posted[r], Step(r)) \in Seq(Names)
    BY <2>1
  <2>3. posted' \in [Ranks -> Seq(Names)] /\ inside' \in [Ranks -> BOOLEAN]
    BY <1>5, <2>2 DEF Enter
  <2>4. Reduced(Step(r)) \in [Ranks -> Int \X Int]
    BY ReducedIs
  <2>5. SumFunction([q \in Ranks |-> Len(frames[q])]) \in Nat
    <3> DEFINE w == [q \in Ranks |-> Len(frames[q])]
    <3>1. \A q \in Ranks : frames[q] \in Seq(Int)
      OBVIOUS
    <3>2. (\A q \in Ranks : w[q] \in Nat) /\ DOMAIN w = Ranks
      BY <3>1, LenProperties
    <3> HIDE DEF w
    <3>3. SumFunctionOnSet(w, Ranks) \in Nat
      BY <3>2, RanksFinite, SumNatural
    <3>4. SumFunction(w) = SumFunctionOnSet(w, DOMAIN w)
      BY DEF SumFunction
    <3> QED BY <3>2, <3>3, <3>4, Zenon DEF w
  <2>6. global' \in [Ranks -> Int \X Int] /\ total' \in Nat
    BY <1>5, <2>4, <2>5 DEF Enter
  <2> QED BY <1>5, <2>3, <2>6 DEF Enter, fileVars
<1>6. ASSUME NEW r \in Ranks, Leave(r) PROVE TypeInv'
  <2>1. at' \in [Ranks -> Nat]
    BY <1>0, <1>6 DEF Leave
  <2>2. opened' \in [Ranks -> Nat]
    <3>1. opened[r] + 1 \in Nat
      OBVIOUS
    <3> QED BY <1>6, <3>1 DEF Leave
  <2>3. inside' \in [Ranks -> BOOLEAN]
    BY <1>6 DEF Leave
  <2> QED BY <1>6, <2>1, <2>2, <2>3 DEF Leave
<1>7. ASSUME NEW r \in Ranks, Pack(r) PROVE TypeInv'
  BY <1>0, <1>7, PartSizesAssumption DEF Pack
<1>8. ASSUME NEW r \in Ranks, Recv(r) PROVE TypeInv'
  <2>1. PICK b : b = inbox[r]
    OBVIOUS
  <2>2. b \in Seq(Nat) /\ b # <<>>
    BY <1>8, <2>1 DEF Recv
  <2>3. Head(b) \in Nat /\ Tail(b) \in Seq(Nat)
    BY <2>2, HeadTailProperties
  <2>4. offset' \in [Ranks -> Nat] /\ inbox' \in [Ranks -> Seq(Nat)]
    BY <1>8, <2>1, <2>3 DEF Recv
  <2> QED BY <1>0, <1>8, <2>4 DEF Recv
<1>9. ASSUME NEW r \in Ranks, Send(r) PROVE TypeInv'
  <2>1. offset[r] + size[r] \in Nat
    OBVIOUS
  <2>2. r + 1 \in Ranks => Append(inbox[r + 1], offset[r] + size[r]) \in Seq(Nat)
    BY <2>1
  <2>3. inbox' \in [Ranks -> Seq(Nat)]
    BY <1>9, <2>2 DEF Send
  <2> QED BY <1>9, <2>3 DEF Send
<1>10. ASSUME NEW r \in Ranks, Sent(r) PROVE TypeInv'
  BY <1>0, <1>10 DEF Sent, fileVars
<1>11. ASSUME NEW r \in Ranks, Write(r) PROVE TypeInv'
  <2>1. <<opened[r], r, offset[r], size[r]>> \in Nat \X Ranks \X Nat \X Nat
    OBVIOUS
  <2>2. written' \subseteq Nat \X Ranks \X Nat \X Nat
    BY <1>11, <2>1 DEF Write
  <2> QED BY <1>0, <1>11, <2>2 DEF Write
<1>12. ASSUME NEW r \in Ranks, Return(r) PROVE TypeInv'
  BY <1>12 DEF Return, fileVars
<1>13. ASSUME NEW r \in Ranks, Exit(r) PROVE TypeInv'
  BY <1>13 DEF Exit, fileVars
<1> QED
  BY <1>1, <1>2, <1>3, <1>4, <1>5, <1>6, <1>7, <1>8, <1>9, <1>10, <1>11, <1>12, <1>13
  DEF Next, RankStep

-----------------------------------------------------------------------------
(* Where a step takes the ranks *)

\* The trace is counted step by step.
LEMMA TraceCounts ==
  ASSUME NEW d \in Drivers
  PROVE  /\ Counts(Collectives, Trace(d)) /\ Counts(Records, Trace(d))
         /\ Trace(d) \in Seq(Names) /\ Len(Trace(d)) \in Nat
<1>1. Trace(d) \in Seq(Names)
  BY TraceWell DEF Well
<1>2. Counts(Collectives, Trace(d)) /\ Counts(Records, Trace(d))
  BY <1>1, CountStep, Zenon
<1> QED BY <1>1, <1>2 DEF Counts

\* A rank's place in the trace, and what its next step is there.
Position(r) ==
  /\ Pos(r) \in 0 .. Len(Trace(driver)) /\ Len(Trace(driver)) \in Nat
  /\ at[r] \in Nat \ {0} /\ (at[r] + 1) - 1 = at[r]
  /\ Len(Program[driver][r]) \in Nat \ {0}
  /\ at[r] <= Len(Program[driver][r]) =>
       /\ Pos(r) < Len(Trace(driver)) /\ Step(r) \in Names
       /\ Step(r) \in Shared => /\ Count(Shared, Program[driver][r], at[r]) = Pos(r) + 1
                                /\ Trace(driver)[Pos(r) + 1] = Step(r)
       /\ Step(r) \notin Shared => Count(Shared, Program[driver][r], at[r]) = Pos(r)
  /\ at[r] = Len(Program[driver][r]) + 1 => Pos(r) = Len(Trace(driver))

\* Every rank has one.
LEMMA PositionIs ==
  ASSUME TypeInv, NEW r \in Ranks, Placed(r)
  PROVE  Position(r)
<1> DEFINE P == Program[driver][r]
           T == Trace(driver)
           n == Len(P)
<1>1. driver \in Drivers /\ at[r] \in 1 .. n + 1
  BY DEF TypeInv, Placed
<1>2. Follow(driver, r)
  BY <1>1, RanksFollow
<1>3. P \in Seq(Names)
  BY <1>2 DEF Follow
<1>4. Counts(Shared, P)
  <2> HIDE DEF P
  <2> QED BY <1>3, CountStep, Zenon
<1>5. n \in Nat \ {0} /\ Len(T) \in Nat
  BY <1>2 DEF Follow
<1>6. at[r] - 1 \in 0 .. n /\ at[r] \in Nat \ {0} /\ (at[r] + 1) - 1 = at[r]
  BY <1>1, <1>5
<1>7. Pos(r) \in 0 .. Len(T)
  BY <1>2, <1>6 DEF Follow, Pos
<1>8. at[r] = n + 1 => Pos(r) = Len(T)
  <2>1. (n + 1) - 1 = n
    BY <1>5
  <2> QED BY <1>2, <2>1 DEF Follow, Pos
<1>9. ASSUME at[r] <= n
      PROVE  /\ Pos(r) < Len(T) /\ Step(r) \in Names
             /\ Step(r) \in Shared => /\ Count(Shared, P, at[r]) = Pos(r) + 1
                                      /\ T[Pos(r) + 1] = Step(r)
             /\ Step(r) \notin Shared => Count(Shared, P, at[r]) = Pos(r)
  <2>1. at[r] \in 1 .. n
    BY <1>1, <1>5, <1>9
  <2>2. Step(r) \in Names
    BY <1>3, <2>1, ElementOfSeq DEF Step
  <2>3. Pos(r) < Len(T)
    <3>1. n \in 1 .. n /\ n - 1 \in 0 .. n /\ at[r] - 1 <= n - 1
      <4>1. PICK x : x = at[r]
        OBVIOUS
      <4>2. PICK y \in Nat \ {0} : y = n
        BY <1>5
      <4>3. x \in 1 .. y
        BY <2>1, <4>1, <4>2
      <4>4. y \in 1 .. y /\ y - 1 \in 0 .. y /\ x - 1 <= y - 1
        BY <4>3
      <4> QED BY <4>1, <4>2, <4>4
    <3>2. P[n] \in Collectives /\ Collectives \subseteq Shared
      BY <1>2 DEF Follow, Shared, Names, Collectives
    <3>3. Count(Shared, P, n) = Count(Shared, P, n - 1) + 1 /\ Count(Shared, P, n) = Len(T)
      BY <1>2, <3>1, <3>2 DEF Follow
    <3>4. Count(Shared, P, at[r] - 1) <= Count(Shared, P, n - 1)
      BY <1>4, <1>6, <3>1 DEF Counts
    <3>5. Count(Shared, P, n - 1) \in Nat /\ Count(Shared, P, at[r] - 1) \in Nat
      BY <1>4, <1>6, <3>1 DEF Counts
    <3> QED BY <1>5, <3>3, <3>4, <3>5 DEF Pos
  <2>4. P[at[r]] = Step(r) /\ Pos(r) = Count(Shared, P, at[r] - 1)
    BY DEF Step, Pos
  <2> QED BY <1>2, <2>1, <2>2, <2>3, <2>4 DEF Follow
<1> QED BY <1>5, <1>6, <1>7, <1>8, <1>9 DEF Position

\* A rank goes on over a step that is no collective.
Moves(r) ==
  /\ at[r] <= Len(Program[driver][r]) /\ status[r] = "running" /\ code[r] = 0
  /\ Step(r) \notin Collectives /\ GoOn(r)
  /\ inside' = [inside EXCEPT ![r] = FALSE]
  /\ frames' = IF Step(r) \in Records THEN [frames EXCEPT ![r] = Append(@, Spread(global[r]))]
               ELSE frames
  /\ UNCHANGED <<driver, posted, status, code, total>>

\* A rank stays where it is, but may end or start to wait for its message to be taken.
Stays(r) ==
  /\ UNCHANGED <<driver, at, posted, frames, total>>
  /\ \/ Fail(r) \/ Return(r) \/ Exit(r)
     \/ Step(r) = "send" /\ inside' = [inside EXCEPT ![r] = TRUE] /\ Running(r)
        /\ UNCHANGED <<status, code>>

\* A step of a rank is one of these, or enters or leaves a collective.
LEMMA StepKinds ==
  ASSUME TypeInv, NEW r \in Ranks, Placed(r), RankStep(r)
  PROVE  Moves(r) \/ Stays(r) \/ Enter(r) \/ Leave(r)
<1>1. /\ inside \in [Ranks -> BOOLEAN] /\ code[r] \in {0, 1}
      /\ inside[r] => /\ at[r] <= Len(Program[driver][r])
                      /\ Step(r) \in Collectives \cup {"send"} /\ status[r] = "running"
      /\ code[r] = 1 => status[r] # "running"
  BY DEF TypeInv, Placed
<1>2. ASSUME ~inside[r] PROVE inside = [inside EXCEPT ![r] = FALSE]
  BY <1>1, <1>2
<1>3. ASSUME Running(r), Step(r) \notin Collectives \cup {"send"}
      PROVE  /\ at[r] <= Len(Program[driver][r]) /\ status[r] = "running" /\ code[r] = 0
             /\ Step(r) \notin Collectives /\ inside = [inside EXCEPT ![r] = FALSE]
  BY <1>1, <1>2, <1>3 DEF Running
<1>4. ASSUME Scan(r) PROVE Moves(r)
  <2>1. Step(r) \in {"scan", "read"} /\ Running(r)
    BY <1>4 DEF Scan
  <2>2. Step(r) \notin Collectives \cup {"send"} /\ Step(r) \notin Records
    BY <2>1 DEF Collectives, Records
  <2> QED BY <1>3, <1>4, <2>1, <2>2 DEF Scan, Moves, AfterScan
<1>5. ASSUME Work(r) PROVE Moves(r)
  <2>1. Step(r) \in CanFail \cup Records /\ Running(r)
    BY <1>5 DEF Work
  <2>2. Step(r) \notin Collectives \cup {"send"}
    BY <2>1 DEF Collectives, Records, CanFail
  <2> QED BY <1>3, <1>5, <2>1, <2>2 DEF Work, Moves, Spread
<1>6. ASSUME Pack(r) PROVE Moves(r)
  <2>1. Step(r) = "pack" /\ Running(r)
    BY <1>6 DEF Pack
  <2>2. Step(r) \notin Collectives \cup {"send"} /\ Step(r) \notin Records
    BY <2>1 DEF Collectives, Records
  <2> QED BY <1>3, <1>6, <2>1, <2>2 DEF Pack, Moves
<1>7. ASSUME Recv(r) PROVE Moves(r)
  <2>1. Step(r) = "recv" /\ Running(r)
    BY <1>7 DEF Recv
  <2>2. Step(r) \notin Collectives \cup {"send"} /\ Step(r) \notin Records
    BY <2>1 DEF Collectives, Records
  <2> QED BY <1>3, <1>7, <2>1, <2>2 DEF Recv, Moves
<1>8. ASSUME Write(r) PROVE Moves(r)
  <2>1. Step(r) = "write" /\ Running(r)
    BY <1>8 DEF Write
  <2>2. Step(r) \notin Collectives \cup {"send"} /\ Step(r) \notin Records
    BY <2>1 DEF Collectives, Records
  <2> QED BY <1>3, <1>8, <2>1, <2>2 DEF Write, Moves
<1>9. ASSUME Sent(r) PROVE Moves(r)
  <2>1. Step(r) = "send" /\ inside[r]
    BY <1>9 DEF Sent
  <2>2. Step(r) \notin Collectives /\ Step(r) \notin Records
    BY <2>1 DEF Collectives, Records
  <2> QED BY <1>1, <1>9, <2>1, <2>2 DEF Sent, Moves
<1>10. ASSUME Send(r) PROVE Stays(r)
  BY <1>10 DEF Send, Stays
<1>11. ASSUME Fail(r) \/ Return(r) \/ Exit(r) PROVE Stays(r)
  BY <1>11 DEF Fail, Return, Exit, Stays
<1> QED BY <1>4, <1>5, <1>6, <1>7, <1>8, <1>9, <1>10, <1>11 DEF RankStep

\* The place of a rank is its own: what the others do leaves it.
Unmoved(q) ==
  /\ Pos(q)' = Pos(q) /\ Begun(q)' = Begun(q) /\ Step(q)' = Step(q)
  /\ Joined(q)' = Joined(q) /\ Trace(driver)' = Trace(driver)

\* It only depends on these.
LEMMA UnmovedIs ==
  ASSUME NEW q, driver' = driver, at'[q] = at[q], inside'[q] = inside[q]
  PROVE  Unmoved(q)
<1>1. Step(q)' = Step(q) /\ Pos(q)' = Pos(q)
  BY DEF Step, Pos
<1>2. Joined(q)' = Joined(q)
  BY <1>1 DEF Joined
<1> QED BY <1>1, <1>2 DEF Unmoved, Begun

\* Where the four kinds of steps take a rank.
LEMMA Effects ==
  ASSUME TypeInv, NEW r \in Ranks, Placed(r)
  PROVE  /\ Moves(r) => /\ \A q \in Ranks \ {r} : Unmoved(q)
                        /\ Pos(r)' = IF Step(r) \in Shared THEN Pos(r) + 1 ELSE Pos(r)
                        /\ Begun(r) = Pos(r) /\ Begun(r)' = Pos(r)'
         /\ Stays(r) => \A q \in Ranks : Pos(q)' = Pos(q) /\ Begun(q)' = Begun(q)
         /\ Enter(r) => /\ \A q \in Ranks \ {r} : Unmoved(q)
                        /\ Pos(r)' = Pos(r) /\ Step(r)' = Step(r)
                        /\ Begun(r) = Pos(r) /\ Begun(r)' = Pos(r) + 1
         /\ Leave(r) => /\ \A q \in Ranks \ {r} : Unmoved(q)
                        /\ Pos(r)' = Pos(r) + 1
                        /\ Begun(r) = Pos(r) + 1 /\ Begun(r)' = Pos(r) + 1

<1>1. Position(r) /\ at \in [Ranks -> Nat] /\ inside \in [Ranks -> BOOLEAN]
  BY PositionIs DEF TypeInv
<1>2. Collectives \subseteq Shared
  BY DEF Collectives, Shared, Names
<1>3. ASSUME GoOn(r), driver' = driver, at[r] <= Len(Program[driver][r])
      PROVE  /\ Pos(r)' = IF Step(r) \in Shared THEN Pos(r) + 1 ELSE Pos(r)
             /\ \A q \in Ranks \ {r} : at'[q] = at[q]
  <2>1. at'[r] - 1 = at[r] /\ \A q \in Ranks \ {r} : at'[q] = at[q]
    BY <1>1, <1>3 DEF GoOn, Position
  <2>2. Pos(r)' = Count(Shared, Program[driver][r], at[r])
    BY <1>3, <2>1 DEF Pos
  <2> QED BY <1>1, <1>3, <2>1, <2>2 DEF Position
<1>4. ASSUME Moves(r)
      PROVE  /\ \A q \in Ranks \ {r} : Unmoved(q)
             /\ Pos(r)' = IF Step(r) \in Shared THEN Pos(r) + 1 ELSE Pos(r)
             /\ Begun(r) = Pos(r) /\ Begun(r)' = Pos(r)'
  <2>1. driver' = driver /\ ~inside'[r] /\ \A q \in Ranks \ {r} : inside'[q] = inside[q]
    BY <1>1, <1>4 DEF Moves
  <2>2. ~Joined(r) /\ ~Joined(r)'
    BY <1>4, <2>1 DEF Moves, Joined
  <2>3. /\ Pos(r)' = IF Step(r) \in Shared THEN Pos(r) + 1 ELSE Pos(r)
        /\ \A q \in Ranks \ {r} : at'[q] = at[q]
    BY <1>3, <1>4 DEF Moves
  <2> QED BY <2>1, <2>2, <2>3, UnmovedIs DEF Begun
<1>5. ASSUME Stays(r) PROVE \A q \in Ranks : Pos(q)' = Pos(q) /\ Begun(q)' = Begun(q)
  <2>1. driver' = driver /\ \A q \in Ranks : at'[q] = at[q]
    BY <1>5 DEF Stays
  <2>2. \A q \in Ranks : Pos(q)' = Pos(q) /\ Step(q)' = Step(q)
    BY <2>1 DEF Pos, Step
  <2>3. \A q \in Ranks : inside'[q] = inside[q] \/ Step(q) = "send"
    BY <1>1, <1>5 DEF Stays, Fail, Return, Exit
  <2>4. \A q \in Ranks : Joined(q)' = Joined(q)
    BY <2>2, <2>3 DEF Joined, Collectives
  <2> QED BY <2>2, <2>4 DEF Begun
<1>6. ASSUME Enter(r)
      PROVE  /\ \A q \in Ranks \ {r} : Unmoved(q)
             /\ Pos(r)' = Pos(r) /\ Step(r)' = Step(r)
             /\ Begun(r) = Pos(r) /\ Begun(r)' = Pos(r) + 1
  <2>1. /\ driver' = driver /\ at' = at /\ inside'[r] /\ ~inside[r] /\ Step(r) \in Collectives
        /\ \A q \in Ranks \ {r} : inside'[q] = inside[q]
    BY <1>1, <1>6 DEF Enter
  <2>2. Pos(r)' = Pos(r) /\ Step(r)' = Step(r)
    BY <2>1 DEF Pos, Step
  <2>3. Joined(r)' /\ ~Joined(r)
    BY <2>1, <2>2 DEF Joined
  <2>4. \A q \in Ranks \ {r} : Unmoved(q)
    BY <2>1, UnmovedIs
  <2> QED BY <2>2, <2>3, <2>4 DEF Begun
<1>7. ASSUME Leave(r)
      PROVE  /\ \A q \in Ranks \ {r} : Unmoved(q)
             /\ Pos(r)' = Pos(r) + 1
             /\ Begun(r) = Pos(r) + 1 /\ Begun(r)' = Pos(r) + 1
  <2>1. /\ driver' = driver /\ ~inside'[r] /\ inside[r] /\ Step(r) \in Collectives
        /\ \A q \in Ranks \ {r} : inside'[q] = inside[q]
        /\ GoOn(r)
    BY <1>1, <1>7 DEF Leave
  <2>2. at[r] <= Len(Program[driver][r])
    BY <2>1 DEF Placed
  <2>3. Pos(r)' = Pos(r) + 1 /\ \A q \in Ranks \ {r} : at'[q] = at[q]
    BY <1>2, <1>3, <2>1, <2>2
  <2>4. Joined(r) /\ ~Joined(r)'
    BY <2>1 DEF Joined
  <2> QED BY <2>1, <2>3, <2>4, UnmovedIs DEF Begun
<1> QED BY <1>4, <1>5, <1>6, <1>7

-----------------------------------------------------------------------------
(* The invariant holds *)

\* Counting tells which of two places, the later one a step of the kind, comes first.
LEMMA CountReaches ==
  ASSUME NEW kind, NEW p, Counts(kind, p), NEW i \in 1 .. Len(p), p[i] \in kind,
         NEW j \in 0 .. Len(p)
  PROVE  Count(kind, p, j) >= Count(kind, p, i) <=> j >= i
<1> DEFINE C(k) == Count(kind, p, k)
<1>1. /\ Len(p) \in Nat /\ \A k \in 0 .. Len(p) : C(k) \in Nat
      /\ i - 1 \in 0 .. Len(p) /\ i \in 0 .. Len(p) /\ C(i) = C(i - 1) + 1
      /\ \A k, l \in 0 .. Len(p) : k <= l => C(k) <= C(l)
  BY DEF Counts
<1> HIDE DEF C
<1>2. ASSUME j >= i PROVE C(j) >= C(i)
  <2>1. i <= j
    BY <1>1, <1>2
  <2>2. C(i) <= C(j)
    BY <1>1, <2>1
  <2> QED BY <1>1, <2>2
<1>3. ASSUME ~(j >= i) PROVE ~(C(j) >= C(i))
  <2>1. j <= i - 1
    BY <1>1, <1>3
  <2>2. C(j) <= C(i - 1)
    BY <1>1, <2>1
  <2> QED BY <1>1, <2>2
<1> QED BY <1>2, <1>3 DEF C

\* The trace up to a rank, and what its next step adds to it.
Traced(r) ==
  /\ Begun(r) \in 0 .. Len(Trace(driver)) /\ Pos(r) \in Nat
  /\ Begun(r) = Pos(r) \/ Begun(r) = Pos(r) + 1
  /\ at[r] <= Len(Program[driver][r]) /\ Step(r) \in Shared =>
       /\ Pos(r) + 1 \in 1 .. Len(Trace(driver)) /\ Trace(driver)[Pos(r) + 1] = Step(r)
       /\ UpTo(Collectives, Trace(driver), Pos(r) + 1) =
            IF Step(r) \in Collectives
            THEN Append(UpTo(Collectives, Trace(driver), Pos(r)), Step(r))
            ELSE UpTo(Collectives, Trace(driver), Pos(r))
       /\ Count(Records, Trace(driver), Pos(r) + 1) =
            IF Step(r) \in Records THEN Count(Records, Trace(driver), Pos(r)) + 1
            ELSE Count(Records, Trace(driver), Pos(r))

\* Every rank is somewhere on the trace.
LEMMA TracedIs ==
  ASSUME TypeInv, NEW r \in Ranks, Placed(r)
  PROVE  Traced(r)
<1> DEFINE T == Trace(driver)
<1>1. driver \in Drivers
  BY DEF TypeInv
<1>2. Position(r)
  BY PositionIs
<1>3. Counts(Collectives, T) /\ Counts(Records, T) /\ T \in Seq(Names) /\ Len(T) \in Nat
  BY <1>1, TraceCounts
<1>4. Gathers(Names, Collectives, T)
  <2> HIDE DEF T
  <2> QED BY <1>3, UpToStep, Zenon
<1>5. Pos(r) \in 0 .. Len(T) /\ Len(T) \in Nat
  BY <1>2 DEF Position
<1>6. Joined(r) => Pos(r) < Len(T)
  BY <1>2 DEF Position, Joined, Placed
<1>7. ASSUME at[r] <= Len(Program[driver][r]), Step(r) \in Shared
      PROVE  /\ Pos(r) + 1 \in 1 .. Len(T) /\ T[Pos(r) + 1] = Step(r)
             /\ UpTo(Collectives, T, Pos(r) + 1) =
                  IF Step(r) \in Collectives THEN Append(UpTo(Collectives, T, Pos(r)), Step(r))
                  ELSE UpTo(Collectives, T, Pos(r))
             /\ Count(Records, T, Pos(r) + 1) =
                  IF Step(r) \in Records THEN Count(Records, T, Pos(r)) + 1
                  ELSE Count(Records, T, Pos(r))
  <2>1. PICK k : k = Pos(r)
    OBVIOUS
  <2>2. k \in Nat /\ k < Len(T) /\ T[k + 1] = Step(r)
    BY <1>2, <1>5, <1>7, <2>1 DEF Position
  <2>3. k + 1 \in 1 .. Len(T) /\ k \in 0 .. Len(T) - 1 /\ (k + 1) - 1 = k
    BY <1>5, <2>2
  <2>4. UpTo(Collectives, T, k + 1) =
          IF T[k + 1] \in Collectives THEN Append(UpTo(Collectives, T, k), T[k + 1])
          ELSE UpTo(Collectives, T, k)
    BY <1>4, <2>3 DEF Gathers
  <2>5. Count(Records, T, k + 1) =
          IF T[k + 1] \in Records THEN Count(Records, T, k) + 1 ELSE Count(Records, T, k)
    BY <1>3, <2>3 DEF Counts
  <2> QED BY <2>1, <2>2, <2>3, <2>4, <2>5
<1>8. Begun(r) \in 0 .. Len(T) /\ Pos(r) \in Nat
      /\ (Begun(r) = Pos(r) \/ Begun(r) = Pos(r) + 1)
  BY <1>5, <1>6 DEF Begun
<1> QED BY <1>7, <1>8 DEF Traced

\* A step keeps every rank in its place.
LEMMA PlacedNext ==
  ASSUME TypeInv, \A q \in Ranks : Placed(q), NEW r \in Ranks, RankStep(r)
  PROVE  \A q \in Ranks : Placed(q)'
<1>1. /\ inside \in [Ranks -> BOOLEAN] /\ code \in [Ranks -> {0, 1}] /\ at \in [Ranks -> Nat]
      /\ status \in [Ranks -> {"running", "finalizing", "exited"}]
  BY DEF TypeInv
<1>2. Moves(r) \/ Stays(r) \/ Enter(r) \/ Leave(r)
  BY StepKinds
<1>3. driver' = driver
  BY <1>2 DEF Moves, Stays, Enter, Leave
<1>4. ASSUME NEW q \in Ranks, q # r PROVE Placed(q)'
  <2>1. at'[q] = at[q] /\ inside'[q] = inside[q]
    BY <1>1, <1>2, <1>4 DEF Moves, Stays, Enter, Leave, GoOn, Fail, Return, Exit
  <2>2. status'[q] = status[q] /\ code'[q] = code[q]
    BY <1>1, <1>2, <1>4 DEF Moves, Stays, Enter, Leave, Fail, Return, Exit
  <2>3. Placed(q) /\ Step(q)' = Step(q)
    BY <1>3, <2>1 DEF Step
  <2> QED BY <1>3, <2>1, <2>2, <2>3 DEF Placed
<1>5. Position(r) /\ Placed(r)
  BY PositionIs
<1> DEFINE n == Len(Program[driver][r])
<1>6. /\ n \in Nat \ {0} /\ at[r] \in 1 .. n + 1
      /\ inside[r] => at[r] <= n /\ Step(r) \in Collectives \cup {"send"} /\ status[r] = "running"
      /\ code[r] = 1 => status[r] # "running" /\ at[r] <= n /\ Step(r) \in CanFail
      /\ code[r] = 0 /\ status[r] # "running" => at[r] = n + 1
      /\ code[r] \in {0, 1}
  BY <1>1, <1>5 DEF Position, Placed
<1>7. Len(Program[driver][r])' = n
  BY <1>3
<1> HIDE DEF n
<1>8. ASSUME at'[r] = at[r] + 1, at[r] <= n, status[r] = "running",
             UNCHANGED <<status, code>>, ~inside'[r]
      PROVE  Placed(r)'
  <2>1. at'[r] \in 1 .. n + 1 /\ code'[r] = 0 /\ status'[r] = "running"
    BY <1>6, <1>8
  <2> QED BY <1>7, <1>8, <2>1 DEF Placed
<1>9. ASSUME at' = at
      PROVE  at'[r] = at[r] /\ Step(r)' = Step(r)
  BY <1>3, <1>9 DEF Step
<1>10. ASSUME Moves(r) PROVE Placed(r)'
  <2>1. at'[r] = at[r] + 1 /\ ~inside'[r]
    BY <1>1, <1>10 DEF Moves, GoOn
  <2> QED BY <1>8, <1>10, <2>1 DEF Moves, n
<1>11. ASSUME Leave(r) PROVE Placed(r)'
  <2>1. at'[r] = at[r] + 1 /\ ~inside'[r] /\ inside[r]
    BY <1>1, <1>11 DEF Leave, GoOn
  <2> QED BY <1>6, <1>8, <1>11, <2>1 DEF Leave
<1>12. ASSUME Enter(r) PROVE Placed(r)'
  <2>1. /\ inside'[r] /\ Step(r) \in Collectives /\ Running(r) /\ at' = at
        /\ UNCHANGED <<status, code>>
    BY <1>1, <1>12 DEF Enter
  <2>2. status[r] = "running" /\ at[r] <= n
    BY <2>1 DEF Running, n
  <2> QED BY <1>6, <1>7, <1>9, <2>1, <2>2 DEF Placed
<1>13. ASSUME Stays(r), Fail(r) PROVE Placed(r)'
  <2>1. /\ Running(r) /\ Step(r) \in CanFail /\ code'[r] = 1 /\ status'[r] # "running"
        /\ at' = at /\ inside' = inside
    BY <1>1, <1>13 DEF Fail
  <2>2. ~inside[r] /\ at[r] <= n
    BY <1>6, <2>1 DEF Running, CanFail, Collectives, n
  <2> QED BY <1>6, <1>7, <1>9, <2>1, <2>2 DEF Placed
<1>14. ASSUME Stays(r), Return(r) PROVE Placed(r)'
  <2>1. /\ at[r] > n /\ status[r] = "running" /\ code' = code /\ status'[r] # "running"
        /\ at' = at /\ inside' = inside
    BY <1>1, <1>14 DEF Return, n
  <2>2. at[r] = n + 1 /\ ~inside[r] /\ code'[r] = 0
    BY <1>6, <2>1
  <2> QED BY <1>6, <1>7, <1>9, <2>1, <2>2 DEF Placed
<1>15. ASSUME Stays(r), Exit(r) PROVE Placed(r)'
  <2>1. /\ status[r] = "finalizing" /\ code' = code /\ status'[r] = "exited"
        /\ at' = at /\ inside' = inside
    BY <1>1, <1>15 DEF Exit
  <2>2. ~inside[r]
    BY <1>6, <2>1
  <2> QED BY <1>6, <1>7, <1>9, <2>1, <2>2 DEF Placed
<1>16. ASSUME Stays(r), Step(r) = "send", inside' = [inside EXCEPT ![r] = TRUE], Running(r),
              UNCHANGED <<status, code>>
       PROVE  Placed(r)'
  <2>1. inside'[r] /\ at' = at /\ status[r] = "running" /\ at[r] <= n
    BY <1>1, <1>16 DEF Stays, Running, n
  <2> QED BY <1>6, <1>7, <1>9, <1>16, <2>1 DEF Placed
<1>17. Placed(r)'
  BY <1>2, <1>10, <1>11, <1>12, <1>13, <1>14, <1>15, <1>16 DEF Stays
<1> QED BY <1>4, <1>17

\* A step keeps what a rank has called and recorded in line with its place.
LEMMA KeptNext ==
  ASSUME TypeInv, \A q \in Ranks : Placed(q) /\ Kept(q), NEW r \in Ranks, RankStep(r)
  PROVE  \A q \in Ranks : Kept(q)'
<1>1. /\ posted \in [Ranks -> Seq(Names)] /\ frames \in [Ranks -> Seq(Int)]
      /\ \A q \in Ranks : frames[q] \in Seq(Int) /\ posted[q] \in Seq(Names)
      /\ \A q \in Ranks : global[q] \in Int \X Int
  BY DEF TypeInv
<1>2. Moves(r) \/ Stays(r) \/ Enter(r) \/ Leave(r)
  BY StepKinds
<1>3. driver' = driver /\ Trace(driver)' = Trace(driver)
  BY <1>2 DEF Moves, Stays, Enter, Leave
<1>4. Collectives \subseteq Shared /\ Records \subseteq Shared /\ Collectives \cap Records = {}
  BY DEF Collectives, Records, Shared, Names
<1>5. ASSUME NEW q \in Ranks, Pos(q)' = Pos(q), Begun(q)' = Begun(q),
             posted'[q] = posted[q], frames'[q] = frames[q]
      PROVE  Kept(q)'
  BY <1>3, <1>5 DEF Kept
<1>6. ASSUME NEW q \in Ranks, q # r PROVE Kept(q)'
  <2>1. Pos(q)' = Pos(q) /\ Begun(q)' = Begun(q)
    BY <1>2, <1>6, Effects DEF Unmoved
  <2>2. posted'[q] = posted[q] /\ frames'[q] = frames[q]
    BY <1>1, <1>2, <1>6 DEF Moves, Stays, Enter, Leave
  <2> QED BY <1>5, <2>1, <2>2
<1>7. Traced(r) /\ Kept(r) /\ Placed(r)
  BY TracedIs
<1> DEFINE T == Trace(driver)
           n == Len(Program[driver][r])
<1>8. /\ posted[r] = UpTo(Collectives, T, Begun(r))
      /\ Len(frames[r]) = Count(Records, T, Pos(r))
      /\ at[r] <= n /\ Step(r) \in Shared =>
           /\ UpTo(Collectives, T, Pos(r) + 1) =
                IF Step(r) \in Collectives THEN Append(UpTo(Collectives, T, Pos(r)), Step(r))
                ELSE UpTo(Collectives, T, Pos(r))
           /\ Count(Records, T, Pos(r) + 1) =
                IF Step(r) \in Records THEN Count(Records, T, Pos(r)) + 1
                ELSE Count(Records, T, Pos(r))
  BY <1>7 DEF Traced, Kept
<1>9. T' = T
  BY <1>3
<1> HIDE DEF T, n
<1>10. ASSUME posted'[r] = UpTo(Collectives, T, Begun(r)'), Len(frames'[r]) = Count(Records, T, Pos(r)')
       PROVE  Kept(r)'
  BY <1>9, <1>10 DEF Kept, T
<1>11. ASSUME Moves(r) PROVE Kept(r)'
  <2>1. /\ Pos(r)' = IF Step(r) \in Shared THEN Pos(r) + 1 ELSE Pos(r)
        /\ Begun(r) = Pos(r) /\ Begun(r)' = Pos(r)'
    BY <1>7, <1>11, Effects
  <2>2. at[r] <= n /\ Step(r) \notin Collectives /\ posted' = posted
    BY <1>11 DEF Moves, n
  <2>3. posted'[r] = UpTo(Collectives, T, Begun(r)')
    BY <1>8, <2>1, <2>2
  <2>4. CASE Step(r) \in Records
    <3>1. PICK s, e : s = frames[r] /\ e = Spread(global[r])
      OBVIOUS
    <3>2. s \in Seq(Int) /\ e \in Int
      BY <1>1, <3>1 DEF Spread
    <3>3. frames' = [frames EXCEPT ![r] = Append(s, e)]
      BY <1>11, <2>4, <3>1 DEF Moves
    <3>4. frames'[r] = Append(s, e) /\ Len(Append(s, e)) = Len(s) + 1
      BY <1>1, <3>2, <3>3, AppendProperties
    <3>5. Len(frames'[r]) = Len(frames[r]) + 1
      BY <3>1, <3>4
    <3>6. Count(Records, T, Pos(r)') = Count(Records, T, Pos(r)) + 1
      BY <1>4, <1>8, <2>1, <2>2, <2>4
    <3> QED BY <1>8, <1>10, <2>3, <3>5, <3>6
  <2>5. CASE Step(r) \notin Records
    <3>1. frames' = frames
      BY <1>11, <2>5 DEF Moves
    <3>2. Count(Records, T, Pos(r)') = Count(Records, T, Pos(r))
      BY <1>8, <2>1, <2>2, <2>5
    <3> QED BY <1>8, <1>10, <2>3, <3>1, <3>2
  <2> QED BY <2>4, <2>5
<1>12. ASSUME Stays(r) PROVE Kept(r)'
  <2>1. Pos(r)' = Pos(r) /\ Begun(r)' = Begun(r)
    BY <1>7, <1>12, Effects
  <2>2. posted'[r] = posted[r] /\ frames'[r] = frames[r]
    BY <1>12 DEF Stays
  <2> QED BY <1>5, <2>1, <2>2
<1>13. ASSUME Enter(r) PROVE Kept(r)'
  <2>1. Pos(r)' = Pos(r) /\ Begun(r) = Pos(r) /\ Begun(r)' = Pos(r) + 1
    BY <1>7, <1>13, Effects
  <2>2. at[r] <= n /\ Step(r) \in Collectives /\ frames' = frames
    BY <1>13 DEF Enter, Running, n
  <2>3. posted'[r] = Append(posted[r], Step(r))
    <3>1. PICK s : s = Append(posted[r], Step(r))
      OBVIOUS
    <3>2. posted' = [posted EXCEPT ![r] = s]
      BY <1>13, <3>1 DEF Enter
    <3> QED BY <1>1, <3>1, <3>2
  <2>4. UpTo(Collectives, T, Pos(r) + 1) = Append(UpTo(Collectives, T, Pos(r)), Step(r))
    BY <1>4, <1>8, <2>2
  <2>5. posted'[r] = UpTo(Collectives, T, Begun(r)')
    BY <1>8, <2>1, <2>3, <2>4, Zenon
  <2> QED BY <1>8, <1>10, <2>1, <2>2, <2>5
<1>14. ASSUME Leave(r) PROVE Kept(r)'
  <2>1. Pos(r)' = Pos(r) + 1 /\ Begun(r)' = Begun(r)
    BY <1>7, <1>14, Effects
  <2>2. at[r] <= n /\ Step(r) \in Collectives /\ frames' = frames /\ posted' = posted
    BY <1>7, <1>14 DEF Leave, Placed, n
  <2>3. Count(Records, T, Pos(r) + 1) = Count(Records, T, Pos(r))
    BY <1>4, <1>8, <2>2
  <2> QED BY <1>8, <1>10, <2>1, <2>2, <2>3
<1> QED BY <1>2, <1>6, <1>11, <1>12, <1>13, <1>14

\* Nobody takes back what it has begun.
LEMMA BegunGrows ==
  ASSUME TypeInv, \A q \in Ranks : Placed(q), NEW r \in Ranks, RankStep(r)
  PROVE  \A q \in Ranks : /\ Begun(q) \in Nat /\ Begun(q)' \in Nat /\ Begun(q)' >= Begun(q)
                          /\ Pos(q) \in Nat /\ Pos(q)' \in Nat
<1>1. Moves(r) \/ Stays(r) \/ Enter(r) \/ Leave(r)
  BY StepKinds
<1>2. \A q \in Ranks : Begun(q) \in Nat /\ Pos(q) \in Nat
  BY TracedIs DEF Traced
<1>3. \A q \in Ranks \ {r} : Begun(q)' = Begun(q) /\ Pos(q)' = Pos(q)
  BY <1>1, Effects DEF Unmoved
<1>4. Pos(r)' \in {Pos(r), Pos(r) + 1} /\ Begun(r)' \in {Begun(r), Begun(r) + 1}
  BY <1>1, Effects
<1> QED BY <1>2, <1>3, <1>4

\* Whoever has called as many collectives is as far.
LEMMA CalledIsBegun ==
  ASSUME TypeInv, NEW q \in Ranks, Placed(q), Kept(q), NEW i \in 1 .. Len(Trace(driver)),
         Trace(driver)[i] \in Collectives
  PROVE  Len(posted[q]) >= Count(Collectives, Trace(driver), i) <=> Begun(q) >= i
<1> DEFINE T == Trace(driver)
           j == Begun(q)
<1>1. driver \in Drivers
  BY DEF TypeInv
<1>2. Counts(Collectives, T)
  BY <1>1, TraceCounts
<1>3. j \in 0 .. Len(T)
  BY TracedIs DEF Traced
<1>4. Len(posted[q]) = Count(Collectives, T, j)
  BY DEF Kept, Count
<1>5. i \in 1 .. Len(T) /\ T[i] \in Collectives
  OBVIOUS
<1> HIDE DEF T, j
<1>6. Count(Collectives, T, j) >= Count(Collectives, T, i) <=> j >= i
  BY <1>2, <1>3, <1>5, CountReaches
<1> QED BY <1>4, <1>6 DEF T, j

\* A rank goes past a collective that binds it when all have begun it.
LEMMA AwaitedNext ==
  ASSUME TypeInv, \A q \in Ranks : Placed(q) /\ Kept(q) /\ Awaited(q),
         NEW r \in Ranks, RankStep(r)
  PROVE  \A q \in Ranks : Awaited(q)'
<1>1. Moves(r) \/ Stays(r) \/ Enter(r) \/ Leave(r)
  BY StepKinds
<1>2. driver' = driver /\ Trace(driver)' = Trace(driver)
  BY <1>1 DEF Moves, Stays, Enter, Leave
<1>3. \A q \in Ranks : /\ Begun(q) \in Nat /\ Begun(q)' \in Nat /\ Begun(q)' >= Begun(q)
                      /\ Pos(q) \in Nat /\ Pos(q)' \in Nat
  BY BegunGrows
<1>4. ASSUME NEW i \in Nat, AllBegun(i) PROVE AllBegun(i)'
  <2>1. \A q \in Ranks : Begun(q) >= i
    BY <1>4 DEF AllBegun
  <2>2. \A q \in Ranks : Begun(q)' >= i
    BY <1>3, <2>1
  <2> QED BY <2>2 DEF AllBegun
<1>5. \A q, i : Binds(q, i)' = Binds(q, i)
  BY <1>2 DEF Binds
<1>6. ASSUME NEW q \in Ranks, Pos(q)' = Pos(q) PROVE Awaited(q)'
  <2>1. \A i \in 1 .. Pos(q) : i \in Nat /\ (Binds(q, i) => AllBegun(i))
    BY <1>3 DEF Awaited
  <2>2. \A i \in 1 .. Pos(q)' : Binds(q, i)' => AllBegun(i)'
    BY <1>4, <1>5, <1>6, <2>1
  <2> QED BY <2>2 DEF Awaited
<1>7. ASSUME NEW q \in Ranks, q # r PROVE Awaited(q)'
  <2>1. Pos(q)' = Pos(q)
    BY <1>1, <1>7, Effects DEF Unmoved
  <2> QED BY <1>6, <2>1
<1>8. ASSUME Pos(r)' = Pos(r) + 1, Binds(r, Pos(r) + 1) => AllBegun(Pos(r) + 1)
      PROVE  Awaited(r)'
  <2>1. \A i \in 1 .. Pos(r) : Binds(r, i) => AllBegun(i)
    BY DEF Awaited
  <2>2. ASSUME NEW i \in 1 .. Pos(r) + 1, Binds(r, i) PROVE i \in Nat /\ AllBegun(i)
    <3>1. i \in 1 .. Pos(r) \/ i = Pos(r) + 1
      BY <1>3
    <3> QED BY <1>3, <1>8, <2>1, <2>2, <3>1
  <2>3. \A i \in 1 .. Pos(r)' : Binds(r, i)' => AllBegun(i)'
    BY <1>4, <1>5, <1>8, <2>2
  <2> QED BY <2>3 DEF Awaited
<1>9. Traced(r) /\ Placed(r) /\ Kept(r)
  BY TracedIs
<1>10. Collectives \subseteq Shared
  BY DEF Collectives, Shared, Names
<1>11. ASSUME Moves(r) PROVE Awaited(r)'
  <2>1. Pos(r)' = IF Step(r) \in Shared THEN Pos(r) + 1 ELSE Pos(r)
    BY <1>9, <1>11, Effects
  <2>2. at[r] <= Len(Program[driver][r]) /\ Step(r) \notin Collectives
    BY <1>11 DEF Moves
  <2>3. Step(r) \in Shared => ~Binds(r, Pos(r) + 1)
    BY <1>9, <2>2 DEF Traced, Binds
  <2> QED BY <1>6, <1>8, <2>1, <2>3
<1>12. ASSUME Stays(r) \/ Enter(r) PROVE Awaited(r)'
  <2>1. Pos(r)' = Pos(r)
    BY <1>9, <1>12, Effects
  <2> QED BY <1>6, <2>1
<1>13. ASSUME Leave(r) PROVE Awaited(r)'
  <2>1. Pos(r)' = Pos(r) + 1 /\ Begun(r) = Pos(r) + 1
    BY <1>9, <1>13, Effects
  <2>2. Step(r) \in Collectives /\ at[r] <= Len(Program[driver][r])
    BY <1>9, <1>13 DEF Leave, Placed
  <2>3. PICK i : i = Pos(r) + 1
    OBVIOUS
  <2>4. i \in 1 .. Len(Trace(driver)) /\ Trace(driver)[i] = Step(r)
    BY <1>9, <1>10, <2>2, <2>3 DEF Traced
  <2>5. Trace(driver)[i] \in Collectives
    BY <2>2, <2>4
  <2>6. ASSUME Binds(r, i) PROVE AllBegun(i)
    <3>1. \A q \in Ranks : Len(posted[q]) >= Len(posted[r])
      BY <1>13, <2>4, <2>6 DEF Leave, Binds, AllIn
    <3>2. Len(posted[r]) = Count(Collectives, Trace(driver), i)
      BY <1>9, <2>1, <2>3 DEF Kept, Count
    <3>3. \A q \in Ranks : Begun(q) >= i
      BY <2>4, <2>5, <3>1, <3>2, CalledIsBegun
    <3> QED BY <3>3 DEF AllBegun
  <2> QED BY <1>8, <2>1, <2>3, <2>6
<1> QED BY <1>1, <1>7, <1>11, <1>12, <1>13

\* A reduction that all have begun finds every rank through with its arrays.
LEMMA AllRecorded ==
  ASSUME TypeInv, NEW q \in Ranks, Placed(q), Kept(q), NEW i \in 1 .. Len(Trace(driver)),
         Trace(driver)[i] = "reduce", Pos(q) + 1 >= i
  PROVE  Len(frames[q]) = ArraysOf(driver)
<1> DEFINE T == Trace(driver)
           A == ArraysOf(driver)
           C(k) == Count(Records, T, k)
<1>1. driver \in Drivers
  BY DEF TypeInv
<1>2. Counts(Records, T) /\ Len(T) \in Nat
  BY <1>1, TraceCounts
<1>3. C(i) = A /\ C(Len(T)) = A /\ A \in Nat
  BY <1>1, TraceWell DEF Well
<1>4. T[i] \notin Records /\ i \in 1 .. Len(T)
  BY DEF Records
<1>5. Pos(q) \in 0 .. Len(T) /\ Len(frames[q]) = C(Pos(q))
  BY PositionIs DEF Position, Kept
<1> HIDE DEF T, A
<1>6. /\ \A j, k \in 0 .. Len(T) : j <= k => C(j) <= C(k)
      /\ \A k \in 0 .. Len(T) : C(k) \in Nat
      /\ i - 1 \in 0 .. Len(T) /\ C(i) = C(i - 1)
  BY <1>2, <1>4 DEF Counts
<1> HIDE DEF C
<1>7. i - 1 <= Pos(q) /\ Pos(q) <= Len(T) /\ Len(T) \in 0 .. Len(T)
  BY <1>2, <1>4, <1>5
<1>8. C(i - 1) <= C(Pos(q)) /\ C(Pos(q)) <= C(Len(T)) /\ C(Pos(q)) \in Nat
  BY <1>5, <1>6, <1>7
<1> QED BY <1>3, <1>5, <1>6, <1>8 DEF A

\* The total of equal numbers of arrays.
LEMMA TotalOfEqual ==
  ASSUME NEW n \in Nat, \A q \in Ranks : Len(frames[q]) = n
  PROVE  SumFunction([q \in Ranks |-> Len(frames[q])]) = NumRanks * n
<1> DEFINE w == [q \in Ranks |-> Len(frames[q])]
<1>1. (\A q \in Ranks : w[q] = n) /\ DOMAIN w = Ranks
  OBVIOUS
<1> HIDE DEF w
<1>2. IsFiniteSet(Ranks) /\ Cardinality(Ranks) = NumRanks
  BY RanksFinite
<1>3. SumFunctionOnSet(w, Ranks) = Cardinality(Ranks) * n
  BY <1>1, <1>2, SumConstant
<1>4. SumFunction(w) = SumFunctionOnSet(w, DOMAIN w)
  BY DEF SumFunction
<1> QED BY <1>1, <1>2, <1>3, <1>4, Zenon DEF w

\* The rank is the last to call its collective: no one has called fewer.
Complete(r) == \A q \in Ranks : Len(posted'[q]) >= Len(posted'[r])

\* Then, and only then, all have begun the collective it calls.
LEMMA Completing ==
  ASSUME TypeInv, \A q \in Ranks : Placed(q) /\ Kept(q), NEW r \in Ranks, Enter(r)
  PROVE  /\ Pos(r) + 1 \in 1 .. Len(Trace(driver)) /\ Trace(driver)[Pos(r) + 1] = Step(r)
         /\ Complete(r) <=> \A q \in Ranks : Begun(q)' >= Pos(r) + 1
<1> DEFINE T == Trace(driver)
<1>1. RankStep(r) /\ driver' = driver /\ T' = T
  BY DEF RankStep, Enter
<1>2. \A q \in Ranks : Kept(q)'
  BY <1>1, KeptNext
<1>3. Traced(r) /\ Placed(r) /\ driver \in Drivers
  BY TracedIs DEF TypeInv
<1>4. /\ \A q \in Ranks \ {r} : Begun(q)' = Begun(q)
      /\ Begun(r)' = Pos(r) + 1
  BY <1>3, Effects DEF Unmoved
<1>5. PICK k : k = Pos(r) + 1
  OBVIOUS
<1>6. k \in 1 .. Len(T) /\ T[k] = Step(r) /\ Step(r) \in Collectives
  <2>1. Step(r) \in Collectives /\ at[r] <= Len(Program[driver][r])
    BY DEF Enter, Running
  <2> QED BY <1>3, <1>5, <2>1 DEF Traced, Collectives, Shared, Names
<1>7. Len(posted'[r]) = Count(Collectives, T, k)
  BY <1>1, <1>2, <1>4, <1>5 DEF Kept, Count
<1>8. ASSUME NEW q \in Ranks
      PROVE  Len(posted'[q]) >= Count(Collectives, T, k) <=> Begun(q)' >= k
  <2>1. PICK j : j = Begun(q)'
    OBVIOUS
  <2>2. j \in 0 .. Len(T)
    <3>1. Begun(q) \in 0 .. Len(T)
      BY TracedIs DEF Traced
    <3> QED BY <1>4, <1>5, <1>6, <2>1, <3>1
  <2>3. Counts(Collectives, T)
    BY <1>3, TraceCounts
  <2>4. Len(posted'[q]) = Count(Collectives, T, j)
    BY <1>1, <1>2, <2>1 DEF Kept, Count
  <2>5. T[k] \in Collectives
    BY <1>6
  <2> HIDE DEF T
  <2>6. Count(Collectives, T, j) >= Count(Collectives, T, k) <=> j >= k
    BY <1>6, <2>2, <2>3, <2>5, CountReaches
  <2> QED BY <2>1, <2>4, <2>6
<1>9. Complete(r) <=> \A q \in Ranks : Begun(q)' >= k
  BY <1>7, <1>8 DEF Complete
<1> QED BY <1>5, <1>6, <1>9

\* Whoever completes a reduction gives the root the arrays of all.
LEMMA TotalledNext ==
  ASSUME TypeInv, \A q \in Ranks : Placed(q) /\ Kept(q) /\ Awaited(q), Totalled,
         NEW r \in Ranks, RankStep(r)
  PROVE  Totalled'
<1> DEFINE T == Trace(driver)
<1>1. Moves(r) \/ Stays(r) \/ Enter(r) \/ Leave(r)
  BY StepKinds
<1>2. driver' = driver /\ T' = T
  BY <1>1 DEF Moves, Stays, Enter, Leave
<1>5. /\ Arrays' = Arrays /\ Arrays = ArraysOf(driver) /\ driver \in Drivers
      /\ ArraysOf(driver) \in Nat
  <2>1. driver \in Drivers
    BY DEF TypeInv
  <2> QED BY <1>2, <2>1, TraceWell DEF Well, Arrays, ArraysOf
<1>6. Traced(r) /\ Placed(r)
  BY TracedIs
<1>7. \A q \in Ranks : /\ Begun(q) \in Nat /\ Begun(q)' \in Nat /\ Begun(q)' >= Begun(q)
                      /\ Pos(q) \in Nat
  BY BegunGrows
<1>8. SUFFICES ASSUME NEW i \in 1 .. Len(T), T[i] = "reduce", AllBegun(i)'
      PROVE  total' = NumRanks * Arrays
  BY <1>2, <1>5 DEF Totalled
<1>9. \A q \in Ranks : Begun(q)' >= i
  BY <1>8 DEF AllBegun
<1>10. AllBegun(i) => total = NumRanks * Arrays
  BY <1>8 DEF Totalled
<1>11. ASSUME Moves(r) \/ Stays(r) \/ Leave(r) PROVE total' = NumRanks * Arrays
  <2>1. total' = total
    BY <1>11 DEF Moves, Stays, Leave
  <2>2. \A q \in Ranks \ {r} : Begun(q)' = Begun(q)
    BY <1>6, <1>11, Effects DEF Unmoved
  <2>3. Begun(r) >= i
    <3>1. CASE Begun(r)' = Begun(r)
      BY <1>9, <3>1
    <3>2. CASE Moves(r) /\ Step(r) \in Shared
      <4>1. Begun(r) = Pos(r) /\ Begun(r)' = Pos(r) + 1
        BY <1>6, <3>2, Effects
      <4>2. T[Pos(r) + 1] = Step(r) /\ Step(r) \notin Collectives
        BY <1>6, <3>2 DEF Traced, Moves
      <4>3. i # Pos(r) + 1
        BY <1>8, <4>2 DEF Collectives
      <4> QED BY <1>7, <1>9, <4>1, <4>3
    <3> QED BY <1>6, <1>11, <3>1, <3>2, Effects
  <2>4. AllBegun(i)
    BY <1>9, <2>2, <2>3 DEF AllBegun
  <2> QED BY <1>10, <2>1, <2>4
<1>12. ASSUME Enter(r) PROVE total' = NumRanks * Arrays
  <2>1. /\ \A q \in Ranks : Pos(q)' = Pos(q)
        /\ \A q \in Ranks \ {r} : Begun(q)' = Begun(q)
        /\ Begun(r) = Pos(r) /\ Begun(r)' = Pos(r) + 1
    BY <1>6, <1>12, Effects DEF Unmoved
  <2>2. \A q \in Ranks : Begun(q)' = Pos(q) \/ Begun(q)' = Pos(q) + 1
    <3>1. \A q \in Ranks : Begun(q) = Pos(q) \/ Begun(q) = Pos(q) + 1
      BY TracedIs DEF Traced
    <3> QED BY <2>1, <3>1
  <2>3. PICK k : k = Pos(r) + 1
    OBVIOUS
  <2>4. k \in 1 .. Len(T) /\ T[k] = Step(r)
    BY <1>12, <2>3, Completing
  <2>5. Complete(r) <=> \A q \in Ranks : Begun(q)' >= k
    BY <1>12, <2>3, Completing
  <2>6. /\ Complete(r) => total' = IF Step(r) = "reduce"
                           THEN SumFunction([q \in Ranks |-> Len(frames[q])]) ELSE total
        /\ ~Complete(r) => total' = total
    BY <1>12 DEF Enter, Complete
  <2>7. ASSUME Complete(r), Step(r) = "reduce" PROVE total' = NumRanks * Arrays
    <3>1. \A q \in Ranks : Pos(q) + 1 >= k
      BY <1>7, <2>2, <2>3, <2>5, <2>7
    <3>2. T[k] = "reduce"
      BY <2>4, <2>7
    <3>3. \A q \in Ranks : Len(frames[q]) = ArraysOf(driver)
      BY <2>4, <3>1, <3>2, AllRecorded
    <3>4. SumFunction([q \in Ranks |-> Len(frames[q])]) = NumRanks * ArraysOf(driver)
      BY <1>5, <3>3, TotalOfEqual
    <3> QED BY <1>5, <2>6, <2>7, <3>4
  <2>8. CASE i = k
    <3>1. Complete(r) /\ Step(r) = "reduce"
      BY <1>8, <1>9, <2>4, <2>5, <2>8
    <3> QED BY <2>7, <3>1
  <2>9. CASE i # k
    <3>1. Begun(r) >= i
      BY <1>7, <1>9, <2>1, <2>3, <2>9
    <3>2. AllBegun(i)
      BY <1>9, <2>1, <3>1 DEF AllBegun
    <3> QED BY <1>10, <2>6, <2>7, <3>2
  <2> QED BY <2>8, <2>9
<1> QED BY <1>1, <1>11, <1>12

\* All ranks start at the beginning of the trace.
LEMMA RanksInit ==
  ASSUME Init
  PROVE  RanksInv
<1>1. TypeInv /\ driver \in Drivers
  BY TypeInit DEF Init
<1> DEFINE T == Trace(driver)
<1>2. Gathers(Names, Collectives, T) /\ Counts(Records, T)
  <2>1. T \in Seq(Names) /\ Counts(Records, T)
    BY <1>1, TraceCounts
  <2> HIDE DEF T
  <2> QED BY <2>1, UpToStep, Zenon
<1>3. ASSUME NEW r \in Ranks
      PROVE  Placed(r) /\ Kept(r) /\ Pos(r) = 0 /\ Begun(r) = 0
  <2>1. Follow(driver, r)
    BY <1>1, RanksFollow
  <2>2. /\ at[r] = 1 /\ ~inside[r] /\ code[r] = 0 /\ status[r] = "running"
        /\ posted[r] = <<>> /\ frames[r] = <<>> /\ at[r] - 1 = 0
    BY DEF Init
  <2>3. Placed(r)
    BY <2>1, <2>2 DEF Follow, Placed
  <2>4. Pos(r) = 0 /\ Begun(r) = 0
    BY <2>1, <2>2 DEF Follow, Pos, Begun, Joined
  <2>5. posted[r] = UpTo(Collectives, T, Begun(r))
    BY <1>2, <2>2, <2>4 DEF Gathers
  <2>6. Len(frames[r]) = Count(Records, T, Pos(r))
    BY <1>2, <2>2, <2>4, EmptySeq DEF Counts
  <2> QED BY <2>3, <2>4, <2>5, <2>6 DEF Kept
<1>4. \A r \in Ranks : Awaited(r)
  BY <1>3 DEF Awaited
<1>5. \A i \in 1 .. Len(T) : ~AllBegun(i)
  BY <1>3, RanksFinite DEF AllBegun
<1>6. Totalled
  BY <1>5 DEF Totalled
<1> QED BY <1>1, <1>3, <1>4, <1>6 DEF RanksInv

\* Every step keeps the invariant.
LEMMA RanksNext ==
  ASSUME RanksInv, [Next]_vars
  PROVE  RanksInv'
<1>1. TypeInv /\ (\A q \in Ranks : Placed(q) /\ Kept(q) /\ Awaited(q)) /\ Totalled
  BY DEF RanksInv
<1>2. TypeInv'
  BY <1>1, TypeNext
<1>3. ASSUME NEW r \in Ranks, RankStep(r) PROVE RanksInv'
  BY <1>1, <1>2, <1>3, PlacedNext, KeptNext, AwaitedNext, TotalledNext DEF RanksInv
<1>4. ASSUME UNCHANGED vars PROVE RanksInv'
  <2>1. \A q \in Ranks : /\ Placed(q)' = Placed(q) /\ Pos(q)' = Pos(q)
                         /\ Begun(q)' = Begun(q) /\ Trace(driver)' = Trace(driver)
    BY <1>4 DEF vars, Placed, Pos, Begun, Joined, Step
  <2>2. \A q \in Ranks : Kept(q)'
    BY <1>1, <1>4, <2>1 DEF vars, Kept
  <2>3. \A i : AllBegun(i)' = AllBegun(i)
    BY <2>1 DEF AllBegun
  <2>4. \A q \in Ranks : Awaited(q)'
    BY <1>1, <1>4, <2>1, <2>3 DEF vars, Awaited, Binds
  <2>5. Totalled'
    BY <1>1, <1>4, <2>1, <2>3 DEF vars, Totalled, Arrays
  <2> QED BY <1>1, <1>2, <2>1, <2>2, <2>4, <2>5 DEF RanksInv
<1> QED BY <1>3, <1>4 DEF Next

\* The invariant holds of every execution.
THEOREM RanksInvariant == Spec => []RanksInv
<1>1. Init => RanksInv
  BY RanksInit
<1>2. RanksInv /\ [Next]_vars => RanksInv'
  BY RanksNext
<1> QED BY <1>1, <1>2, PTL DEF Spec

\* The collectives of two ranks are the same as far as both have come, since both are
\* those of the common trace: no rank meets another in a different one.
THEOREM CollectivesAreMatched == Spec => []CollectivesMatch
<1>1. RanksInv => CollectivesMatch
  <2> SUFFICES ASSUME RanksInv, NEW r \in Ranks, NEW q \in Ranks,
                      NEW k \in DOMAIN posted[r] \cap DOMAIN posted[q]
               PROVE  posted[r][k] = posted[q][k]
    BY DEF CollectivesMatch
  <2> DEFINE T == Trace(driver)
  <2>1. TypeInv /\ driver \in Drivers /\ \A p \in Ranks : Placed(p) /\ Kept(p)
    BY DEF RanksInv, TypeInv
  <2>2. T \in Seq(Names)
    BY <2>1, TraceCounts
  <2>3. ASSUME NEW p \in Ranks, k \in DOMAIN posted[p]
        PROVE  posted[p][k] = Of(Collectives, T)[k]
    <3>1. Begun(p) \in 0 .. Len(T)
      BY <2>1, TracedIs DEF Traced
    <3>2. PICK b : b = Begun(p)
      OBVIOUS
    <3>3. posted[p] = UpTo(Collectives, T, b)
      BY <2>1, <3>2 DEF Kept
    <3> HIDE DEF T
    <3>4. /\ UpTo(Collectives, T, b) \in Seq(Names)
          /\ \A i \in 1 .. Len(UpTo(Collectives, T, b)) :
               UpTo(Collectives, T, b)[i] = Of(Collectives, T)[i]
      BY <2>2, <3>1, <3>2, UpToIsPrefix
    <3>5. DOMAIN posted[p] = 1 .. Len(posted[p])
      BY <3>3, <3>4
    <3> QED BY <2>3, <3>3, <3>4, <3>5
  <2> QED BY <2>3
<1> QED BY <1>1, RanksInvariant, PTL

\* When the root is through, everyone has begun the last collective of the trace, after
\* all arrays and reductions: nobody has failed and the root's totals count all.
THEOREM ReportsCorrect == Spec => []ReportsAreComplete
<1>1. RanksInv => ReportsAreComplete
  <2> SUFFICES ASSUME RanksInv, status[Root] # "running", code[Root] = 0
               PROVE  /\ \A r \in Ranks : code[r] = 0 /\ Len(frames[r]) = Arrays
                      /\ total = NumRanks * Arrays
    BY DEF ReportsAreComplete
  <2> DEFINE T == Trace(driver)
             m == Len(T)
             n == Len(Program[driver][Root])
  <2>1. /\ TypeInv /\ driver \in Drivers /\ Root \in Ranks
        /\ \A p \in Ranks : Placed(p) /\ Kept(p) /\ Awaited(p)
        /\ Totalled
    BY RanksFinite DEF RanksInv, TypeInv
  <2>2. Follow(driver, Root) /\ Position(Root)
    BY <2>1, RanksFollow, PositionIs
  <2>3. Pos(Root) = m /\ m \in Nat
    BY <2>1, <2>2 DEF Placed, Position
  <2>4. T[m] \in Collectives /\ m \in 1 .. m
    <3>1. n \in 1 .. n /\ n \in Nat /\ Program[driver][Root][n] \in Collectives
      BY <2>2 DEF Follow
    <3>2. Program[driver][Root][n] \in Shared
      BY <3>1 DEF Collectives, Shared, Names
    <3>3. /\ m = Count(Shared, Program[driver][Root], n - 1) + 1 /\ n - 1 \in 0 .. n
          /\ Count(Shared, Program[driver][Root], n) = m /\ T[m] = Program[driver][Root][n]
      BY <2>2, <3>1, <3>2 DEF Follow
    <3>4. Count(Shared, Program[driver][Root], n - 1) \in Nat
      <4>1. \A k \in 0 .. n : Count(Shared, Program[driver][Root], k) \in Nat
        BY <2>2 DEF Follow
      <4> QED BY <3>3, <4>1
    <3> QED BY <2>3, <3>1, <3>3, <3>4
  <2>5. AllBegun(m)
    BY <2>1, <2>3, <2>4 DEF Awaited, Binds
  <2>6. PICK i \in 1 .. m : T[i] = "reduce"
    BY <2>1, TraceWell DEF Well
  <2>7. Arrays = ArraysOf(driver)
    BY DEF Arrays, ArraysOf
  <2>8. \A r \in Ranks : Traced(r) /\ Position(r)
    BY <2>1, TracedIs, PositionIs
  <2>9. ASSUME NEW r \in Ranks PROVE code[r] = 0 /\ Len(frames[r]) = Arrays
    <3>1. Begun(r) >= m /\ Pos(r) \in Nat /\ (Begun(r) = Pos(r) \/ Begun(r) = Pos(r) + 1)
      BY <2>5, <2>8 DEF AllBegun, Traced
    <3>2. code[r] # 1
      <4> SUFFICES ASSUME code[r] = 1 PROVE FALSE
        OBVIOUS
      <4>1. at[r] <= Len(Program[driver][r]) /\ ~inside[r]
        BY <2>1 DEF Placed
      <4>2. Pos(r) < m /\ Begun(r) = Pos(r)
        BY <2>8, <4>1 DEF Position, Begun, Joined
      <4> QED BY <2>3, <3>1, <4>2
    <3>3. code[r] = 0
      BY <2>1, <3>2 DEF TypeInv
    <3>4. Pos(r) + 1 >= i
      BY <2>3, <2>6, <3>1
    <3>5. Len(frames[r]) = ArraysOf(driver)
      BY <2>1, <2>6, <3>4, AllRecorded
    <3> QED BY <2>7, <3>3, <3>5
  <2>10. AllBegun(i)
    <3>1. \A q \in Ranks : Begun(q) \in Nat /\ Begun(q) >= m
      BY <2>5, <2>8 DEF AllBegun, Traced
    <3>2. \A q \in Ranks : Begun(q) >= i
      BY <2>3, <2>6, <3>1
    <3> QED BY <3>2 DEF AllBegun
  <2>11. total = NumRanks * Arrays
    BY <2>1, <2>6, <2>10 DEF Totalled
  <2> QED BY <2>9, <2>11
<1> QED BY <1>1, RanksInvariant, PTL

-----------------------------------------------------------------------------
(* The value ranges agree *)

\* No step of the kind, no change in the count.
LEMMA CountFlat ==
  ASSUME NEW kind, NEW p, Counts(kind, p), NEW i \in 0 .. Len(p), NEW j \in 0 .. Len(p),
         i <= j, \A k \in i + 1 .. j : p[k] \notin kind
  PROVE  Count(kind, p, i) = Count(kind, p, j)
<1> DEFINE C(k) == Count(kind, p, k)
           N == {d \in Nat : i + d <= j => C(i + d) = C(i)}
<1>1. /\ Len(p) \in Nat /\ \A k \in 0 .. Len(p) : C(k) \in Nat
      /\ \A k \in 1 .. Len(p) : C(k) = IF p[k] \in kind THEN C(k - 1) + 1 ELSE C(k - 1)
  BY DEF Counts
<1> HIDE DEF C
<1>2. 0 \in N
  OBVIOUS
<1>3. ASSUME NEW d \in Nat, d \in N PROVE d + 1 \in N
  <2> SUFFICES ASSUME i + (d + 1) <= j PROVE C(i + (d + 1)) = C(i)
    OBVIOUS
  <2>1. PICK k : k = i + (d + 1)
    OBVIOUS
  <2>2. k \in i + 1 .. j /\ k \in 1 .. Len(p) /\ k - 1 = i + d /\ i + d <= j
    BY <1>1, <2>1
  <2>3. C(k) = C(k - 1) /\ C(k - 1) = C(i)
    BY <1>1, <1>3, <2>2
  <2> QED BY <2>1, <2>3
<1> HIDE DEF N
<1>4. Nat \subseteq N
  BY <1>2, <1>3, SetInduction
<1>5. PICK d \in Nat : i + d = j
  <2>1. j - i \in Nat /\ i + (j - i) = j
    BY <1>1
  <2> QED BY <2>1
<1>6. C(i + d) = C(i)
  BY <1>4, <1>5 DEF N
<1> QED BY <1>5, <1>6 DEF C

\* A count that is not zero was reached by a step of the kind.
LEMMA CountAttained ==
  ASSUME NEW kind, NEW p, Counts(kind, p), NEW j \in 0 .. Len(p), Count(kind, p, j) # 0
  PROVE  \E k \in 1 .. j : p[k] \in kind /\ Count(kind, p, k) = Count(kind, p, j)
<1> DEFINE C(k) == Count(kind, p, k)
           J == {k \in 0 .. j : C(k) = C(j)}
<1>1. /\ Len(p) \in Nat /\ C(0) = 0 /\ C(j) # 0
      /\ \A k \in 1 .. Len(p) : C(k) = IF p[k] \in kind THEN C(k - 1) + 1 ELSE C(k - 1)
  BY DEF Counts
<1> HIDE DEF C
<1>2. J \subseteq Nat /\ j \in J
  BY <1>1
<1>3. PICK k \in J : \A i \in J : k <= i
  BY <1>2, LeastExists
<1>4. k \in 1 .. j /\ k \in 1 .. Len(p) /\ C(k) = C(j)
  BY <1>1, <1>3
<1>5. k - 1 \in 0 .. j /\ ~(k <= k - 1)
  BY <1>1, <1>4
<1>6. C(k - 1) # C(j)
  BY <1>3, <1>5
<1>7. p[k] \in kind
  BY <1>1, <1>4, <1>6
<1> QED BY <1>4, <1>7 DEF C

\* The arrays a rank has recorded, as the trace counts them.
Recorded(i) == Count(Records, Trace(driver), i)

\* Before an array is recorded all have met, so no rank is two arrays ahead.
LEMMA OneAhead ==
  ASSUME RanksInv, NEW r \in Ranks, NEW q \in Ranks
  PROVE  Len(frames[r]) \in Nat /\ Len(frames[r]) <= Len(frames[q]) + 1
<1> DEFINE T == Trace(driver)
           C(k) == Count(Records, T, k)
<1>1. TypeInv /\ driver \in Drivers /\ \A p \in Ranks : Placed(p) /\ Kept(p) /\ Awaited(p)
  BY DEF RanksInv, TypeInv
<1>2. \A p \in Ranks : Traced(p) /\ Position(p)
  BY <1>1, TracedIs, PositionIs
<1>3. Counts(Records, T) /\ Len(T) \in Nat /\ Orderly(Mode(driver), T)
  BY <1>1, TraceCounts, TraceWell DEF Well
<1>4. Len(frames[r]) = C(Pos(r)) /\ Len(frames[q]) = C(Pos(q))
  BY <1>1 DEF Kept
<1>5. \A p \in Ranks : Pos(p) \in 0 .. Len(T)
  BY <1>2 DEF Position
<1> HIDE DEF T
<1>6. /\ \A k \in 0 .. Len(T) : C(k) \in Nat
      /\ \A j, k \in 0 .. Len(T) : j <= k => C(j) <= C(k)
      /\ \A k \in 1 .. Len(T) : C(k) = IF T[k] \in Records THEN C(k - 1) + 1 ELSE C(k - 1)
  BY <1>3 DEF Counts
<1>7. C(Pos(r)) \in Nat /\ C(Pos(q)) \in Nat
  BY <1>5, <1>6
<1>8. ASSUME C(Pos(r)) # 0 PROVE C(Pos(r)) <= C(Pos(q)) + 1
  <2>1. PICK k \in 1 .. Pos(r) : T[k] \in Records /\ C(k) = C(Pos(r))
    BY <1>3, <1>5, <1>8, CountAttained
  <2>2. k \in 1 .. Len(T) /\ k - 1 \in 0 .. Len(T)
    BY <1>3, <1>5, <2>1
  <2>3. PICK i \in 1 .. k - 1 : T[i] \in Syncs /\ \A j \in i + 1 .. k - 1 : T[j] \notin Records
    BY <1>3, <2>1, <2>2 DEF Orderly, Fenced
  <2>4. /\ i \in 1 .. Pos(r) /\ i \in 0 .. Len(T) /\ i \in 1 .. Len(T) /\ i <= k - 1
        /\ i - 1 \in 0 .. Len(T)
    BY <1>3, <1>5, <2>1, <2>2, <2>3
  <2>5. C(i) = C(k - 1)
    BY <1>3, <2>2, <2>3, <2>4, CountFlat
  <2>6. C(i - 1) = C(i)
    <3>1. T[i] \notin Records
      BY <2>3 DEF Syncs, Collectives, Records
    <3> QED BY <1>6, <2>4, <3>1
  <2>7. AllBegun(i)
    <3>1. Binds(r, i)
      BY <2>3 DEF Binds, Syncs, T
    <3> QED BY <1>1, <2>4, <3>1 DEF Awaited
  <2>8. i - 1 <= Pos(q)
    <3>1. Begun(q) >= i /\ Pos(q) \in Nat /\ (Begun(q) = Pos(q) \/ Begun(q) = Pos(q) + 1)
      BY <1>2, <2>7 DEF AllBegun, Traced
    <3> QED BY <2>4, <3>1
  <2>9. C(i - 1) <= C(Pos(q))
    BY <1>5, <1>6, <2>4, <2>8
  <2>10. C(k) = C(k - 1) + 1
    BY <1>6, <2>1, <2>2
  <2>11. C(k) \in Nat /\ C(k - 1) \in Nat
    BY <1>6, <2>2
  <2> HIDE DEF C
  <2> QED BY <1>7, <2>1, <2>5, <2>6, <2>9, <2>10, <2>11
<1> QED BY <1>4, <1>7, <1>8

\* Nobody is two arrays ahead.
Near == \A r, q \in Ranks : Len(frames[r]) \in Nat /\ Len(frames[r]) <= Len(frames[q]) + 1

\* No rank is two arrays ahead of another.
LEMMA NearAlways == RanksInv => Near
BY OneAhead DEF Near

\* The steps that change the ranges: measuring, recording, reducing.
Writes(p) ==
  /\ Moves(p) /\ Step(p) \in Records
  /\ extremes' = [extremes EXCEPT ![p] = <<0, 0>>]
  /\ global' = [global EXCEPT ![p] = <<0, 0>>]
  /\ frames' = [frames EXCEPT ![p] = Append(@, Spread(global[p]))]
Reduces(p) ==
  /\ Enter(p) /\ Step(p) \in {"min", "max"} /\ Complete(p)
  /\ global' = Reduced(Step(p)) /\ UNCHANGED <<extremes, frames>>

\* There are no others.
LEMMA RangeKinds ==
  ASSUME TypeInv, NEW p \in Ranks, Placed(p), RankStep(p)
  PROVE  \/ Scan(p) \/ Writes(p) \/ Reduces(p)
         \/ UNCHANGED <<extremes, global, frames>>
<1>1. Moves(p) \/ Stays(p) \/ Enter(p) \/ Leave(p)
  BY StepKinds
<1>2. ASSUME Work(p) PROVE Writes(p) \/ UNCHANGED <<extremes, global, frames>>
  <2>1. CASE Step(p) \in Records
    <3>1. Running(p) /\ Step(p) \notin Collectives
      BY <1>2, <2>1 DEF Work, Records, Collectives
    <3>2. ~Stays(p) \/ Moves(p)
      <4>1. at' # at
        BY <1>2 DEF Work, GoOn, TypeInv
      <4> QED BY <4>1 DEF Stays
    <3>3. ~Enter(p) /\ ~Leave(p)
      BY <3>1 DEF Enter, Leave
    <3> QED BY <1>1, <1>2, <2>1, <3>2, <3>3 DEF Work, Writes, Spread
  <2>2. CASE Step(p) \notin Records
    BY <1>2, <2>2 DEF Work
  <2> QED BY <2>1, <2>2
<1>3. ASSUME Enter(p) PROVE Reduces(p) \/ UNCHANGED <<extremes, global, frames>>
  <2>1. CASE Complete(p) /\ Step(p) \in {"min", "max"}
    BY <1>3, <2>1 DEF Enter, Reduces, Complete
  <2>2. CASE Complete(p) /\ Step(p) \notin {"min", "max"}
    <3>1. Reduced(Step(p)) = global
      BY <2>2, ReducedIs DEF TypeInv
    <3> QED BY <1>3, <2>2, <3>1 DEF Enter, Complete
  <2>3. CASE ~Complete(p)
    BY <1>3, <2>3 DEF Enter, Complete
  <2> QED BY <2>1, <2>2, <2>3
<1> QED BY <1>2, <1>3
        DEF RankStep, Fail, Leave, Pack, Recv, Send, Sent, Write, Return, Exit

\* A reduction of extremes finds all ranks at the same place.
LEMMA AllThere ==
  ASSUME RanksInv, NEW p \in Ranks, Reduces(p)
  PROVE  \A q \in Ranks : Len(frames[q]) = Len(frames[p])
<1> DEFINE T == Trace(driver)
<1>1. TypeInv /\ \A q \in Ranks : Placed(q) /\ Kept(q) /\ Awaited(q)
  BY DEF RanksInv
<1>2. \A q \in Ranks : Traced(q)
  BY <1>1, TracedIs
<1>3. PICK k : k = Pos(p) + 1
  OBVIOUS
<1>4. /\ k \in 1 .. Len(T) /\ T[k] = Step(p)
      /\ \A q \in Ranks : Begun(q)' >= k
  BY <1>1, <1>3, Completing DEF Reduces
<1>5. /\ \A q \in Ranks \ {p} : Begun(q)' = Begun(q)
      /\ Begun(p) = Pos(p) /\ Begun(p)' = Pos(p) + 1
  BY <1>1, Effects DEF Unmoved, Reduces
<1>6. ASSUME NEW q \in Ranks PROVE Pos(q) = Pos(p)
  <2>1. Pos(q) \in Nat /\ Pos(p) \in Nat /\ (Begun(q) = Pos(q) \/ Begun(q) = Pos(q) + 1)
    BY <1>2 DEF Traced
  <2>2. Pos(q) >= k - 1
    BY <1>3, <1>4, <1>5, <2>1
  <2>3. ~(Pos(q) >= k)
    <3> SUFFICES ASSUME Pos(q) >= k PROVE FALSE
      OBVIOUS
    <3>1. k \in 1 .. Pos(q)
      BY <1>4, <2>1
    <3>2. Binds(q, k)
      BY <1>4 DEF Binds, Reduces, Collectives
    <3>3. AllBegun(k)
      BY <1>1, <3>1, <3>2 DEF Awaited
    <3>4. Begun(p) >= k
      BY <3>3 DEF AllBegun
    <3> QED BY <1>3, <1>5, <2>1, <3>4
  <2> QED BY <1>3, <2>1, <2>2, <2>3
<1> QED BY <1>1, <1>6 DEF Kept

\* A rank begins a reduction of extremes by entering it: what all have begun after a
\* step they had begun before, unless that step completes it.
LEMMA BeganBefore ==
  ASSUME RanksInv, NEW p \in Ranks, RankStep(p), NEW i \in 1 .. Len(Trace(driver)),
         Trace(driver)[i] \in {"min", "max"}, \A q \in Ranks : Begun(q)' >= i
  PROVE  \/ AllBegun(i) /\ (Moves(p) => Pos(p) >= i)
         \/ Enter(p) /\ Complete(p) /\ Step(p) = Trace(driver)[i]
<1> DEFINE T == Trace(driver)
<1>1. TypeInv /\ \A q \in Ranks : Placed(q) /\ Kept(q) /\ Awaited(q)
  BY DEF RanksInv
<1>2. Traced(p)
  BY <1>1, TracedIs
<1>3. Moves(p) \/ Stays(p) \/ Enter(p) \/ Leave(p)
  BY <1>1, StepKinds
<1>4. \A q \in Ranks : Begun(q) \in Nat /\ Pos(q) \in Nat
  BY <1>1, TracedIs DEF Traced
<1>5. \A q \in Ranks \ {p} : Begun(q)' = Begun(q)
  BY <1>1, <1>3, Effects DEF Unmoved
<1>6. Begun(p) >= i => AllBegun(i)
  BY <1>5 DEF AllBegun
<1>7. ASSUME Moves(p) PROVE AllBegun(i) /\ Pos(p) >= i
  <2>1. /\ Pos(p)' = IF Step(p) \in Shared THEN Pos(p) + 1 ELSE Pos(p)
        /\ Begun(p) = Pos(p) /\ Begun(p)' = Pos(p)'
    BY <1>1, <1>7, Effects
  <2>2. Step(p) \in Shared => T[Pos(p) + 1] = Step(p) /\ Step(p) \notin {"min", "max"}
    BY <1>2, <1>7 DEF Traced, Moves, Collectives
  <2>3. Step(p) \in Shared => i # Pos(p) + 1
    BY <2>2
  <2>4. Begun(p) >= i
    BY <1>4, <2>1, <2>3
  <2> QED BY <1>6, <2>1, <2>4
<1>8. ASSUME Stays(p) \/ Leave(p) PROVE AllBegun(i)
  <2>1. Begun(p)' = Begun(p)
    BY <1>1, <1>8, Effects
  <2> QED BY <1>6, <2>1
<1>9. ASSUME Enter(p)
      PROVE  AllBegun(i) \/ (Complete(p) /\ Step(p) = T[i])
  <2>1. Begun(p) = Pos(p) /\ Begun(p)' = Pos(p) + 1
    BY <1>1, <1>9, Effects
  <2>2. /\ T[Pos(p) + 1] = Step(p)
        /\ Complete(p) <=> \A q \in Ranks : Begun(q)' >= Pos(p) + 1
    BY <1>1, <1>9, Completing
  <2>3. CASE i = Pos(p) + 1
    BY <2>2, <2>3
  <2>4. CASE i # Pos(p) + 1
    <3>1. Begun(p) >= i
      BY <1>4, <2>1, <2>4
    <3>2. AllBegun(i)
      BY <1>6, <3>1
    <3> QED BY <3>2
  <2> QED BY <2>3, <2>4
<1>10. Enter(p) => ~Moves(p)
  BY DEF Enter, Moves
<1> QED BY <1>3, <1>7, <1>8, <1>9, <1>10

\* Recording ends an array's range: whoever is ahead has recorded the same.
LEMMA TogetherWrites ==
  ASSUME RanksInv, RanksInv', \A r, q \in Ranks : Together(r, q), NEW p \in Ranks, Writes(p)
  PROVE  \A r, q \in Ranks : Together(r, q)'
<1> DEFINE F(q) == Len(frames[q])
           e == Spread(global[p])
<1>1. /\ frames \in [Ranks -> Seq(Int)] /\ \A q \in Ranks : frames[q] \in Seq(Int)
      /\ global \in [Ranks -> Int \X Int] /\ \A q \in Ranks : global[q] \in Int \X Int
  BY DEF RanksInv, TypeInv
<1>2. e \in Int
  BY <1>1 DEF Spread
<1>3. frames' = [frames EXCEPT ![p] = Append(frames[p], e)]
  BY DEF Writes
<1>4. \A q \in Ranks \ {p} : frames'[q] = frames[q] /\ global'[q] = global[q]
  BY <1>1, <1>3 DEF Writes
<1>5. global'[p] = <<0, 0>> /\ frames'[p] = Append(frames[p], e)
  BY <1>1, <1>3 DEF Writes
<1>6. PICK s : s = frames[p]
  OBVIOUS
<1>7. s \in Seq(Int) /\ Len(s) \in Nat
  BY <1>1, <1>6, LenProperties
<1>8. /\ Append(s, e) \in Seq(Int) /\ Len(Append(s, e)) = Len(s) + 1
      /\ Append(s, e)[Len(s) + 1] = e
      /\ \A f \in 1 .. Len(s) : Append(s, e)[f] = s[f]
  BY <1>2, <1>7, AppendProperties
<1> HIDE DEF e
<1>9. /\ Len(frames'[p]) = F(p) + 1 /\ frames'[p][F(p) + 1] = e
      /\ \A f \in 1 .. F(p) : frames'[p][f] = frames[p][f]
      /\ DOMAIN frames'[p] = 1 .. F(p) + 1 /\ F(p) \in Nat
  <2>1. DOMAIN Append(s, e) = 1 .. Len(s) + 1
    BY <1>8
  <2> QED BY <1>5, <1>6, <1>7, <1>8, <2>1, Zenon
<1>10. \A q \in Ranks : DOMAIN frames[q] = 1 .. F(q) /\ F(q) \in Nat
  BY <1>1, LenProperties
<1>11. ASSUME NEW q \in Ranks, q # p PROVE Together(p, q)' /\ Together(q, p)'
  <2>1. Together(p, q) /\ Together(q, p)
    OBVIOUS
  <2>2. frames'[q] = frames[q] /\ global'[q] = global[q]
    BY <1>4, <1>11
  <2>3. F(p) + 1 <= F(q) + 1 /\ F(q) <= F(p) + 1
    <3>1. Near'
      BY NearAlways, PTL
    <3>2. Len(frames'[p]) <= Len(frames'[q]) + 1
      BY <3>1, Zenon DEF Near
    <3>3. F(q) <= F(p) + 1
      BY OneAhead
    <3> QED BY <1>9, <2>2, <3>2, <3>3
  <2>4. F(q) = F(p) \/ F(q) = F(p) + 1
    BY <1>10, <2>3
  <2>5. CASE F(q) = F(p)
    <3>1. global[p] = global[q]
      BY <2>1, <2>5 DEF Together
    <3>2. \A f \in 1 .. F(p) : frames[p][f] = frames[q][f]
      BY <1>10, <2>1, <2>5 DEF Together
    <3>3. Together(p, q)'
      <4>1. Len(frames'[p]) = Len(frames'[q]) + 1 /\ Len(frames'[p]) # Len(frames'[q])
        BY <1>9, <1>10, <2>2, <2>5
      <4>2. frames'[p][Len(frames'[p])] = Spread(global'[q])
        BY <1>9, <2>2, <3>1 DEF e
      <4>3. \A f \in DOMAIN frames'[p] \cap DOMAIN frames'[q] : frames'[p][f] = frames'[q][f]
        BY <1>9, <1>10, <2>2, <2>5, <3>2
      <4> QED BY <1>5, <4>1, <4>2, <4>3 DEF Together
    <3>4. Together(q, p)'
      <4>1. Len(frames'[p]) # Len(frames'[q]) /\ ~(Len(frames'[q]) > Len(frames'[p]))
        BY <1>9, <1>10, <2>2, <2>5
      <4>2. \A f \in DOMAIN frames'[q] \cap DOMAIN frames'[p] : frames'[q][f] = frames'[p][f]
        BY <1>9, <1>10, <2>2, <2>5, <3>2
      <4> QED BY <4>1, <4>2 DEF Together
    <3> QED BY <3>3, <3>4
  <2>6. CASE F(q) = F(p) + 1
    <3>1. global[q] = <<0, 0>> /\ frames[q][F(q)] = e
      BY <1>10, <2>1, <2>6 DEF Together, e
    <3>2. \A f \in 1 .. F(p) : frames[q][f] = frames[p][f]
      BY <1>10, <2>1, <2>6 DEF Together
    <3>3. Len(frames'[p]) = Len(frames'[q]) /\ global'[p] = global'[q]
      BY <1>5, <1>9, <2>2, <2>6, <3>1
    <3>4. \A f \in DOMAIN frames'[p] \cap DOMAIN frames'[q] : frames'[p][f] = frames'[q][f]
      <4> SUFFICES ASSUME NEW f \in 1 .. F(p) + 1 PROVE frames'[p][f] = frames[q][f]
        BY <1>9, <2>2
      <4>1. f \in 1 .. F(p) \/ f = F(p) + 1
        BY <1>9
      <4> QED BY <1>9, <2>6, <3>1, <3>2, <4>1
    <3>5. Len(frames'[p]) \in Nat
      BY <1>9
    <3> QED BY <3>3, <3>4, <3>5 DEF Together
  <2> QED BY <2>4, <2>5, <2>6
<1>12. Together(p, p)'
  <2>1. ~(Len(frames'[p]) > Len(frames'[p]))
    BY <1>9
  <2> QED BY <2>1 DEF Together
<1>13. ASSUME NEW r \in Ranks, NEW q \in Ranks, r # p, q # p PROVE Together(r, q)'
  <2>1. Together(r, q)
    OBVIOUS
  <2> QED BY <1>4, <1>13, <2>1 DEF Together
<1> QED BY <1>11, <1>12, <1>13

\* A reduction gives all ranks the same range.
LEMMA TogetherReduces ==
  ASSUME RanksInv, \A r, q \in Ranks : Together(r, q), NEW p \in Ranks, Reduces(p)
  PROVE  \A r, q \in Ranks : Together(r, q)'
<1>1. /\ extremes \in [Ranks -> Int \X Int] /\ global \in [Ranks -> Int \X Int]
      /\ \A q \in Ranks : frames[q] \in Seq(Int)
  BY DEF RanksInv, TypeInv
<1>2. \A q \in Ranks : Len(frames[q]) = Len(frames[p]) /\ Len(frames[q]) \in Nat
  BY AllThere, OneAhead
<1>3. ASSUME NEW r \in Ranks, NEW q \in Ranks PROVE global[r] = global[q]
  BY <1>2 DEF Together
<1>4. global' = Reduced(Step(p)) /\ Step(p) \in {"min", "max"} /\ frames' = frames
  BY DEF Reduces
<1>5. PICK op : op = Step(p)
  OBVIOUS
<1>6. ASSUME NEW r \in Ranks, NEW q \in Ranks PROVE global'[r] = global'[q]
  <2>1. CASE op = "min"
    <3>1. PICK low : Reduced(op) = [s \in Ranks |-> <<low, global[s][2]>>]
      <4>1. Lowered(Reduced(op))
        BY <1>1, <2>1, ReducedIs
      <4> QED BY <4>1 DEF Lowered
    <3> QED BY <1>3, <1>4, <1>5, <3>1
  <2>2. CASE op = "max"
    <3>1. PICK high : Reduced(op) = [s \in Ranks |-> <<global[s][1], high>>]
      <4>1. Raised(Reduced(op))
        BY <1>1, <2>2, ReducedIs
      <4> QED BY <4>1 DEF Raised
    <3> QED BY <1>3, <1>4, <1>5, <3>1
  <2> QED BY <1>4, <1>5, <2>1, <2>2
<1>7. ASSUME NEW r \in Ranks, NEW q \in Ranks PROVE Together(r, q)'
  <2>1. ~(Len(frames[r]) > Len(frames[q]))
    BY <1>2
  <2>2. \A f \in DOMAIN frames[r] \cap DOMAIN frames[q] : frames[r][f] = frames[q][f]
    BY DEF Together
  <2> QED BY <1>4, <1>6, <2>1, <2>2 DEF Together
<1> QED BY <1>7

\* The ranks stay together.
LEMMA TogetherNext ==
  ASSUME RanksInv, RanksInv', \A r, q \in Ranks : Together(r, q), NEW p \in Ranks, RankStep(p)
  PROVE  \A r, q \in Ranks : Together(r, q)'
<1>1. Scan(p) \/ Writes(p) \/ Reduces(p) \/ UNCHANGED <<extremes, global, frames>>
  BY RangeKinds DEF RanksInv
<1>2. ASSUME global' = global, frames' = frames PROVE \A r, q \in Ranks : Together(r, q)'
  BY <1>2 DEF Together
<1>3. ASSUME Scan(p) PROVE global' = global /\ frames' = frames
  BY <1>3 DEF Scan
<1> QED BY <1>1, <1>2, <1>3, TogetherWrites, TogetherReduces

\* The ranges cover the parts, or are about to be measured anew.
LEMMA CoveredNext ==
  ASSUME RanksInv, \A r, q \in Ranks : Covered(r, q), NEW p \in Ranks, RankStep(p)
  PROVE  \A r, q \in Ranks : Covered(r, q)'
<1> DEFINE T == Trace(driver)
           F(q) == Len(frames[q])
           C(k) == Recorded(k)
           At(r, q, i) == AllBegun(i) /\ F(r) = C(i) /\ F(q) = C(i)
<1>1. TypeInv /\ driver \in Drivers /\ \A q \in Ranks : Placed(q) /\ Kept(q)
  BY DEF RanksInv, TypeInv
<1>2. Moves(p) \/ Stays(p) \/ Enter(p) \/ Leave(p)
  BY <1>1, StepKinds
<1>3. driver' = driver /\ T' = T
  BY <1>2 DEF Moves, Stays, Enter, Leave
<1>4. /\ extremes \in [Ranks -> Int \X Int] /\ global \in [Ranks -> Int \X Int]
      /\ frames \in [Ranks -> Seq(Int)]
      /\ \A q \in Ranks : frames[q] \in Seq(Int) /\ global[q] \in Int \X Int
  BY <1>1 DEF TypeInv
<1>5. \A q \in Ranks : F(q) \in Nat
  BY <1>4, LenProperties
<1>6. \A i : /\ Final("min", i)' = Final("min", i) /\ Final("max", i)' = Final("max", i)
             /\ C(i)' = C(i)
  BY <1>3 DEF Final, Recorded
<1>7. \A i : Final("min", i) \/ Final("max", i) => T[i] \in {"min", "max"}
  BY DEF Final
<1>8. ASSUME NEW r \in Ranks, NEW q \in Ranks, NEW i \in 1 .. Len(T), At(r, q, i)
      PROVE  /\ Final("min", i) => global[r][1] <= extremes[q][1]
             /\ Final("max", i) => extremes[q][2] <= global[r][2]
  BY <1>8 DEF Covered, Recorded
<1>9. ASSUME \A r, q \in Ranks : \A i \in 1 .. Len(T) :
               (\A s \in Ranks : Begun(s)' >= i) /\ Len(frames'[r]) = C(i) /\ Len(frames'[q]) = C(i) =>
                 /\ Final("min", i) => global'[r][1] <= extremes'[q][1]
                 /\ Final("max", i) => extremes'[q][2] <= global'[r][2]
      PROVE  \A r, q \in Ranks : Covered(r, q)'
  BY <1>3, <1>6, <1>9 DEF Covered, AllBegun, Recorded
<1>10. SUFFICES ASSUME NEW r \in Ranks, NEW q \in Ranks, NEW i \in 1 .. Len(T),
                       \A s \in Ranks : Begun(s)' >= i,
                       Len(frames'[r]) = C(i), Len(frames'[q]) = C(i),
                       T[i] \in {"min", "max"}
       PROVE  /\ Final("min", i) => global'[r][1] <= extremes'[q][1]
              /\ Final("max", i) => extremes'[q][2] <= global'[r][2]
  BY <1>7, <1>9
<1>11. \/ AllBegun(i) /\ (Moves(p) => Pos(p) >= i)
       \/ Enter(p) /\ Complete(p) /\ Step(p) = T[i]
  BY <1>10, BeganBefore
<1>12. Scan(p) \/ Writes(p) \/ Reduces(p) \/ UNCHANGED <<extremes, global, frames>>
  BY <1>1, RangeKinds
<1>13. Scan(p) => Moves(p)
  <2>1. ASSUME Scan(p) PROVE ~Stays(p) /\ ~Enter(p) /\ ~Leave(p)
    <3>1. at' # at
      <4>1. at \in [Ranks -> Nat] /\ at' = [at EXCEPT ![p] = @ + 1]
        BY <1>1, <2>1 DEF Scan, AfterScan, GoOn, TypeInv
      <4> QED BY <4>1
    <3>2. Step(p) \in {"scan", "read"}
      BY <2>1 DEF Scan
    <3>3. Step(p) \notin Collectives
      BY <3>2 DEF Collectives
    <3> QED BY <3>1, <3>3 DEF Stays, Enter, Leave
  <2> QED BY <1>2, <2>1
<1>14. Traced(p) /\ Kept(p) /\ Pos(p) \in Nat
  BY <1>1, TracedIs DEF Traced
<1>15. /\ Len(T) \in Nat /\ \A k \in 0 .. Len(T) : C(k) \in Nat
       /\ \A j, k \in 0 .. Len(T) : j <= k => C(j) <= C(k)
  BY <1>1, TraceCounts DEF Counts, Recorded
<1>16. F(p) = C(Pos(p))
  BY <1>14 DEF Kept, Recorded
<1>17. Pos(p) \in 0 .. Len(T)
  BY <1>1, PositionIs DEF Position
<1>18. ASSUME Scan(p)
       PROVE  /\ Final("min", i) => global'[r][1] <= extremes'[q][1]
              /\ Final("max", i) => extremes'[q][2] <= global'[r][2]
  <2>1. AllBegun(i) /\ Pos(p) >= i
    BY <1>11, <1>13, <1>18 DEF Moves, Enter
  <2>2. global' = global /\ frames' = frames /\ \A s \in Ranks \ {p} : extremes'[s] = extremes[s]
    BY <1>4, <1>18 DEF Scan
  <2>3. At(r, q, i)
    BY <1>10, <2>1, <2>2
  <2>4. CASE q # p
    BY <1>8, <2>2, <2>3, <2>4
  <2>5. CASE q = p
    <3>1. PICK j : j = Pos(p) + 1
      OBVIOUS
    <3>2. Step(p) \in Measures /\ at[p] <= Len(Program[driver][p])
      BY <1>18 DEF Scan, Running, Measures
    <3>3. Step(p) \in Shared /\ Step(p) \notin Records
      <4>1. Measures \subseteq Shared
        BY DEF Shared, Names, Measures, CanFail
      <4>2. Measures \cap Records = {}
        BY DEF Measures, Records
      <4> QED BY <3>2, <4>1, <4>2
    <3>4. j \in 1 .. Len(T) /\ T[j] \in Measures /\ C(j) = C(Pos(p))
      BY <1>14, <3>1, <3>2, <3>3 DEF Traced, Recorded
    <3>5. j \in i + 1 .. Len(T) /\ C(i) \in Nat
      BY <1>14, <1>15, <2>1, <3>1, <3>4
    <3>6. C(j) = C(i)
      BY <1>10, <1>16, <2>2, <2>5, <3>4
    <3>7. ~(C(i) < C(j))
      BY <3>5, <3>6
    <3>8. ~Final("min", i) /\ ~Final("max", i)
      BY <3>4, <3>5, <3>7 DEF Final, Recorded
    <3> QED BY <3>8
  <2> QED BY <2>4, <2>5
<1>19. ASSUME Writes(p)
       PROVE  /\ Final("min", i) => global'[r][1] <= extremes'[q][1]
              /\ Final("max", i) => extremes'[q][2] <= global'[r][2]
  <2>1. AllBegun(i) /\ Pos(p) >= i
    BY <1>11, <1>19 DEF Writes, Moves, Enter
  <2>2. \A s \in Ranks \ {p} : /\ frames'[s] = frames[s] /\ global'[s] = global[s]
                              /\ extremes'[s] = extremes[s]
    BY <1>4, <1>19 DEF Writes
  <2>3. Len(frames'[p]) = F(p) + 1
    <3>1. PICK s, e : s = frames[p] /\ e = Spread(global[p])
      OBVIOUS
    <3>2. s \in Seq(Int) /\ e \in Int
      <4>1. s \in Seq(Int) /\ global[p] \in Int \X Int
        BY <1>4, <3>1
      <4>2. global[p][1] \in Int /\ global[p][2] \in Int
        BY <4>1
      <4> QED BY <3>1, <4>1, <4>2 DEF Spread
    <3>3. frames' = [frames EXCEPT ![p] = Append(s, e)]
      BY <1>19, <3>1 DEF Writes
    <3>4. frames'[p] = Append(s, e) /\ Len(Append(s, e)) = Len(s) + 1
      BY <1>4, <3>2, <3>3, AppendProperties
    <3> QED BY <3>1, <3>4
  <2>4. C(i) <= F(p) /\ C(i) \in Nat
    BY <1>14, <1>15, <1>16, <1>17, <2>1
  <2>5. r # p /\ q # p
    BY <1>5, <1>10, <2>3, <2>4
  <2>6. At(r, q, i)
    BY <1>10, <2>1, <2>2, <2>5
  <2> QED BY <1>8, <2>2, <2>5, <2>6
<1>20. ASSUME Reduces(p)
       PROVE  /\ Final("min", i) => global'[r][1] <= extremes'[q][1]
              /\ Final("max", i) => extremes'[q][2] <= global'[r][2]
  <2>1. /\ global' = Reduced(Step(p)) /\ Step(p) \in {"min", "max"}
        /\ extremes' = extremes /\ frames' = frames
    BY <1>20 DEF Reduces
  <2>2. PICK op : op = Step(p)
    OBVIOUS
  <2>3. op # T[i] => At(r, q, i)
    BY <1>10, <1>11, <2>1, <2>2
  <2>4. CASE op = "min"
    <3>1. Lowered(Reduced(op))
      BY <1>4, <2>4, ReducedIs
    <3>2. PICK low \in {extremes[s][1] : s \in Ranks} :
            /\ \A s \in Ranks : low <= extremes[s][1]
            /\ Reduced(op) = [s \in Ranks |-> <<low, global[s][2]>>]
      BY <3>1 DEF Lowered
    <3>3. global'[r][1] <= extremes'[q][1] /\ global'[r][2] = global[r][2]
      BY <2>1, <2>2, <3>2
    <3>4. Final("max", i) => op # T[i]
      BY <2>4 DEF Final
    <3> QED BY <1>8, <2>1, <2>3, <3>3, <3>4
  <2>5. CASE op = "max"
    <3>1. Raised(Reduced(op))
      BY <1>4, <2>5, ReducedIs
    <3>2. PICK high \in {extremes[s][2] : s \in Ranks} :
            /\ \A s \in Ranks : extremes[s][2] <= high
            /\ Reduced(op) = [s \in Ranks |-> <<global[s][1], high>>]
      BY <3>1 DEF Raised
    <3>3. extremes'[q][2] <= global'[r][2] /\ global'[r][1] = global[r][1]
      BY <2>1, <2>2, <3>2
    <3>4. Final("min", i) => op # T[i]
      BY <2>5 DEF Final
    <3> QED BY <1>8, <2>1, <2>3, <3>3, <3>4
  <2> QED BY <2>1, <2>2, <2>4, <2>5
<1>21. ASSUME UNCHANGED <<extremes, global, frames>>, ~Reduces(p)
       PROVE  /\ Final("min", i) => global'[r][1] <= extremes'[q][1]
              /\ Final("max", i) => extremes'[q][2] <= global'[r][2]
  <2>1. ~(Enter(p) /\ Complete(p) /\ Step(p) = T[i])
    BY <1>10, <1>21 DEF Reduces, Enter, Complete
  <2>2. At(r, q, i)
    BY <1>10, <1>11, <1>21, <2>1
  <2> QED BY <1>8, <1>21, <2>2
<1> QED BY <1>12, <1>18, <1>19, <1>20, <1>21

\* A program that measures nothing has nothing to reduce.
LEMMA UnmeasuredNext ==
  ASSUME RanksInv, Unmeasured, NEW p \in Ranks, RankStep(p)
  PROVE  Unmeasured'
<1>1. TypeInv /\ driver \in Drivers /\ \A q \in Ranks : Placed(q) /\ Kept(q)
  BY DEF RanksInv, TypeInv
<1>2. Moves(p) \/ Stays(p) \/ Enter(p) \/ Leave(p)
  BY <1>1, StepKinds
<1>3. driver' = driver
  BY <1>2 DEF Moves, Stays, Enter, Leave
<1>4. SUFFICES ASSUME driver \notin Measuring
      PROVE  \A r \in Ranks : extremes'[r] = <<0, 0>> /\ global'[r] = <<0, 0>>
  BY <1>3 DEF Unmeasured
<1>5. \A r \in Ranks : extremes[r] = <<0, 0>> /\ global[r] = <<0, 0>>
  BY <1>4 DEF Unmeasured
<1>6. extremes \in [Ranks -> Int \X Int] /\ global \in [Ranks -> Int \X Int]
  BY <1>1 DEF TypeInv
<1>7. Scan(p) \/ Writes(p) \/ Reduces(p) \/ UNCHANGED <<extremes, global, frames>>
  BY <1>1, RangeKinds
<1>8. ~Scan(p)
  <2> SUFFICES ASSUME Scan(p) PROVE FALSE
    OBVIOUS
  <2>1. Step(p) = "scan" /\ at[p] <= Len(Program[driver][p])
    BY <1>4 DEF Scan, Running, Measuring
  <2>2. Pos(p) + 1 \in 1 .. Len(Trace(driver)) /\ Trace(driver)[Pos(p) + 1] = "scan"
    BY <1>1, <2>1, TracedIs DEF Traced, Shared, Names
  <2>3. Orderly(Mode(driver), Trace(driver))
    BY <1>1, TraceWell DEF Well
  <2> QED BY <1>4, <2>2, <2>3 DEF Orderly, Mode
<1>9. CASE Writes(p)
  BY <1>5, <1>6, <1>9 DEF Writes
<1>10. ASSUME Reduces(p)
       PROVE  \A r \in Ranks : extremes'[r] = <<0, 0>> /\ global'[r] = <<0, 0>>
  <2>1. /\ global' = Reduced(Step(p)) /\ Step(p) \in {"min", "max"} /\ extremes' = extremes
    BY <1>10 DEF Reduces
  <2>2. PICK op : op = Step(p)
    OBVIOUS
  <2>3. CASE op = "min"
    <3>1. Lowered(Reduced(op))
      BY <1>6, <2>3, ReducedIs
    <3>2. PICK low \in {extremes[s][1] : s \in Ranks} :
            Reduced(op) = [s \in Ranks |-> <<low, global[s][2]>>]
      BY <3>1 DEF Lowered
    <3>3. low = 0
      BY <1>5, <3>2
    <3> QED BY <1>5, <2>1, <2>2, <3>2, <3>3
  <2>4. CASE op = "max"
    <3>1. Raised(Reduced(op))
      BY <1>6, <2>4, ReducedIs
    <3>2. PICK high \in {extremes[s][2] : s \in Ranks} :
            Reduced(op) = [s \in Ranks |-> <<global[s][1], high>>]
      BY <3>1 DEF Raised
    <3>3. high = 0
      BY <1>5, <3>2
    <3> QED BY <1>5, <2>1, <2>2, <3>2, <3>3
  <2> QED BY <2>1, <2>2, <2>3, <2>4
<1>11. CASE UNCHANGED <<extremes, global, frames>>
  BY <1>5, <1>11
<1> QED BY <1>7, <1>8, <1>9, <1>10, <1>11

\* The ranges after a step.
LEMMA RangesNext ==
  ASSUME RanksInv, RangesInv, RanksInv', [Next]_vars
  PROVE  RangesInv'
<1>1. ASSUME NEW p \in Ranks, RankStep(p) PROVE RangesInv'
  BY <1>1, TogetherNext, CoveredNext, UnmeasuredNext DEF RangesInv
<1>2. ASSUME UNCHANGED vars PROVE RangesInv'
  <2>1. \A q \in Ranks : Begun(q)' = Begun(q)
    BY <1>2 DEF vars, Pos, Begun, Joined, Step
  <2>2. \A i : AllBegun(i)' = AllBegun(i)
    BY <2>1 DEF AllBegun
  <2>3. Trace(driver)' = Trace(driver)
    BY <1>2 DEF vars
  <2>4. \A i, op : Final(op, i)' = Final(op, i)
    BY <2>3 DEF Final
  <2>5. /\ driver' = driver /\ extremes' = extremes /\ global' = global /\ frames' = frames
    BY <1>2 DEF vars
  <2>6. \A r, q \in Ranks : Together(r, q)'
    BY <2>5 DEF RangesInv, Together
  <2>7. \A r, q \in Ranks : Covered(r, q)'
    BY <2>2, <2>3, <2>4, <2>5 DEF RangesInv, Covered
  <2>8. Unmeasured'
    BY <2>5 DEF RangesInv, Unmeasured
  <2> QED BY <2>6, <2>7, <2>8 DEF RangesInv
<1> QED BY <1>1, <1>2 DEF Next

\* At the start there is nothing to disagree about.
LEMMA RangesInit ==
  ASSUME Init
  PROVE  RangesInv
<1>1. \A r \in Ranks : /\ extremes[r] = <<0, 0>> /\ global[r] = <<0, 0>>
                      /\ frames[r] = <<>>
  BY DEF Init
<1>2. \A r, q \in Ranks : Together(r, q)
  <2>1. ~(Len(<<>>) > Len(<<>>))
    BY EmptySeq
  <2>2. DOMAIN <<>> = {}
    OBVIOUS
  <2> QED BY <1>1, <2>1, <2>2 DEF Together
<1>3. \A r, q \in Ranks : Covered(r, q)
  <2>1. \A r \in Ranks : global[r][1] = 0 /\ global[r][2] = 0 /\ extremes[r][1] = 0 /\ extremes[r][2] = 0
    BY <1>1
  <2>2. \A r, q \in Ranks : global[r][1] <= extremes[q][1] /\ extremes[q][2] <= global[r][2]
    BY <2>1
  <2> QED BY <2>2 DEF Covered
<1>4. Unmeasured
  BY <1>1 DEF Unmeasured
<1> QED BY <1>2, <1>3, <1>4 DEF RangesInv

\* An array is recorded after the last reduction of what was measured for it.
LEMMA RecordsFinal ==
  ASSUME RanksInv, driver \in Measuring, NEW r \in Ranks, NEW op \in {"min", "max"},
         Running(r), Step(r) \in Records
  PROVE  \E i \in 1 .. Len(Trace(driver)) :
           AllBegun(i) /\ Final(op, i) /\ Recorded(i) = Len(frames[r])
<1> DEFINE T == Trace(driver)
           C(k) == Count(Records, T, k)
<1>1. TypeInv /\ driver \in Drivers /\ Placed(r) /\ Kept(r) /\ Awaited(r)
  BY DEF RanksInv, TypeInv
<1>2. Traced(r)
  BY <1>1, TracedIs
<1>3. Counts(Records, T) /\ Orderly("ranges", T)
  BY <1>1, TraceCounts, TraceWell DEF Well, Mode
<1>4. PICK k : k = Pos(r) + 1
  OBVIOUS
<1>5. k \in 1 .. Len(T) /\ T[k] \in Records /\ Pos(r) \in Nat
  <2>1. Step(r) \in Shared
    BY DEF Records, Shared, Names
  <2> QED BY <1>2, <1>4, <2>1 DEF Traced, Running
<1>6. Len(frames[r]) = C(Pos(r))
  BY <1>1 DEF Kept
<1>7. Fenced({op}, Records \cup Measures \cup {op}, T)
  BY <1>3 DEF Orderly
<1> HIDE DEF T
<1>8. PICK i \in 1 .. k - 1 :
        T[i] \in {op} /\ \A j \in i + 1 .. k - 1 : T[j] \notin Records \cup Measures \cup {op}
  BY <1>5, <1>7 DEF Fenced
<1>9. /\ Len(T) \in Nat /\ \A j \in 0 .. Len(T) : C(j) \in Nat
      /\ \A j, l \in 0 .. Len(T) : j <= l => C(j) <= C(l)
      /\ \A j \in 1 .. Len(T) : C(j) = IF T[j] \in Records THEN C(j - 1) + 1 ELSE C(j - 1)
  BY <1>3 DEF Counts
<1>10. k - 1 = Pos(r) /\ i \in 0 .. Len(T) /\ i \in 1 .. Len(T) /\ k - 1 \in 0 .. Len(T) /\ i <= k - 1
  BY <1>4, <1>5, <1>8, <1>9
<1>11. C(i) = C(k - 1)
  BY <1>3, <1>8, <1>10, CountFlat
<1>12. C(k) = C(k - 1) + 1 /\ C(k - 1) \in Nat
  BY <1>5, <1>9, <1>10
<1>13. AllBegun(i)
  <2>1. Binds(r, i)
    BY <1>8 DEF Binds, Collectives, T
  <2> QED BY <1>1, <1>8, <1>10, <2>1 DEF Awaited
<1>14. ASSUME NEW j \in i + 1 .. Len(T), T[j] \in Measures \cup {op} PROVE C(i) < C(j)
  <2>1. j # k
    BY <1>5, <1>14 DEF Measures, Records
  <2>2. k <= j /\ j \in 0 .. Len(T) /\ k \in 0 .. Len(T)
    BY <1>5, <1>8, <1>9, <1>10, <1>14, <2>1
  <2>3. C(k) <= C(j) /\ C(j) \in Nat
    BY <1>9, <2>2
  <2> HIDE DEF C
  <2> QED BY <1>11, <1>12, <2>3
<1>15. Final(op, i)
  BY <1>8, <1>14 DEF Final, T
<1>16. Recorded(i) = C(i)
  BY DEF Recorded, T
<1> QED BY <1>6, <1>10, <1>11, <1>13, <1>15, <1>16 DEF T

\* The ranges hold together in every execution.
THEOREM RangesInvariant == Spec => []RangesInv
<1>1. Init => RangesInv
  BY RangesInit
<1>2. RanksInv /\ RangesInv /\ RanksInv' /\ [Next]_vars => RangesInv'
  BY RangesNext
<1> QED BY <1>1, <1>2, RanksInvariant, PTL DEF Spec

\* All ranks make an array's ladder and tolerance from one range, and it covers the
\* part of every rank: the reductions meet all ranks at the same array, the last ones
\* come after all measuring, and the range is kept until it is recorded.
THEOREM RangesCorrect == Spec => []RangesAgree
<1>1. RanksInv /\ RangesInv => RangesAgree
  <2> SUFFICES ASSUME RanksInv, RangesInv PROVE RangesAgree
    OBVIOUS
  <2>1. \A r, q \in Ranks : \A f \in DOMAIN frames[r] \cap DOMAIN frames[q] :
          frames[r][f] = frames[q][f]
    BY DEF RangesInv, Together
  <2>2. ASSUME NEW r \in Ranks, NEW q \in Ranks, Running(r), Step(r) \in Records,
               Len(frames[q]) = Len(frames[r])
        PROVE  global[r][1] <= extremes[q][1] /\ extremes[q][2] <= global[r][2]
    <3>1. CASE driver \notin Measuring
      <4>1. global[r] = <<0, 0>> /\ extremes[q] = <<0, 0>>
        BY <3>1 DEF RangesInv, Unmeasured
      <4> QED BY <4>1
    <3>2. CASE driver \in Measuring
      <4>1. Covered(r, q)
        BY DEF RangesInv
      <4>2. PICK i \in 1 .. Len(Trace(driver)) :
              AllBegun(i) /\ Final("min", i) /\ Recorded(i) = Len(frames[r])
        BY <2>2, <3>2, RecordsFinal
      <4>3. PICK j \in 1 .. Len(Trace(driver)) :
              AllBegun(j) /\ Final("max", j) /\ Recorded(j) = Len(frames[r])
        BY <2>2, <3>2, RecordsFinal
      <4>4. global[r][1] <= extremes[q][1]
        BY <2>2, <4>1, <4>2 DEF Covered, Recorded
      <4>5. extremes[q][2] <= global[r][2]
        BY <2>2, <4>1, <4>3 DEF Covered, Recorded
      <4> QED BY <4>4, <4>5
    <3> QED BY <3>1, <3>2
  <2> QED BY <2>1, <2>2 DEF RangesAgree
<1> QED BY <1>1, RanksInvariant, RangesInvariant, PTL

-----------------------------------------------------------------------------
(* Shared files: the order of their steps *)

\* How often a step was taken among the first k, and in all.
Taken(step, p, k) == Count({step}, p, k)
Total(step, p)    == Taken(step, p, Len(p))

\* How many offsets the rank has by then: the first one needs no message.
Offsets(r, p, k) == IF r = 0 THEN Taken("pack", p, k) ELSE Taken("recv", p, k)

\* A file is packed, its offset known, opened, written and closed before the next.
InTurn(r, p, k) ==
  /\ Taken("fclose", p, k) <= Taken("write", p, k)
  /\ Taken("write", p, k) <= Taken("fopen", p, k)
  /\ Taken("fopen", p, k) <= Offsets(r, p, k)
  /\ Offsets(r, p, k) <= Taken("pack", p, k)
  /\ Taken("pack", p, k) <= Taken("fclose", p, k) + 1
  /\ Taken("send", p, k) <= Offsets(r, p, k)
  /\ r = 0 => Taken("recv", p, k) = 0
Ordered(r, p) == p \in Seq(Names) /\ \A k \in 0 .. Len(p) : InTurn(r, p, k)

\* n files are written, and none or the next is begun.
Idle(r, p, n) ==
  /\ Ordered(r, p)
  /\ \A step \in {"pack", "fopen", "write", "fclose"} : Total(step, p) = n
  /\ Offsets(r, p, Len(p)) = n
Packed(r, p, n) ==
  /\ Ordered(r, p)
  /\ \A step \in {"fopen", "write", "fclose"} : Total(step, p) = n
  /\ Total("pack", p) = n + 1 /\ Offsets(r, p, Len(p)) = n + 1

\* Counting goes on where the first program ends.
Continues(step, p, q) ==
  /\ p \o q \in Seq(Names) /\ Len(p) \in Nat /\ Len(q) \in Nat /\ Len(p \o q) = Len(p) + Len(q)
  /\ \A k \in 0 .. Len(p) : Taken(step, p, k) \in Nat /\ Taken(step, p \o q, k) = Taken(step, p, k)
  /\ \A k \in 0 .. Len(q) :
       Taken(step, q, k) \in Nat /\ Taken(step, p \o q, Len(p) + k) = Total(step, p) + Taken(step, q, k)

\* It does for every step.
LEMMA TakenConcat ==
  ASSUME NEW step, NEW p \in Seq(Names), NEW q \in Seq(Names)
  PROVE  Continues(step, p, q)
<1> DEFINE K == {step}
<1>1. /\ p \o q \in Seq(Names) /\ Len(p \o q) = Len(p) + Len(q)
      /\ \A k \in 0 .. Len(p) : UpTo(K, p \o q, k) = UpTo(K, p, k)
      /\ \A k \in 0 .. Len(q) :
           UpTo(K, p \o q, Len(p) + k) = Of(K, p) \o UpTo(K, q, k)
      /\ Of(K, p \o q) = Of(K, p) \o Of(K, q)
      /\ Of(K, p) \in Seq(Names)
  BY UpToConcat, Zenon
<1>2. Counts(K, p) /\ Counts(K, q)
  BY CountStep, Zenon
<1>3. Gathers(Names, K, q)
  BY UpToStep, Zenon
<1> HIDE DEF K
<1>4. Total(step, p) = Len(Of(K, p))
  BY <1>2 DEF Total, Taken, Counts, K
<1>5. ASSUME NEW k \in 0 .. Len(q)
      PROVE  Taken(step, p \o q, Len(p) + k) = Total(step, p) + Taken(step, q, k)
  <2>1. PICK a, b : a = Of(K, p) /\ b = UpTo(K, q, k)
    OBVIOUS
  <2>2. a \in Seq(Names) /\ b \in Seq(Names)
    BY <1>1, <1>3, <2>1 DEF Gathers
  <2>3. Len(a \o b) = Len(a) + Len(b)
    BY <2>2, ConcatProperties
  <2>4. Taken(step, p \o q, Len(p) + k) = Len(a \o b)
    BY <1>1, <2>1 DEF Taken, Count, K
  <2>5. Taken(step, q, k) = Len(b)
    BY <2>1 DEF Taken, Count, K
  <2> QED BY <1>4, <2>1, <2>3, <2>4, <2>5
<1>6. \A k \in 0 .. Len(p) : Taken(step, p \o q, k) = Taken(step, p, k)
  BY <1>1 DEF Taken, Count, K
<1>7. /\ \A k \in 0 .. Len(p) : Taken(step, p, k) \in Nat
      /\ \A k \in 0 .. Len(q) : Taken(step, q, k) \in Nat
      /\ Len(p) \in Nat /\ Len(q) \in Nat
  BY <1>2 DEF Taken, Counts, K
<1> QED BY <1>1, <1>5, <1>6, <1>7 DEF Continues

FileSteps == {"pack", "recv", "send", "fopen", "write", "fclose"}

\* How the shared steps of the programs go on with a part of a file.
LEMMA OrderedConcat ==
  ASSUME NEW r, NEW p, Ordered(r, p), NEW q \in Seq(Names),
         \A k \in 0 .. Len(q) : InTurn(r, p \o q, Len(p) + k)
  PROVE  Ordered(r, p \o q)
<1>1. p \in Seq(Names) /\ \A k \in 0 .. Len(p) : InTurn(r, p, k)
  BY DEF Ordered
<1>2. \A s \in FileSteps : Continues(s, p, q)
  BY <1>1, TakenConcat
<1>3. /\ p \o q \in Seq(Names) /\ Len(p) \in Nat /\ Len(q) \in Nat /\ Len(p \o q) = Len(p) + Len(q)
      /\ \A k \in 0 .. Len(p), s \in FileSteps : Taken(s, p \o q, k) = Taken(s, p, k)
  BY <1>2 DEF Continues, FileSteps
<1>4. ASSUME NEW k \in 0 .. Len(p) PROVE InTurn(r, p \o q, k)
  BY <1>1, <1>3 DEF InTurn, Offsets, FileSteps
<1>5. ASSUME NEW k \in 0 .. Len(p \o q) PROVE InTurn(r, p \o q, k)
  <2>1. CASE k <= Len(p)
    BY <1>3, <1>4, <2>1
  <2>2. CASE ~(k <= Len(p))
    <3>1. PICK m, n : m = Len(p) /\ n = Len(q)
      OBVIOUS
    <3>2. m \in Nat /\ n \in Nat /\ k \in 0 .. m + n /\ ~(k <= m)
      BY <1>3, <2>2, <3>1
    <3>3. k - m \in 0 .. n /\ m + (k - m) = k
      BY <3>2
    <3>4. InTurn(r, p \o q, Len(p) + (k - m))
      BY <3>1, <3>3
    <3> QED BY <3>1, <3>3, <3>4
  <2> QED BY <2>1, <2>2
<1> QED BY <1>3, <1>5 DEF Ordered

\* Steps that are about no file.
Quiet(q) == q \in Seq(Names) /\ \A k \in 1 .. Len(q) : q[k] \notin FileSteps

\* None of the steps of files is taken in them.
LEMMA QuietTaken ==
  ASSUME NEW q, Quiet(q), NEW step \in FileSteps, NEW k \in 0 .. Len(q)
  PROVE  Taken(step, q, k) = 0
<1>1. q \in Seq(Names) /\ \A i \in 1 .. Len(q) : q[i] \notin {step}
  BY DEF Quiet
<1>2. UpTo({step}, q, k) = <<>>
  BY <1>1, OfNone
<1> QED BY <1>2, EmptySeq DEF Taken, Count

\* They change nothing about the files.
LEMMA QuietConcat ==
  ASSUME NEW r, NEW n \in Nat, NEW p, NEW q, Quiet(q)
  PROVE  (Idle(r, p, n) => Idle(r, p \o q, n)) /\ (Packed(r, p, n) => Packed(r, p \o q, n))
<1> SUFFICES ASSUME Ordered(r, p)
             PROVE  /\ Ordered(r, p \o q)
                    /\ \A s \in FileSteps : Total(s, p \o q) = Total(s, p)
                    /\ Offsets(r, p \o q, Len(p \o q)) = Offsets(r, p, Len(p))
  BY DEF Idle, Packed, FileSteps
<1>1. p \in Seq(Names) /\ q \in Seq(Names) /\ \A k \in 0 .. Len(p) : InTurn(r, p, k)
  BY DEF Ordered, Quiet
<1>2. \A s \in FileSteps : Continues(s, p, q)
  BY <1>1, TakenConcat
<1>3. Len(p) \in Nat /\ Len(q) \in Nat /\ Len(p \o q) = Len(p) + Len(q) /\ Len(q) \in 0 .. Len(q)
      /\ Len(p) \in 0 .. Len(p)
  BY <1>2 DEF Continues, FileSteps
<1>4. ASSUME NEW k \in 0 .. Len(q), NEW s \in FileSteps
      PROVE  Taken(s, p \o q, Len(p) + k) = Taken(s, p, Len(p))
  <2>1. /\ Taken(s, p \o q, Len(p) + k) = Total(s, p) + Taken(s, q, k)
        /\ Taken(s, p, Len(p)) \in Nat
    BY <1>2, <1>3 DEF Continues
  <2>2. Taken(s, q, k) = 0
    BY QuietTaken
  <2> QED BY <2>1, <2>2 DEF Total
<1>5. \A k \in 0 .. Len(q) : InTurn(r, p \o q, Len(p) + k)
  <2>1. InTurn(r, p, Len(p))
    BY <1>1, <1>3
  <2> QED BY <1>4, <2>1 DEF InTurn, Offsets, FileSteps
<1>6. Ordered(r, p \o q)
  BY <1>1, <1>5, OrderedConcat
<1>7. \A s \in FileSteps : Total(s, p \o q) = Total(s, p)
  BY <1>3, <1>4 DEF Total
<1> QED BY <1>6, <1>7 DEF Offsets, FileSteps, Total

\* The counts of a short sequence, step by step.
LEMMA TakenStep ==
  ASSUME NEW step, NEW q \in Seq(Names)
  PROVE  /\ Taken(step, q, 0) = 0
         /\ \A k \in 1 .. Len(q) :
              Taken(step, q, k) = Taken(step, q, k - 1) + (IF q[k] = step THEN 1 ELSE 0)
         /\ \A k \in 0 .. Len(q) : Taken(step, q, k) \in Nat
<1>1. Counts({step}, q)
  BY CountStep, Zenon
<1>2. ASSUME NEW k \in 1 .. Len(q)
      PROVE  Taken(step, q, k) = Taken(step, q, k - 1) + (IF q[k] = step THEN 1 ELSE 0)
  <2>1. /\ k - 1 \in 0 .. Len(q)
        /\ Taken(step, q, k) = IF q[k] \in {step} THEN Taken(step, q, k - 1) + 1
                              ELSE Taken(step, q, k - 1)
    BY <1>1 DEF Counts, Taken
  <2>2. Taken(step, q, k - 1) \in Nat
    BY <1>1, <2>1 DEF Counts, Taken
  <2> QED BY <2>1, <2>2
<1> QED BY <1>1, <1>2 DEF Counts, Taken

\* Three steps at most.
LEMMA TakenThree ==
  ASSUME NEW step, NEW q \in Seq(Names), Len(q) \in 1 .. 3
  PROVE  /\ Taken(step, q, 0) = 0
         /\ Taken(step, q, 1) = IF q[1] = step THEN 1 ELSE 0
         /\ Len(q) >= 2 => Taken(step, q, 2) = Taken(step, q, 1) + (IF q[2] = step THEN 1 ELSE 0)
         /\ Len(q) = 3 => Taken(step, q, 3) = Taken(step, q, 2) + (IF q[3] = step THEN 1 ELSE 0)
<1>1. /\ Taken(step, q, 0) = 0
      /\ \A k \in 1 .. Len(q) :
           Taken(step, q, k) = Taken(step, q, k - 1) + (IF q[k] = step THEN 1 ELSE 0)
  BY TakenStep
<1>2. 1 \in 1 .. Len(q) /\ (Len(q) >= 2 => 2 \in 1 .. Len(q)) /\ (Len(q) = 3 => 3 \in 1 .. Len(q))
      /\ 1 - 1 = 0 /\ 2 - 1 = 1 /\ 3 - 1 = 2
  OBVIOUS
<1>3. Taken(step, q, 1) = Taken(step, q, 1 - 1) + (IF q[1] = step THEN 1 ELSE 0)
  BY <1>1, <1>2
<1>4. Len(q) >= 2 => Taken(step, q, 2) = Taken(step, q, 2 - 1) + (IF q[2] = step THEN 1 ELSE 0)
  BY <1>1, <1>2
<1>5. Len(q) = 3 => Taken(step, q, 3) = Taken(step, q, 3 - 1) + (IF q[3] = step THEN 1 ELSE 0)
  BY <1>1, <1>2
<1> QED BY <1>1, <1>2, <1>3, <1>4, <1>5

\* A third step after two.
LEMMA TripleIs ==
  ASSUME NEW x, NEW y, NEW z
  PROVE  <<x, y>> \o <<z>> = <<x, y, z>>
<1> DEFINE S == {x, y, z}
<1>1. /\ <<x, y>> \in Seq(S) /\ <<z>> \in Seq(S) /\ <<x, y, z>> \in Seq(S)
      /\ Len(<<x, y>>) = 2 /\ Len(<<z>>) = 1 /\ Len(<<x, y, z>>) = 3
  OBVIOUS
<1> HIDE DEF S
<1>2. PICK a, b, c : a = <<x, y>> /\ b = <<z>> /\ c = <<x, y, z>>
  OBVIOUS
<1>3. a[1] = x /\ a[2] = y /\ b[1] = z /\ c[1] = x /\ c[2] = y /\ c[3] = z
  BY <1>2
<1>4. a \in Seq(S) /\ b \in Seq(S) /\ c \in Seq(S) /\ Len(a) = 2 /\ Len(b) = 1 /\ Len(c) = 3
  BY <1>1, <1>2
<1>5. /\ a \o b \in Seq(S) /\ Len(a \o b) = Len(a) + Len(b)
      /\ \A i \in 1 .. Len(a) + Len(b) :
           (a \o b)[i] = IF i <= Len(a) THEN a[i] ELSE b[i - Len(a)]
  BY <1>4, ConcatProperties
<1>6. Len(a \o b) = 3 /\ (a \o b)[1] = x /\ (a \o b)[2] = y /\ (a \o b)[3] = z
  BY <1>3, <1>4, <1>5
<1>7. \A i \in 1 .. 3 : (a \o b)[i] = c[i]
  BY <1>3, <1>6
<1>8. a \o b = c
  BY <1>4, <1>5, <1>6, <1>7, SeqEqual
<1> QED BY <1>2, <1>8

\* The steps of a rank in the chain.
LEMMA ChainIs ==
  ASSUME NEW r
  PROVE  /\ Chain(r) \in Seq(Names)
         /\ r = 0 /\ r = NumRanks - 1 => Chain(r) = <<"pack">>
         /\ r = 0 /\ r # NumRanks - 1 => Chain(r) = <<"pack", "send">>
         /\ r # 0 /\ r = NumRanks - 1 => Chain(r) = <<"pack", "recv">>
         /\ r # 0 /\ r # NumRanks - 1 => Chain(r) = <<"pack", "recv", "send">>
<1>1. Chain(r) \in Seq(Names)
  BY ChainsFollow DEF Follows, Silent
<1> DEFINE S == {"pack", "recv", "send"}
<1>2. PICK a, b, c, e : a = <<"pack">> /\ b = <<"recv">> /\ c = <<"send">> /\ e = <<>>
  OBVIOUS
<1>3. a \in Seq(S) /\ e \in Seq(S)
  BY <1>2, EmptySeq
<1>4. PICK ab : ab = a \o b
  OBVIOUS
<1>5. ab = <<"pack", "recv">> /\ a \o c = <<"pack", "send">> /\ ab \o c = <<"pack", "recv", "send">>
  <2>1. <<"pack">> \o <<"recv">> = <<"pack", "recv">> /\ <<"pack">> \o <<"send">> = <<"pack", "send">>
    BY PairIs, Zenon
  <2>2. <<"pack", "recv">> \o <<"send">> = <<"pack", "recv", "send">>
    BY TripleIs, Zenon
  <2> QED BY <1>2, <1>4, <2>1, <2>2, Zenon
<1>6. ab \in Seq(S)
  BY <1>5
<1>7. a \o e = a /\ ab \o e = ab
  BY <1>2, <1>3, <1>6, ConcatEmptySeq
<1>8. Chain(r) = (a \o (IF r = 0 THEN e ELSE b)) \o (IF r = NumRanks - 1 THEN e ELSE c)
  BY <1>2 DEF Chain
<1>9. /\ r = 0 /\ r = NumRanks - 1 => Chain(r) = (a \o e) \o e
      /\ r = 0 /\ r # NumRanks - 1 => Chain(r) = (a \o e) \o c
      /\ r # 0 /\ r = NumRanks - 1 => Chain(r) = ab \o e
      /\ r # 0 /\ r # NumRanks - 1 => Chain(r) = ab \o c
  BY <1>4, <1>8
<1> QED BY <1>1, <1>2, <1>5, <1>7, <1>9

\* It packs once, learns its offset once and then may send.
Chained(r, q) ==
  /\ q \in Seq(Names) /\ Len(q) \in 1 .. 3
  /\ \A k \in 0 .. Len(q) :
       /\ \A s \in {"fopen", "write", "fclose"} : Taken(s, q, k) = 0
       /\ Offsets(r, q, k) <= Taken("pack", q, k) /\ Taken("pack", q, k) <= 1
       /\ Taken("send", q, k) <= Offsets(r, q, k)
       /\ r = 0 => Taken("recv", q, k) = 0
  /\ Taken("pack", q, Len(q)) = 1 /\ Offsets(r, q, Len(q)) = 1

\* Whichever rank it is.
LEMMA ChainTaken ==
  ASSUME NEW r
  PROVE  Chained(r, Chain(r))
<1>0. Chain(r) \in Seq(Names)
  BY ChainIs
<1>1. PICK q : q = Chain(r)
  OBVIOUS
<1>2. /\ q \in Seq(Names) /\ q # <<>> /\ Len(q) \in 1 .. 3
      /\ \A i \in 1 .. Len(q) : q[i] \in {"pack", "recv", "send"}
      /\ q[1] = "pack"
      /\ Len(q) = 3 => r # 0 /\ q[2] = "recv" /\ q[3] = "send"
      /\ Len(q) = 2 => (r # 0 /\ q[2] = "recv") \/ (r = 0 /\ q[2] = "send")
      /\ Len(q) = 1 => r = 0
  <2>1. CASE r = 0 /\ r = NumRanks - 1
    <3>1. q = <<"pack">>
      BY <1>1, <2>1, ChainIs
    <3> QED BY <1>0, <1>1, <2>1, <3>1
  <2>2. CASE r = 0 /\ r # NumRanks - 1
    <3>1. q = <<"pack", "send">>
      BY <1>1, <2>2, ChainIs
    <3>2. q \in Seq(Names) /\ Len(q) = 2 /\ q[1] = "pack" /\ q[2] = "send"
      BY <1>0, <1>1, <3>1
    <3>3. q # <<>> /\ \A i \in 1 .. Len(q) : i = 1 \/ i = 2
      BY <3>1, <3>2
    <3> QED BY <2>2, <3>2, <3>3
  <2>3. CASE r # 0 /\ r = NumRanks - 1
    <3>1. q = <<"pack", "recv">>
      BY <1>1, <2>3, ChainIs
    <3> QED BY <1>0, <1>1, <2>3, <3>1
  <2>4. CASE r # 0 /\ r # NumRanks - 1
    <3>1. q = <<"pack", "recv", "send">>
      BY <1>1, <2>4, ChainIs
    <3> QED BY <1>0, <1>1, <2>4, <3>1
  <2> QED BY <2>1, <2>2, <2>3, <2>4
<1>3. ASSUME NEW s
      PROVE  /\ Taken(s, q, 0) = 0
             /\ Taken(s, q, 1) = IF q[1] = s THEN 1 ELSE 0
             /\ Len(q) >= 2 => Taken(s, q, 2) = Taken(s, q, 1) + (IF q[2] = s THEN 1 ELSE 0)
             /\ Len(q) = 3 => Taken(s, q, 3) = Taken(s, q, 2) + (IF q[3] = s THEN 1 ELSE 0)
  BY <1>2, TakenThree
<1>4. \A k \in 0 .. Len(q) : k \in {0, 1, 2, 3} /\ (k = 2 => Len(q) >= 2) /\ (k = 3 => Len(q) = 3)
  BY <1>2
<1>5. \A s \in {"fopen", "write", "fclose"}, k \in 0 .. Len(q) : Taken(s, q, k) = 0
  <2>1. ASSUME NEW s \in {"fopen", "write", "fclose"} PROVE \A i \in 1 .. Len(q) : q[i] # s
    BY <1>2
  <2>2. ASSUME NEW s \in {"fopen", "write", "fclose"}
        PROVE  Taken(s, q, 0) = 0 /\ Taken(s, q, 1) = 0 /\ (Len(q) >= 2 => Taken(s, q, 2) = 0)
               /\ (Len(q) = 3 => Taken(s, q, 3) = 0)
    <3>1. q[1] # s /\ (Len(q) >= 2 => q[2] # s) /\ (Len(q) = 3 => q[3] # s)
      BY <1>2
    <3> QED BY <1>2, <1>3, <3>1
  <2> QED BY <1>4, <2>2
<1>6. /\ Taken("pack", q, 0) = 0 /\ Taken("pack", q, 1) = 1
      /\ Len(q) >= 2 => Taken("pack", q, 2) = 1
      /\ Len(q) = 3 => Taken("pack", q, 3) = 1
  BY <1>2, <1>3
<1>7. /\ Taken("recv", q, 0) = 0 /\ Taken("recv", q, 1) = 0
      /\ Len(q) >= 2 => Taken("recv", q, 2) = IF r = 0 THEN 0 ELSE 1
      /\ Len(q) = 3 => Taken("recv", q, 3) = 1
  BY <1>2, <1>3
<1>8. /\ Taken("send", q, 0) = 0 /\ Taken("send", q, 1) = 0
      /\ Len(q) >= 2 => Taken("send", q, 2) = IF r = 0 THEN 1 ELSE 0
      /\ Len(q) = 3 => Taken("send", q, 3) = 1
  BY <1>2, <1>3
<1>9. ASSUME NEW k \in 0 .. Len(q)
      PROVE  /\ Offsets(r, q, k) <= Taken("pack", q, k) /\ Taken("pack", q, k) <= 1
             /\ Taken("send", q, k) <= Offsets(r, q, k)
             /\ r = 0 => Taken("recv", q, k) = 0
  BY <1>2, <1>4, <1>6, <1>7, <1>8 DEF Offsets
<1>10. Taken("pack", q, Len(q)) = 1 /\ Offsets(r, q, Len(q)) = 1
  BY <1>2, <1>6, <1>7 DEF Offsets
<1> QED BY <1>1, <1>2, <1>5, <1>9, <1>10 DEF Chained

\* Then the rank has its part of the next file.
LEMMA ChainConcat ==
  ASSUME NEW r, NEW n \in Nat, NEW p, Idle(r, p, n)
  PROVE  Packed(r, p \o Chain(r), n)
<1>1. PICK q : q = Chain(r)
  OBVIOUS
<1>2. Chained(r, q)
  BY <1>1, ChainTaken
<1>3. p \in Seq(Names) /\ q \in Seq(Names) /\ Ordered(r, p)
  BY <1>2 DEF Idle, Ordered, Chained
<1>4. \A s \in FileSteps : Continues(s, p, q)
  BY <1>3, TakenConcat
<1>5. /\ Len(p) \in Nat /\ Len(q) \in Nat /\ Len(p \o q) = Len(p) + Len(q) /\ Len(q) \in 0 .. Len(q)
      /\ Len(p) \in 0 .. Len(p)
      /\ \A s \in FileSteps, k \in 0 .. Len(q) :
           /\ Taken(s, q, k) \in Nat /\ Total(s, p) \in Nat
           /\ Taken(s, p \o q, Len(p) + k) = Total(s, p) + Taken(s, q, k)
  <2>1. Len(p) \in Nat /\ Len(q) \in Nat /\ Len(p \o q) = Len(p) + Len(q)
    BY <1>4 DEF Continues, FileSteps
  <2>2. Len(p) \in 0 .. Len(p) /\ Len(q) \in 0 .. Len(q)
    BY <2>1
  <2> QED BY <1>4, <2>1, <2>2 DEF Continues, Total
<1>6. /\ Total("pack", p) = n /\ Total("fopen", p) = n /\ Total("write", p) = n /\ Total("fclose", p) = n
      /\ (IF r = 0 THEN Total("pack", p) ELSE Total("recv", p)) = n
      /\ Total("send", p) <= n /\ (r = 0 => Total("recv", p) = 0)
  BY <1>5 DEF Idle, Ordered, InTurn, Offsets, Total
<1>7. ASSUME NEW k \in 0 .. Len(q)
      PROVE  /\ Taken("pack", p \o q, Len(p) + k) = n + Taken("pack", q, k)
             /\ Taken("fopen", p \o q, Len(p) + k) = n
             /\ Taken("write", p \o q, Len(p) + k) = n
             /\ Taken("fclose", p \o q, Len(p) + k) = n
             /\ Offsets(r, p \o q, Len(p) + k) = n + Offsets(r, q, k)
             /\ Taken("send", p \o q, Len(p) + k) = Total("send", p) + Taken("send", q, k)
             /\ r = 0 => Taken("recv", p \o q, Len(p) + k) = 0
  <2>1. \A s \in FileSteps : Taken(s, p \o q, Len(p) + k) = Total(s, p) + Taken(s, q, k)
    BY <1>5
  <2>2. /\ Taken("fopen", q, k) = 0 /\ Taken("write", q, k) = 0 /\ Taken("fclose", q, k) = 0
        /\ r = 0 => Taken("recv", q, k) = 0
    BY <1>2 DEF Chained
  <2> QED BY <1>6, <2>1, <2>2 DEF FileSteps, Offsets
<1>8. ASSUME NEW k \in 0 .. Len(q) PROVE InTurn(r, p \o q, Len(p) + k)
  <2>1. /\ Offsets(r, q, k) <= Taken("pack", q, k) /\ Taken("pack", q, k) <= 1
        /\ Taken("send", q, k) <= Offsets(r, q, k)
    BY <1>2 DEF Chained
  <2>2. Taken("pack", q, k) \in Nat /\ Taken("send", q, k) \in Nat /\ Offsets(r, q, k) \in Nat
        /\ Total("send", p) \in Nat
    BY <1>5 DEF FileSteps, Offsets
  <2> QED BY <1>6, <1>7, <2>1, <2>2 DEF InTurn
<1>9. Ordered(r, p \o q)
  BY <1>3, <1>8, OrderedConcat
<1>10. Taken("pack", q, Len(q)) = 1 /\ Offsets(r, q, Len(q)) = 1
  BY <1>2 DEF Chained
<1>11. Packed(r, p \o q, n)
  BY <1>5, <1>7, <1>9, <1>10 DEF Packed, Total
<1> QED BY <1>1, <1>11

\* And then it has written it.
LEMMA FileConcat ==
  ASSUME NEW r, NEW n \in Nat, NEW p, Packed(r, p, n)
  PROVE  Idle(r, p \o SharedFile, n + 1)
<1>1. PICK q : q = <<"fopen", "write", "fclose">>
  OBVIOUS
<1>2. q \in Seq(Names) /\ Len(q) = 3 /\ q[1] = "fopen" /\ q[2] = "write" /\ q[3] = "fclose"
  BY <1>1 DEF Names, Collectives
<1>3. p \in Seq(Names) /\ Ordered(r, p)
  BY DEF Packed, Ordered
<1>4. \A s \in FileSteps : Continues(s, p, q)
  BY <1>2, <1>3, TakenConcat
<1>5. /\ Len(p) \in Nat /\ Len(p \o q) = Len(p) + 3 /\ Len(p) \in 0 .. Len(p)
      /\ \A s \in FileSteps, k \in 0 .. 3 :
           /\ Total(s, p) \in Nat
           /\ Taken(s, p \o q, Len(p) + k) = Total(s, p) + Taken(s, q, k)
  <2>1. Len(p) \in Nat /\ Len(p \o q) = Len(p) + 3
    BY <1>2, <1>4 DEF Continues, FileSteps
  <2>2. Len(p) \in 0 .. Len(p)
    BY <2>1
  <2> QED BY <1>2, <1>4, <2>1, <2>2 DEF Continues, Total
<1>6. ASSUME NEW s
      PROVE  /\ Taken(s, q, 0) = 0
             /\ Taken(s, q, 1) = IF q[1] = s THEN 1 ELSE 0
             /\ Taken(s, q, 2) = Taken(s, q, 1) + (IF q[2] = s THEN 1 ELSE 0)
             /\ Taken(s, q, 3) = Taken(s, q, 2) + (IF q[3] = s THEN 1 ELSE 0)
  BY <1>2, TakenThree
<1>7. ASSUME NEW k \in 0 .. 3
      PROVE  /\ Taken("pack", q, k) = 0 /\ Taken("recv", q, k) = 0 /\ Taken("send", q, k) = 0
             /\ Taken("fopen", q, k) = IF k >= 1 THEN 1 ELSE 0
             /\ Taken("write", q, k) = IF k >= 2 THEN 1 ELSE 0
             /\ Taken("fclose", q, k) = IF k = 3 THEN 1 ELSE 0
  <2>1. k = 0 \/ k = 1 \/ k = 2 \/ k = 3
    OBVIOUS
  <2> QED BY <1>2, <1>6, <2>1
<1>8. /\ Total("fopen", p) = n /\ Total("write", p) = n /\ Total("fclose", p) = n
      /\ Total("pack", p) = n + 1
      /\ (IF r = 0 THEN Total("pack", p) ELSE Total("recv", p)) = n + 1
      /\ Total("send", p) <= n + 1 /\ (r = 0 => Total("recv", p) = 0)
  BY <1>3, <1>5 DEF Packed, Ordered, InTurn, Offsets, Total
<1>9. ASSUME NEW k \in 0 .. 3
      PROVE  /\ Taken("pack", p \o q, Len(p) + k) = n + 1
             /\ Offsets(r, p \o q, Len(p) + k) = n + 1
             /\ Taken("fopen", p \o q, Len(p) + k) = n + (IF k >= 1 THEN 1 ELSE 0)
             /\ Taken("write", p \o q, Len(p) + k) = n + (IF k >= 2 THEN 1 ELSE 0)
             /\ Taken("fclose", p \o q, Len(p) + k) = n + (IF k = 3 THEN 1 ELSE 0)
             /\ Taken("send", p \o q, Len(p) + k) = Total("send", p)
             /\ r = 0 => Taken("recv", p \o q, Len(p) + k) = 0
  <2>1. \A s \in FileSteps : Total(s, p) \in Nat /\ Taken(s, p \o q, Len(p) + k) = Total(s, p) + Taken(s, q, k)
    BY <1>5
  <2> QED BY <1>7, <1>8, <2>1 DEF FileSteps, Offsets
<1>10. \A k \in 0 .. 3 : InTurn(r, p \o q, Len(p) + k)
  BY <1>8, <1>9 DEF InTurn
<1>11. Ordered(r, p \o q)
  BY <1>2, <1>3, <1>10, OrderedConcat
<1>12. Idle(r, p \o q, n + 1)
  BY <1>5, <1>9, <1>11 DEF Idle, Total
<1> QED BY <1>1, <1>12 DEF SharedFile

\* They are those without such a step.
LEMMA QuietIs ==
  ASSUME NEW q \in Seq(Names)
  PROVE  Quiet(q) <=> Of(FileSteps, q) = <<>>
BY OfNone DEF Quiet

\* Quiet parts are put together to quiet programs.
LEMMA QuietTogether ==
  ASSUME NEW p, NEW q, Quiet(p), Quiet(q)
  PROVE  Quiet(p \o q)
<1>1. p \in Seq(Names) /\ q \in Seq(Names) /\ Of(FileSteps, p) = <<>> /\ Of(FileSteps, q) = <<>>
  BY QuietIs DEF Quiet
<1>2. Adds(Names, FileSteps, p, q)
  BY <1>1, OfConcat, Zenon
<1>3. <<>> \o <<>> = <<>>
  <2>1. <<>> \in Seq(Names)
    BY EmptySeq
  <2> QED BY <2>1, ConcatEmpty
<1>4. Of(FileSteps, p \o q) = <<>> /\ p \o q \in Seq(Names)
  BY <1>1, <1>2, <1>3, Zenon DEF Adds
<1> QED BY <1>4, QuietIs

\* So are the rounds of a quiet loop.
LEMMA QuietTimes ==
  ASSUME NEW n \in Nat, NEW p, Quiet(p)
  PROVE  Quiet(Times(n, p))
<1>1. p \in Seq(Names) /\ Of(FileSteps, p) = <<>>
  BY QuietIs DEF Quiet
<1>2. Multiplies(Names, FileSteps, p, n)
  BY <1>1, OfTimes, Zenon
<1>3. Of(FileSteps, Times(n, p)) = <<>> /\ Times(n, p) \in Seq(Names)
  BY <1>1, <1>2, Zenon DEF Multiplies
<1> QED BY <1>3, QuietIs

\* A program that writes no file.
LEMMA QuietIdle ==
  ASSUME NEW r, NEW p, Quiet(p)
  PROVE  Idle(r, p, 0)
<1>1. p \in Seq(Names) /\ \A s \in FileSteps, k \in 0 .. Len(p) : Taken(s, p, k) = 0
  BY QuietTaken DEF Quiet
<1>2. \A k \in 0 .. Len(p) : InTurn(r, p, k) /\ Offsets(r, p, k) = 0
  BY <1>1 DEF InTurn, Offsets, FileSteps
<1>3. Len(p) \in 0 .. Len(p)
  BY <1>1, LenProperties
<1> QED BY <1>1, <1>2, <1>3 DEF Idle, Ordered, Total, FileSteps

\* One file after another.
LEMMA FilesConcat ==
  ASSUME NEW r, NEW m \in Nat, NEW p, Idle(r, p, m), NEW n \in Nat
  PROVE  Idle(r, p \o Times(n, Chain(r) \o SharedFile), m + n)
<1> DEFINE c == Chain(r)
           s == SharedFile
           b == c \o s
           T(k) == Times(k, b)
           N == {k \in Nat : Idle(r, p \o T(k), m + k)}
<1>1. p \in Seq(Names) /\ c \in Seq(Names) /\ s \in Seq(Names)
  <2>1. c \in Seq(Names)
    BY ChainIs
  <2> QED BY <2>1 DEF Idle, Ordered, SharedFile, Names, Collectives
<1> HIDE DEF c, s
<1>2. b \in Seq(Names)
  BY <1>1, ConcatProperties
<1> HIDE DEF b
<1>3. T(0) = <<>> /\ \A k \in Nat : T(k) \in Seq(Names) /\ T(k + 1) = T(k) \o b
  BY <1>2, TimesStep
<1> HIDE DEF T
<1>4. 0 \in N
  <2>1. p \o <<>> = p /\ m + 0 = m
    BY <1>1, ConcatEmptySeq
  <2> QED BY <1>3, <2>1
<1>5. ASSUME NEW k \in Nat, k \in N PROVE k + 1 \in N
  <2>1. PICK t, pt, ptc : t = T(k) /\ pt = p \o t /\ ptc = pt \o c
    OBVIOUS
  <2>2. t \in Seq(Names) /\ T(k + 1) = t \o b
    BY <1>3, <2>1
  <2>3. pt \in Seq(Names) /\ ptc \in Seq(Names)
    BY <1>1, <2>1, <2>2, ConcatProperties
  <2>4. Idle(r, pt, m + k) /\ m + k \in Nat
    BY <1>5, <2>1
  <2>5. Packed(r, pt \o Chain(r), m + k)
    BY <2>4, ChainConcat
  <2>6. Packed(r, ptc, m + k)
    BY <2>1, <2>5 DEF c
  <2>7. Idle(r, ptc \o SharedFile, (m + k) + 1)
    BY <2>4, <2>6, FileConcat
  <2>8. Associates(p, t, b) /\ Associates(pt, c, s)
    BY <1>1, <1>2, <2>2, <2>3, AssociatesConcat, Zenon
  <2>9. p \o T(k + 1) = ptc \o s
    <3>1. (p \o t) \o b = p \o (t \o b) /\ (pt \o c) \o s = pt \o (c \o s)
      BY <2>8 DEF Associates
    <3>2. b = c \o s
      BY DEF b
    <3> QED BY <2>1, <2>2, <3>1, <3>2, Zenon
  <2>10. (m + k) + 1 = m + (k + 1)
    OBVIOUS
  <2>11. Idle(r, p \o T(k + 1), m + (k + 1))
    BY <2>7, <2>9, <2>10, Zenon DEF s
  <2> QED BY <2>11
<1> HIDE DEF N
<1>6. n \in N
  BY <1>4, <1>5, SetInduction
<1>7. Idle(r, p \o T(n), m + n)
  BY <1>6 DEF N
<1> QED BY <1>7, Zenon DEF T, b, c, s

\* The shared files a program writes; PT adds that of the mask.
FilesOf(d) == CASE d = "array_reconstruct" -> 1
                [] d = "Vtot"              -> Variables
                [] d = "PT"                -> Variables + 1
                [] OTHER                   -> 0

\* The reductions of a report are about no file, and neither are these.
LEMMA QuietParts ==
  /\ \A r, n : n \in Nat \ {0} => Quiet(Reductions(r, n))
  /\ Quiet(<<"open">>) /\ Quiet(<<"close">>) /\ Quiet(<<"read">>) /\ Quiet(<<"barrier">>)
  /\ Quiet(<<"decode">>) /\ Quiet(<<"load">>) /\ Quiet(<<"min", "max">>)
  /\ Quiet(<<"read", "min", "max", "barrier", "commit">>) /\ Quiet(<<"barrier", "commit">>)
  /\ Quiet(<<"read", "barrier", "commit">>)
  /\ Quiet(<<"load", "scan", "min", "max", "store">>) /\ Quiet(<<"scan", "min", "max", "store">>)
  /\ Quiet(<<"load", "scan", "min", "max", "load", "setup">>)
  /\ Quiet(<<"load", "min", "max", "load">>) /\ Quiet(<<"scan", "min", "max", "setup">>)
<1>1. ASSUME NEW r, NEW n \in Nat \ {0} PROVE Quiet(Reductions(r, n))
  <2>1. Quiet(<<"reduce">>)
    BY DEF Quiet, FileSteps, Names, Collectives
  <2> QED BY <2>1, QuietTimes DEF Reductions
<1>2. Quiet(<<"open">>) /\ Quiet(<<"close">>) /\ Quiet(<<"read">>) /\ Quiet(<<"barrier">>)
      /\ Quiet(<<"decode">>) /\ Quiet(<<"load">>)
  BY DEF Quiet, FileSteps, Names, Collectives, CanFail, Records
<1>3. Quiet(<<"min", "max">>) /\ Quiet(<<"barrier", "commit">>)
  BY DEF Quiet, FileSteps, Names, Collectives, CanFail, Records
<1>4. Quiet(<<"read", "min", "max", "barrier", "commit">>)
  BY DEF Quiet, FileSteps, Names, Collectives, CanFail, Records
<1>5. Quiet(<<"read", "barrier", "commit">>)
  BY DEF Quiet, FileSteps, Names, Collectives, CanFail, Records
<1>6. Quiet(<<"load", "scan", "min", "max", "store">>)
  BY DEF Quiet, FileSteps, Names, Collectives, CanFail, Records
<1>7. Quiet(<<"scan", "min", "max", "store">>)
  BY DEF Quiet, FileSteps, Names, Collectives, CanFail, Records
<1>8. Quiet(<<"load", "scan", "min", "max", "load", "setup">>)
  BY DEF Quiet, FileSteps, Names, Collectives, CanFail, Records
<1>9. Quiet(<<"load", "min", "max", "load">>)
  BY DEF Quiet, FileSteps, Names, Collectives, CanFail, Records
<1>10. Quiet(<<"scan", "min", "max", "setup">>)
  BY DEF Quiet, FileSteps, Names, Collectives, CanFail, Records
<1> QED BY <1>1, <1>2, <1>3, <1>4, <1>5, <1>6, <1>7, <1>8, <1>9, <1>10

\* Every program takes the steps of its files in order.
LEMMA ProgramsOrdered ==
  ASSUME NEW d \in Drivers, NEW r \in Ranks
  PROVE  Idle(r, Program[d][r], FilesOf(d)) /\ FilesOf(d) \in Nat
<1>0. /\ d \in {"refactor", "retrieve", "reconstruct", "reconstruct_retrieved",
                "array_refactor", "array_reconstruct", "qoi_refactor", "PT", "Vtot"}
      /\ Frames \in Nat /\ Tolerances \in Nat /\ Variables \in Nat /\ Variables - 1 \in Nat
  BY DriversAssumption, FramesAssumption
<1>a. \A n \in Nat \ {0} : Quiet(Reductions(r, n))
  BY QuietParts
<1>1. Quiet(refactor(r)) /\ Quiet(retrieve(r)) /\ Quiet(reconstruct_retrieved(r))
  <2> DEFINE a == Times(Frames, <<"read", "min", "max", "barrier", "commit">>)
             b == Times(Frames, <<"barrier", "commit">>)
             c == Times(Frames, <<"read", "barrier", "commit">>)
  <2>1. Quiet(a) /\ Quiet(b) /\ Quiet(c)
    BY <1>0, QuietParts, QuietTimes
  <2> HIDE DEF a, b, c
  <2>2. Quiet(<<"open">> \o a) /\ Quiet(<<"open">> \o b) /\ Quiet(<<"open">> \o c)
    BY <2>1, QuietParts, QuietTogether
  <2>3. Quiet((<<"open">> \o a) \o <<"close">>) /\ Quiet((<<"open">> \o b) \o <<"close">>)
    BY <2>2, QuietParts, QuietTogether
  <2>4. /\ Quiet(((<<"open">> \o a) \o <<"close">>) \o Reductions(r, 4))
        /\ Quiet(((<<"open">> \o b) \o <<"close">>) \o Reductions(r, 7))
        /\ Quiet((<<"open">> \o c) \o Reductions(r, 5))
    BY <1>a, <2>2, <2>3, QuietTogether
  <2> QED BY <2>4 DEF refactor, retrieve, reconstruct_retrieved, a, b, c
<1>2. Quiet(reconstruct(r))
  <2> DEFINE b == Times(Tolerances, <<"barrier">>)
             c == (<<"read">> \o b) \o <<"decode">>
             a == Times(Frames, c)
  <2>1. Quiet(b)
    BY <1>0, QuietParts, QuietTimes
  <2> HIDE DEF b
  <2>2. Quiet(<<"read">> \o b)
    BY <2>1, QuietParts, QuietTogether
  <2>3. Quiet(c)
    BY <2>2, QuietParts, QuietTogether
  <2> HIDE DEF c
  <2>4. Quiet(a)
    BY <1>0, <2>3, QuietTimes
  <2> HIDE DEF a
  <2>5. Quiet(<<"open">> \o a)
    BY <2>4, QuietParts, QuietTogether
  <2>6. Quiet((<<"open">> \o a) \o Reductions(r, 3))
    BY <1>a, <2>5, QuietTogether
  <2> QED BY <2>6 DEF reconstruct, a, b, c
<1>3. Quiet(array_refactor(r))
  BY <1>a, QuietParts, QuietTogether DEF array_refactor
<1>4. Quiet(qoi_refactor(r))
  <2> DEFINE a == Times(Variables, <<"load">>)
             b == Times(Variables, <<"scan", "min", "max", "store">>)
  <2>1. Quiet(a) /\ Quiet(b)
    BY <1>0, QuietParts, QuietTimes
  <2> HIDE DEF a, b
  <2>2. Quiet(a \o b)
    BY <2>1, QuietTogether
  <2>3. Quiet((a \o b) \o Reductions(r, 1))
    BY <1>a, <2>2, QuietTogether
  <2> QED BY <2>3 DEF qoi_refactor, a, b
<1>5. Idle(r, array_reconstruct(r), 1)
  <2> DEFINE s == <<"load", "scan", "min", "max", "load", "setup">>
             p == s \o Reductions(r, 4)
  <2>1. Quiet(p)
    BY <1>a, QuietParts, QuietTogether
  <2> HIDE DEF p
  <2>2. Packed(r, p \o Chain(r), 0)
    BY <2>1, QuietIdle, ChainConcat
  <2>3. Idle(r, (p \o Chain(r)) \o SharedFile, 0 + 1)
    BY <2>2, FileConcat
  <2> QED BY <2>3 DEF array_reconstruct, p
<1>6. Quiet(qoi_reconstruct(r))
  <2> DEFINE a == Times(Variables, <<"load", "min", "max", "load">>)
             b == Times(Variables, <<"scan", "min", "max", "setup">>)
  <2>1. Quiet(a) /\ Quiet(b)
    BY <1>0, QuietParts, QuietTimes
  <2> HIDE DEF a, b
  <2>2. Quiet(a \o <<"min", "max">>)
    BY <2>1, QuietParts, QuietTogether
  <2>3. Quiet((a \o <<"min", "max">>) \o b)
    BY <2>1, <2>2, QuietTogether
  <2>4. Quiet(((a \o <<"min", "max">>) \o b) \o Reductions(r, 6))
    BY <1>a, <2>3, QuietTogether
  <2> QED BY <2>4 DEF qoi_reconstruct, a, b
<1>7. Idle(r, qoi_reconstruct(r), 0)
  BY <1>6, QuietIdle
<1>8. Idle(r, Vtot(r), Variables)
  <2>1. Idle(r, qoi_reconstruct(r) \o Times(Variables, Chain(r) \o SharedFile), 0 + Variables)
    BY <1>0, <1>7, FilesConcat
  <2> QED BY <1>0, <2>1 DEF Vtot
<1>9. Idle(r, PT(r), Variables + 1)
  <2> DEFINE a == qoi_reconstruct(r) \o Chain(r)
             b == a \o SharedFile
             c == b \o Chain(r)
             e == c \o <<"load">>
             f == e \o SharedFile
  <2>1. Packed(r, a, 0)
    BY <1>7, ChainConcat
  <2> HIDE DEF a
  <2>2. Idle(r, b, 1)
    <3>1. Idle(r, b, 0 + 1)
      BY <2>1, FileConcat
    <3> QED BY <3>1
  <2> HIDE DEF b
  <2>3. Packed(r, c, 1)
    BY <2>2, ChainConcat
  <2> HIDE DEF c
  <2>4. Packed(r, e, 1)
    BY <2>3, QuietParts, QuietConcat
  <2> HIDE DEF e
  <2>5. Idle(r, f, 2)
    <3>1. Idle(r, f, 1 + 1)
      BY <2>4, FileConcat
    <3> QED BY <3>1
  <2> HIDE DEF f
  <2>6. Idle(r, f \o Times(Variables - 1, Chain(r) \o SharedFile), 2 + (Variables - 1))
    BY <1>0, <2>5, FilesConcat
  <2>7. 2 + (Variables - 1) = Variables + 1
    BY <1>0
  <2>8. PT(r) = f \o Times(Variables - 1, Chain(r) \o SharedFile)
    BY DEF PT, a, b, c, e, f
  <2> QED BY <2>6, <2>7, <2>8, Zenon
<1>10. /\ d \in {"refactor", "retrieve", "reconstruct", "reconstruct_retrieved",
                "array_refactor", "qoi_refactor"} => Quiet(Program[d][r])
       /\ d = "array_reconstruct" => Program[d][r] = array_reconstruct(r)
       /\ d = "Vtot" => Program[d][r] = Vtot(r)
       /\ d = "PT" => Program[d][r] = PT(r)
  BY <1>1, <1>2, <1>3, <1>4 DEF Program
<1>11. d \notin {"array_reconstruct", "PT", "Vtot"} => Idle(r, Program[d][r], 0)
  BY <1>0, <1>10, QuietIdle
<1> QED BY <1>0, <1>5, <1>8, <1>9, <1>10, <1>11 DEF FilesOf

-----------------------------------------------------------------------------
(* Where the ranks are with their files *)

\* What a rank has done of a kind, the offsets it knows, and those it has passed on.
Done(step, r) == Taken(step, Program[driver][r], at[r] - 1)
Got(r)        == Offsets(r, Program[driver][r], at[r] - 1)
Handed(r)     == Done("send", r) + (IF inside[r] /\ Step(r) = "send" THEN 1 ELSE 0)

\* A rank's steps so far are those of its files in order, and so are they with the next one.
Turned(r) ==
  /\ \A s \in FileSteps : Done(s, r) \in Nat
  /\ Got(r) \in Nat /\ Handed(r) \in Nat /\ Handed(r) <= Got(r)
  /\ Got(r) = IF r = 0 THEN Done("pack", r) ELSE Done("recv", r)
  /\ Done("fclose", r) <= Done("write", r) /\ Done("write", r) <= Done("fopen", r)
  /\ Done("fopen", r) <= Got(r) /\ Got(r) <= Done("pack", r)
  /\ Done("pack", r) <= Done("fclose", r) + 1 /\ Done("send", r) <= Got(r)
  /\ at[r] <= Len(Program[driver][r]) =>
       /\ Step(r) = "pack" => Done("pack", r) = Done("fclose", r)
       /\ Step(r) = "recv" => r # 0 /\ Got(r) < Done("pack", r)
       /\ Step(r) = "send" => Done("send", r) < Got(r)
       /\ Step(r) = "fopen" => Done("fopen", r) < Got(r)
       /\ Step(r) = "write" => Done("write", r) < Done("fopen", r)
       /\ Step(r) = "fclose" => Done("fclose", r) < Done("write", r)
       /\ \A s \in FileSteps :
            Taken(s, Program[driver][r], at[r]) = Done(s, r) + (IF Step(r) = s THEN 1 ELSE 0)
  /\ at[r] = Len(Program[driver][r]) + 1 => Done("fclose", r) = Done("fopen", r)

\* Every rank is somewhere in such an order.
LEMMA TurnedIs ==
  ASSUME TypeInv, NEW r \in Ranks, Placed(r)
  PROVE  Turned(r)
<1> DEFINE P == Program[driver][r]
           n == Len(P)
           k == at[r]
<1>1. driver \in Drivers /\ k \in 1 .. n + 1
  BY DEF TypeInv, Placed
<1>2. Idle(r, P, FilesOf(driver))
  BY <1>1, ProgramsOrdered
<1>3. /\ P \in Seq(Names) /\ \A i \in 0 .. n : InTurn(r, P, i)
      /\ Total("fclose", P) = Total("fopen", P)
  BY <1>2 DEF Idle, Ordered
<1> HIDE DEF P
<1>4. ASSUME NEW s
      PROVE  /\ \A i \in 1 .. n :
                  Taken(s, P, i) = Taken(s, P, i - 1) + (IF P[i] = s THEN 1 ELSE 0)
             /\ \A i \in 0 .. n : Taken(s, P, i) \in Nat
  BY <1>3, TakenStep
<1>5. n \in Nat
  BY <1>3, LenProperties
<1>6. k - 1 \in 0 .. n /\ (k <= n => k \in 0 .. n /\ k \in 1 .. n)
  BY <1>1, <1>5
<1>7. InTurn(r, P, k - 1) /\ (k <= n => InTurn(r, P, k))
  BY <1>3, <1>6
<1>8. \A s : Done(s, r) = Taken(s, P, k - 1)
  BY DEF Done, P
<1>9. Got(r) = IF r = 0 THEN Done("pack", r) ELSE Done("recv", r)
  BY <1>8 DEF Got, Offsets, P
<1>10. Step(r) = P[k]
  BY DEF Step, P
<1>11. \A s : Done(s, r) \in Nat
  <2> SUFFICES ASSUME NEW s PROVE Done(s, r) \in Nat
    OBVIOUS
  <2>1. Taken(s, P, k - 1) \in Nat
    BY <1>4, <1>6
  <2> QED BY <1>8, <2>1
<1>12. k <= n => \A s : Taken(s, P, k) = Done(s, r) + (IF Step(r) = s THEN 1 ELSE 0)
  <2> SUFFICES ASSUME k <= n, NEW s
               PROVE  Taken(s, P, k) = Done(s, r) + (IF Step(r) = s THEN 1 ELSE 0)
    OBVIOUS
  <2>1. k \in 1 .. n
    BY <1>6
  <2>2. Taken(s, P, k) = Taken(s, P, k - 1) + (IF P[k] = s THEN 1 ELSE 0)
    BY <1>4, <2>1
  <2> QED BY <1>8, <1>10, <2>2
<1>13. /\ Done("fclose", r) <= Done("write", r) /\ Done("write", r) <= Done("fopen", r)
       /\ Done("fopen", r) <= Got(r) /\ Got(r) <= Done("pack", r)
       /\ Done("pack", r) <= Done("fclose", r) + 1 /\ Done("send", r) <= Got(r)
       /\ r = 0 => Done("recv", r) = 0
  BY <1>7, <1>8, <1>9 DEF InTurn, Offsets
<1>14. ASSUME k <= n
       PROVE  /\ Step(r) = "pack" => Done("pack", r) = Done("fclose", r)
              /\ Step(r) = "recv" => r # 0 /\ Got(r) < Done("pack", r)
              /\ Step(r) = "send" => Done("send", r) < Got(r)
              /\ Step(r) = "fopen" => Done("fopen", r) < Got(r)
              /\ Step(r) = "write" => Done("write", r) < Done("fopen", r)
              /\ Step(r) = "fclose" => Done("fclose", r) < Done("write", r)
  <2>1. PICK x, y, z, o, w, c :
          /\ x = Done("pack", r) /\ y = Done("recv", r) /\ z = Done("send", r)
          /\ o = Done("fopen", r) /\ w = Done("write", r) /\ c = Done("fclose", r)
    OBVIOUS
  <2>2. /\ Taken("pack", P, k) = x + (IF Step(r) = "pack" THEN 1 ELSE 0)
        /\ Taken("recv", P, k) = y + (IF Step(r) = "recv" THEN 1 ELSE 0)
        /\ Taken("send", P, k) = z + (IF Step(r) = "send" THEN 1 ELSE 0)
        /\ Taken("fopen", P, k) = o + (IF Step(r) = "fopen" THEN 1 ELSE 0)
        /\ Taken("write", P, k) = w + (IF Step(r) = "write" THEN 1 ELSE 0)
        /\ Taken("fclose", P, k) = c + (IF Step(r) = "fclose" THEN 1 ELSE 0)
    BY <1>12, <1>14, <2>1
  <2>3. /\ x \in Nat /\ y \in Nat /\ z \in Nat /\ o \in Nat /\ w \in Nat /\ c \in Nat
        /\ Got(r) = (IF r = 0 THEN x ELSE y)
        /\ c <= w /\ w <= o /\ o <= Got(r) /\ Got(r) <= x /\ x <= c + 1 /\ z <= Got(r)
    BY <1>9, <1>11, <1>13, <2>1
  <2>4. /\ Taken("fclose", P, k) <= Taken("write", P, k)
        /\ Taken("write", P, k) <= Taken("fopen", P, k)
        /\ Taken("fopen", P, k) <= (IF r = 0 THEN Taken("pack", P, k) ELSE Taken("recv", P, k))
        /\ (IF r = 0 THEN Taken("pack", P, k) ELSE Taken("recv", P, k)) <= Taken("pack", P, k)
        /\ Taken("pack", P, k) <= Taken("fclose", P, k) + 1
        /\ Taken("send", P, k) <= (IF r = 0 THEN Taken("pack", P, k) ELSE Taken("recv", P, k))
        /\ r = 0 => Taken("recv", P, k) = 0
    BY <1>7, <1>14 DEF InTurn, Offsets
  <2>5. CASE Step(r) = "pack"
    BY <2>1, <2>2, <2>3, <2>4, <2>5
  <2>6. CASE Step(r) = "recv"
    BY <2>1, <2>2, <2>3, <2>4, <2>6
  <2>7. CASE Step(r) = "send"
    BY <2>1, <2>2, <2>3, <2>4, <2>7
  <2>8. CASE Step(r) \in {"fopen", "write", "fclose"}
    BY <2>1, <2>2, <2>3, <2>4, <2>8
  <2> QED BY <2>5, <2>6, <2>7, <2>8
<1>15. Handed(r) \in Nat /\ Handed(r) <= Got(r)
  <2>1. inside[r] /\ Step(r) = "send" => k <= n
    BY DEF Placed, P
  <2>2. Got(r) \in Nat
    BY <1>9, <1>11
  <2> QED BY <1>11, <1>13, <1>14, <2>1, <2>2 DEF Handed
<1>16. k = n + 1 => Done("fclose", r) = Done("fopen", r)
  <2>1. k = n + 1 => k - 1 = n
    BY <1>5
  <2> QED BY <1>3, <1>8, <2>1 DEF Total
<1> QED BY <1>9, <1>11, <1>12, <1>13, <1>14, <1>15, <1>16 DEF Turned, P

\* What the steps do to these numbers.
LEMMA DoneNext ==
  ASSUME TypeInv, NEW r \in Ranks, Placed(r), driver' = driver
  PROVE  /\ at[r] <= Len(Program[driver][r]) /\ GoOn(r) =>
              \A s \in FileSteps : Done(s, r)' = Done(s, r) + (IF Step(r) = s THEN 1 ELSE 0)
         /\ at'[r] = at[r] => \A s : Done(s, r)' = Done(s, r)
         /\ \A q \in Ranks \ {r} : GoOn(r) => at'[q] = at[q]
<1>1. Turned(r) /\ at \in [Ranks -> Nat]
  BY TurnedIs DEF TypeInv
<1>2. ASSUME GoOn(r), at[r] <= Len(Program[driver][r]), NEW s \in FileSteps
      PROVE  Done(s, r)' = Done(s, r) + (IF Step(r) = s THEN 1 ELSE 0)
  <2>1. at'[r] - 1 = at[r]
    BY <1>1, <1>2 DEF GoOn
  <2>2. Done(s, r)' = Taken(s, Program[driver][r], at[r])
    BY <2>1 DEF Done
  <2> QED BY <1>1, <1>2, <2>2 DEF Turned
<1>3. ASSUME at'[r] = at[r], NEW s PROVE Done(s, r)' = Done(s, r)
  BY <1>3 DEF Done
<1>4. \A q \in Ranks \ {r} : GoOn(r) => at'[q] = at[q]
  BY <1>1 DEF GoOn
<1> QED BY <1>2, <1>3, <1>4

\* Nobody has closed a file that another rank has still to write.
Behind(r, q) == Done("fclose", r) <= Done("write", q)

\* A close binds all ranks: they have begun it, and written before.
LEMMA BehindIs ==
  ASSUME RanksInv, NEW r \in Ranks, NEW q \in Ranks
  PROVE  Behind(r, q)
<1> DEFINE T == Trace(driver)
           K == {"fclose"}
           c == Done("fclose", r)
<1>1. /\ TypeInv /\ driver \in Drivers
      /\ Placed(r) /\ Placed(q) /\ Awaited(r)
  BY DEF RanksInv, TypeInv
<1>2. Turned(r) /\ Turned(q) /\ Position(r) /\ Position(q) /\ Traced(q)
  BY <1>1, TurnedIs, PositionIs, TracedIs
<1>3. Counts(K, T) /\ T \in Seq(Names) /\ Len(T) \in Nat
  <2>1. T \in Seq(Names) /\ Len(T) \in Nat
    BY <1>1, TraceCounts
  <2> HIDE DEF T, K
  <2> QED BY <2>1, CountStep, Zenon
<1>4. ASSUME NEW i \in Ranks, Placed(i) PROVE Done("fclose", i) = Count(K, T, Pos(i))
  <2> DEFINE P == Program[driver][i]
  <2>1. Root \in Ranks
    BY RanksFinite
  <2>2. Proper(Mode(driver), P, Program[driver][Root], ArraysOf(driver))
    BY <1>1, <2>1, ProgramsProper
  <2>3. P \in Seq(Names) /\ Of(Shared, P) = T
    BY <2>2 DEF Proper, Twins, Alike, Trace
  <2>4. K \subseteq Shared
    BY DEF Shared, Names, Collectives
  <2>5. at[i] - 1 \in 0 .. Len(P)
    <3>1. at[i] \in 1 .. Len(P) + 1
      BY <1>4 DEF Placed
    <3>2. Len(P) \in Nat
      BY <2>3, LenProperties
    <3> QED BY <3>1, <3>2
  <2> HIDE DEF P, T, K
  <2>6. Projects(Shared, K, P)
    BY <2>3, <2>4, OfProjects, Zenon
  <2>7. UpTo(K, P, at[i] - 1) = UpTo(K, Of(Shared, P), Count(Shared, P, at[i] - 1))
    BY <2>5, <2>6 DEF Projects
  <2> QED BY <2>3, <2>7 DEF Done, Taken, Count, Pos, P, K
<1>5. c = Count(K, T, Pos(r)) /\ Done("fclose", q) = Count(K, T, Pos(q))
  BY <1>1, <1>4
<1>6. Pos(r) \in 0 .. Len(T) /\ Pos(q) \in 0 .. Len(T)
  BY <1>2 DEF Position
<1>7. c \in Nat /\ Done("write", q) \in Nat /\ Done("fclose", q) \in Nat
      /\ Done("fclose", q) <= Done("write", q)
  BY <1>2 DEF Turned, FileSteps
<1>8. CASE c = 0
  BY <1>7, <1>8 DEF Behind
<1>9. CASE c # 0
  <2>1. PICK i \in 1 .. Pos(r) : T[i] \in K /\ Count(K, T, i) = c
    <3> HIDE DEF T, K
    <3> QED BY <1>3, <1>5, <1>6, <1>9, CountAttained
  <2>2. T[i] = "fclose" /\ i \in 1 .. Len(T)
    BY <1>6, <2>1
  <2>3. AllBegun(i)
    BY <1>1, <2>1, <2>2 DEF Awaited, Binds, Collectives
  <2>4. Begun(q) >= i
    BY <2>3 DEF AllBegun
  <2> HIDE DEF T, K
  <2>5. CASE Pos(q) >= i
    <3>1. i \in 0 .. Len(T) /\ i <= Pos(q)
      BY <1>3, <1>6, <2>2, <2>5
    <3>2. Count(K, T, i) <= Count(K, T, Pos(q))
      BY <1>3, <1>6, <3>1 DEF Counts
    <3> QED BY <1>5, <1>7, <2>1, <3>2 DEF Behind
  <2>6. CASE ~(Pos(q) >= i)
    <3>1. Joined(q) /\ Pos(q) + 1 = i /\ Pos(q) = i - 1
      BY <1>3, <1>6, <2>2, <2>4, <2>6 DEF Begun
    <3>2. at[q] <= Len(Program[driver][q]) /\ Step(q) \in Collectives /\ Step(q) \in Shared
      BY <1>1, <3>1 DEF Joined, Placed, Shared, Names, Collectives
    <3>3. T[i] = Step(q)
      BY <1>2, <3>1, <3>2 DEF Position, T
    <3>4. Done("fclose", q) < Done("write", q)
      BY <1>2, <2>2, <3>2, <3>3 DEF Turned
    <3>5. c = Count(K, T, i - 1) + 1
      BY <1>3, <2>1, <2>2 DEF Counts
    <3>6. c = Done("fclose", q) + 1
      BY <1>5, <3>1, <3>5
    <3> QED BY <1>7, <3>4, <3>6 DEF Behind
  <2> QED BY <2>5, <2>6
<1> QED BY <1>8, <1>9

-----------------------------------------------------------------------------
(* What the shared files hold *)

\* A message on its way is the end of its sender's part.
Passed(r) ==
  r + 1 \in Ranks =>
    /\ Handed(r) = Got(r + 1) + Len(inbox[r + 1])
    /\ inbox[r + 1] # <<>> => inbox[r + 1][1] = offset[r] + size[r]

\* Nobody knows its offset before those in front of it have passed theirs on; ranks
\* at the same file have parts in their order, those of neighbours next to each other.
InFront(q, r) ==
  q < r =>
    /\ Got(r) <= Handed(q)
    /\ Got(r) = Done("pack", q) /\ Got(r) = Done("pack", r) =>
         /\ offset[q] + size[q] <= offset[r]
         /\ r = q + 1 => offset[r] = offset[q] + size[q]

\* One part per rank and file is written, that of the current file as the rank has it.
Stored(r) ==
  /\ opened[r] = Done("fopen", r)
  /\ \A w \in written : w[2] = r =>
       /\ w[1] \in 1 .. Done("write", r)
       /\ w[1] = Done("pack", r) => w[3] = offset[r] /\ w[4] = size[r]
       /\ r = 0 => w[3] = 0
  /\ \A f \in 1 .. Done("write", r) : \E w \in written : w[1] = f /\ w[2] = r

\* The parts in a file follow one another.
Tiled ==
  \A w, v \in written : w[1] = v[1] /\ w[2] < v[2] =>
    /\ w[3] + w[4] <= v[3]
    /\ v[2] = w[2] + 1 => v[3] = w[3] + w[4]

FilesInv ==
  /\ \A r \in Ranks : Passed(r) /\ Stored(r) /\ (r = 0 => offset[r] = 0)
  /\ \A q, r \in Ranks : InFront(q, r)
  /\ Tiled

\* What a step adds to the numbers of its rank; those of the others stay.
Keeps(q) ==
  /\ Done("pack", q)' = Done("pack", q) /\ Done("fopen", q)' = Done("fopen", q)
  /\ Done("write", q)' = Done("write", q)
  /\ Got(q)' = Got(q) /\ Handed(q)' = Handed(q)
Tally(p, s) ==
  /\ Done("pack", p)' = Done("pack", p) + (IF s = "pack" THEN 1 ELSE 0)
  /\ Done("fopen", p)' = Done("fopen", p) + (IF s = "fopen" THEN 1 ELSE 0)
  /\ Done("write", p)' = Done("write", p) + (IF s = "write" THEN 1 ELSE 0)
  /\ Got(p)' = Got(p) + (IF s = (IF p = 0 THEN "pack" ELSE "recv") THEN 1 ELSE 0)
  /\ Handed(p)' = Handed(p) + (IF s = "send" THEN 1 ELSE 0)
  /\ \A q \in Ranks \ {p} : Keeps(q)
Does(p, s) ==
  /\ s = "pack"  => Pack(p)
  /\ s = "recv"  => Recv(p)
  /\ s = "send"  => Send(p) /\ Handed(p) = Done("send", p)
  /\ s = "fopen" => Leave(p) /\ Step(p) = "fopen"
  /\ s = "write" => Write(p)
  /\ s = "none"  => UNCHANGED fileVars
Acts == {"pack", "recv", "send", "fopen", "write", "none"}

\* Every step of a rank does one of these things.
LEMMA TallyIs ==
  ASSUME TypeInv, NEW p \in Ranks, Placed(p), RankStep(p)
  PROVE  \E s \in Acts : Tally(p, s) /\ Does(p, s)
<1>1. /\ at \in [Ranks -> Nat] /\ inside \in [Ranks -> BOOLEAN]
      /\ Turned(p) /\ Position(p)
      /\ inside[p] => at[p] <= Len(Program[driver][p]) /\ Step(p) \in Collectives \cup {"send"}
  BY TurnedIs, PositionIs DEF TypeInv, Placed
<1>2. Moves(p) \/ Stays(p) \/ Enter(p) \/ Leave(p)
  BY StepKinds
<1>3. ASSUME NEW q \in Ranks, driver' = driver, at'[q] = at[q], inside'[q] = inside[q]
      PROVE  Keeps(q) /\ \A t : Done(t, q)' = Done(t, q)
  <2>1. \A t : Done(t, q)' = Done(t, q)
    BY <1>3 DEF Done
  <2>2. Step(q)' = Step(q)
    BY <1>3 DEF Step
  <2>3. Got(q)' = Got(q)
    BY <1>3 DEF Got
  <2>4. Handed(q)' = Handed(q)
    BY <1>3, <2>1, <2>2 DEF Handed
  <2> QED BY <2>1, <2>3, <2>4 DEF Keeps
<1>4. driver' = driver
  BY <1>2 DEF Moves, Stays, Enter, Leave
<1>5. ASSUME GoOn(p), at[p] <= Len(Program[driver][p]), inside' = [inside EXCEPT ![p] = FALSE],
             NEW s \in Acts, Step(p) = "send" => inside[p],
             s = (IF Step(p) \in Acts \ {"send"} THEN Step(p) ELSE "none")
      PROVE  Tally(p, s)
  <2>1. \A q \in Ranks \ {p} : at'[q] = at[q] /\ inside'[q] = inside[q]
    BY <1>1, <1>5 DEF GoOn
  <2>2. \A q \in Ranks \ {p} : Keeps(q)
    BY <1>3, <1>4, <2>1
  <2>3. \A t \in FileSteps : Done(t, p)' = Done(t, p) + (IF Step(p) = t THEN 1 ELSE 0)
    BY <1>4, <1>5, DoneNext
  <2>4. ~inside'[p]
    BY <1>1, <1>5
  <2>5. Done("send", p)' = Done("send", p) + (IF Step(p) = "send" THEN 1 ELSE 0)
        /\ Done("send", p) \in Nat
    BY <1>1, <2>3 DEF FileSteps, Turned
  <2>6. Handed(p)' = Done("send", p)'
    BY <2>4, <2>5 DEF Handed
  <2>7. Handed(p) = Done("send", p) + (IF Step(p) = "send" THEN 1 ELSE 0)
    BY <1>1, <1>5 DEF Handed, Collectives
  <2>8. Handed(p)' = Handed(p) /\ Handed(p) \in Nat
    BY <1>1, <2>5, <2>6, <2>7 DEF Turned
  <2>9. Got(p) = (IF p = 0 THEN Done("pack", p) ELSE Done("recv", p))
        /\ Got(p)' = (IF p = 0 THEN Done("pack", p)' ELSE Done("recv", p)')
    <3>1. Got(p) = (IF p = 0 THEN Done("pack", p) ELSE Done("recv", p))
      BY <1>1 DEF Turned
    <3> QED BY <3>1 DEF Got, Done, Offsets
  <2>10. s # "send" /\ \A t \in {"pack", "recv", "fopen", "write"} : Step(p) = t <=> s = t
    BY <1>5 DEF Acts
  <2>11. /\ Done("pack", p)' = Done("pack", p) + (IF s = "pack" THEN 1 ELSE 0)
         /\ Done("fopen", p)' = Done("fopen", p) + (IF s = "fopen" THEN 1 ELSE 0)
         /\ Done("write", p)' = Done("write", p) + (IF s = "write" THEN 1 ELSE 0)
         /\ Done("recv", p)' = Done("recv", p) + (IF s = "recv" THEN 1 ELSE 0)
    BY <2>3, <2>10 DEF FileSteps
  <2>12. Got(p)' = Got(p) + (IF s = (IF p = 0 THEN "pack" ELSE "recv") THEN 1 ELSE 0)
    BY <2>9, <2>11
  <2> QED BY <2>2, <2>8, <2>10, <2>11, <2>12 DEF Tally
<1>6. ASSUME at' = at, \A q \in Ranks : inside'[q] = inside[q] \/ (q = p /\ Step(p) # "send")
      PROVE  Tally(p, "none")
  <2>1. \A q \in Ranks \ {p} : Keeps(q)
    BY <1>3, <1>4, <1>6
  <2>2. (\A t : Done(t, p)' = Done(t, p)) /\ Got(p)' = Got(p) /\ Step(p)' = Step(p)
    BY <1>4, <1>6 DEF Done, Got, Step
  <2>3. Handed(p)' = Handed(p) /\ Handed(p) \in Nat /\ Got(p) \in Nat
    BY <1>1, <1>6, <2>2 DEF Handed, Turned
  <2>4. \A t \in FileSteps : Done(t, p) \in Nat
    BY <1>1 DEF Turned
  <2> QED BY <2>1, <2>2, <2>3, <2>4 DEF Tally, FileSteps
<1>7. CASE Stays(p)
  <2>1. CASE Fail(p) \/ Return(p) \/ Exit(p)
    <3>1. at' = at /\ inside' = inside /\ UNCHANGED fileVars
      BY <2>1 DEF Fail, Return, Exit
    <3> QED BY <1>6, <3>1 DEF Does, Acts
  <2>2. CASE ~(Fail(p) \/ Return(p) \/ Exit(p))
    <3>1. Step(p) = "send" /\ inside' = [inside EXCEPT ![p] = TRUE] /\ Running(p) /\ at' = at
      BY <1>7, <2>2 DEF Stays
    <3>2. Send(p)
      <4>1. ~GoOn(p)
        BY <1>1, <3>1 DEF GoOn
      <4> QED BY <2>2, <3>1, <4>1
          DEF RankStep, Scan, AfterScan, Work, Enter, Leave, Pack, Recv, Sent, Write, CanFail,
              Records, Collectives
    <3>3. ~inside[p] /\ inside'[p]
      BY <1>1, <3>1, <3>2 DEF Send
    <3>4. \A q \in Ranks \ {p} : Keeps(q)
      <4>1. \A q \in Ranks \ {p} : inside'[q] = inside[q]
        BY <1>1, <3>1
      <4> QED BY <1>3, <1>4, <3>1, <4>1
    <3>5. (\A t : Done(t, p)' = Done(t, p)) /\ Got(p)' = Got(p) /\ Step(p)' = Step(p)
      BY <1>4, <3>1 DEF Done, Got, Step
    <3>6. \A t \in FileSteps : Done(t, p) \in Nat
      BY <1>1 DEF Turned
    <3>7. Handed(p) = Done("send", p) /\ Handed(p)' = Handed(p) + 1
      <4>1. Done("send", p) \in Nat
        BY <3>6 DEF FileSteps
      <4>2. Handed(p) = Done("send", p)
        BY <3>3, <4>1 DEF Handed
      <4>3. Handed(p)' = Done("send", p)' + 1
        BY <3>1, <3>3, <3>5 DEF Handed
      <4> QED BY <3>5, <4>2, <4>3
    <3>8. Got(p) \in Nat
      BY <1>1 DEF Turned
    <3>9. Tally(p, "send")
      BY <3>4, <3>5, <3>6, <3>7, <3>8 DEF Tally, FileSteps
    <3> QED BY <3>2, <3>7, <3>9 DEF Does, Acts
  <2> QED BY <2>1, <2>2
<1>8. CASE Enter(p)
  <2>1. at' = at /\ Step(p) # "send" /\ UNCHANGED fileVars
        /\ \A q \in Ranks \ {p} : inside'[q] = inside[q]
    BY <1>1, <1>8 DEF Enter, Collectives
  <2> QED BY <1>6, <2>1 DEF Does, Acts
<1>9. CASE Leave(p)
  <2>1. /\ GoOn(p) /\ inside' = [inside EXCEPT ![p] = FALSE] /\ inside[p]
        /\ Step(p) \in Collectives /\ at[p] <= Len(Program[driver][p])
    BY <1>1, <1>9 DEF Leave
  <2>2. CASE Step(p) = "fopen"
    <3>1. Tally(p, "fopen")
      BY <1>5, <2>1, <2>2 DEF Acts
    <3> QED BY <1>9, <2>2, <3>1 DEF Does, Acts
  <2>3. CASE Step(p) # "fopen"
    <3>1. Tally(p, "none")
      BY <1>5, <2>1, <2>3 DEF Acts, Collectives
    <3> QED BY <1>9, <2>3, <3>1 DEF Does, Acts, Leave, fileVars
  <2> QED BY <2>2, <2>3
<1>10. CASE Moves(p)
  <2>1. /\ GoOn(p) /\ inside' = [inside EXCEPT ![p] = FALSE] /\ at'[p] # at[p]
        /\ Step(p) \notin Collectives /\ at[p] <= Len(Program[driver][p])
    BY <1>1, <1>10 DEF Moves, GoOn
  <2>2. ASSUME at' = at PROVE FALSE
    BY <2>1, <2>2
  <2>3. Scan(p) \/ Work(p) \/ Pack(p) \/ Recv(p) \/ Sent(p) \/ Write(p)
    BY <2>1, <2>2 DEF RankStep, Fail, Enter, Leave, Send, Return, Exit
  <2>4. CASE Scan(p) \/ Work(p) \/ Sent(p)
    <3>1. UNCHANGED fileVars /\ Step(p) \notin Acts \ {"send"} /\ (Step(p) = "send" => inside[p])
      BY <2>4 DEF Scan, Work, Sent, Acts, CanFail, Records
    <3>2. Tally(p, "none")
      BY <1>5, <2>1, <3>1 DEF Acts
    <3> QED BY <3>1, <3>2 DEF Does, Acts
  <2>5. CASE Pack(p)
    <3>1. Tally(p, "pack")
      BY <1>5, <2>1, <2>5 DEF Acts, Pack
    <3> QED BY <2>5, <3>1 DEF Does, Acts
  <2>6. CASE Recv(p)
    <3>1. Tally(p, "recv")
      BY <1>5, <2>1, <2>6 DEF Acts, Recv
    <3> QED BY <2>6, <3>1 DEF Does, Acts
  <2>7. CASE Write(p)
    <3>1. Tally(p, "write")
      BY <1>5, <2>1, <2>7 DEF Acts, Write
    <3> QED BY <2>7, <3>1 DEF Does, Acts
  <2> QED BY <2>3, <2>4, <2>5, <2>6, <2>7
<1> QED BY <1>2, <1>7, <1>8, <1>9, <1>10

\* Where a rank is with its files, and what that tells of the other ranks.
Row(r) ==
  /\ Done("pack", r) \in Nat /\ Done("fopen", r) \in Nat /\ Done("write", r) \in Nat
  /\ Done("fclose", r) \in Nat /\ Got(r) \in Nat /\ Handed(r) \in Nat
  /\ Done("write", r) <= Done("fopen", r) /\ Done("fopen", r) <= Got(r)
  /\ Got(r) <= Done("pack", r) /\ Done("pack", r) <= Done("fclose", r) + 1
  /\ Handed(r) <= Got(r)
  /\ \A q \in Ranks : Done("fclose", r) <= Done("write", q)

\* For every rank.
LEMMA RowIs ==
  ASSUME RanksInv, NEW r \in Ranks
  PROVE  Row(r)
<1>1. TypeInv /\ Placed(r)
  BY DEF RanksInv
<1>2. Turned(r)
  BY <1>1, TurnedIs
<1>3. \A q \in Ranks : Done("fclose", r) <= Done("write", q)
  BY BehindIs DEF Behind
<1> QED BY <1>2, <1>3 DEF Turned, Row, FileSteps

\* There is no message to a rank that has got all its sender passed on, and at most one.
LEMMA OneMessage ==
  ASSUME RanksInv, NEW q \in Ranks, q + 1 \in Ranks, Passed(q)
  PROVE  /\ inbox[q + 1] \in Seq(Nat)
         /\ inbox[q + 1] # <<>> => /\ Handed(q) = Got(q + 1) + 1 /\ Len(inbox[q + 1]) = 1
                                   /\ Handed(q) = Done("pack", q)
         /\ Done("pack", q) = Done("fclose", q) => inbox[q + 1] = <<>>
         /\ Got(q) < Done("pack", q) => inbox[q + 1] = <<>>
<1>1. Row(q) /\ Row(q + 1) /\ inbox[q + 1] \in Seq(Nat)
  BY RowIs DEF RanksInv, TypeInv
<1>2. PICK b : b = inbox[q + 1]
  OBVIOUS
<1>3. /\ b \in Seq(Nat) /\ Len(b) \in Nat /\ (Len(b) = 0 <=> b = <<>>)
  BY <1>1, <1>2, LenProperties, EmptySeq
<1>4. Handed(q) = Got(q + 1) + Len(b)
  BY <1>2 DEF Passed
<1>5. Done("fclose", q) <= Done("write", q + 1) /\ Done("write", q + 1) <= Got(q + 1)
  BY <1>1 DEF Row
<1>6. Handed(q) <= Got(q) /\ Got(q) <= Done("pack", q) /\ Done("pack", q) <= Done("fclose", q) + 1
  BY <1>1 DEF Row
<1>7. /\ Handed(q) \in Nat /\ Got(q) \in Nat /\ Got(q + 1) \in Nat /\ Done("pack", q) \in Nat
      /\ Done("fclose", q) \in Nat /\ Done("write", q + 1) \in Nat
  BY <1>1 DEF Row
<1>8. PICK n, h, g, j, k, c, w :
        /\ n = Len(b) /\ h = Handed(q) /\ g = Got(q) /\ j = Got(q + 1)
        /\ k = Done("pack", q) /\ c = Done("fclose", q) /\ w = Done("write", q + 1)
  OBVIOUS
<1>9. /\ n \in Nat /\ h \in Nat /\ g \in Nat /\ j \in Nat /\ k \in Nat /\ c \in Nat /\ w \in Nat
      /\ h = j + n /\ c <= w /\ w <= j /\ h <= g /\ g <= k /\ k <= c + 1
      /\ n = 0 <=> b = <<>>
  BY <1>3, <1>4, <1>5, <1>6, <1>7, <1>8
<1>10. /\ n # 0 => h = j + 1 /\ n = 1 /\ h = k
       /\ k = c => n = 0
       /\ g < k => n = 0
  BY <1>9
<1>11. inbox[q + 1] # <<>> => Handed(q) = Got(q + 1) + 1 /\ Len(inbox[q + 1]) = 1
                               /\ Handed(q) = Done("pack", q)
  BY <1>2, <1>8, <1>9, <1>10
<1>12. /\ Done("pack", q) = Done("fclose", q) => inbox[q + 1] = <<>>
       /\ Got(q) < Done("pack", q) => inbox[q + 1] = <<>>
  BY <1>2, <1>8, <1>9, <1>10
<1> QED BY <1>1, <1>11, <1>12, Zenon

\* The ranks in front of and behind a rank.
LEMMA RankOrder ==
  /\ Ranks \subseteq Nat
  /\ \A q, r \in Ranks : q < r => q + 1 \in Ranks /\ r - 1 \in Ranks /\ (r - 1) + 1 = r /\ r # 0
  /\ \A r \in Ranks : r # 0 => r - 1 \in Ranks /\ (r - 1) + 1 = r /\ r - 1 # r /\ r - 1 < r
BY RanksAssumption DEF Ranks

\* The bytes of a part are put together: the file before is done with.
LEMMA PackFiles ==
  ASSUME RanksInv, FilesInv, NEW p \in Ranks, Pack(p), Tally(p, "pack")
  PROVE  FilesInv'
<1>1. TypeInv /\ Placed(p)
  BY DEF RanksInv
<1>2. Turned(p) /\ \A r \in Ranks : Row(r)
  BY <1>1, TurnedIs, RowIs
<1>3. Done("pack", p) = Done("fclose", p)
  BY <1>2 DEF Turned, Pack, Running
<1>4. /\ offset' = [offset EXCEPT ![p] = 0] /\ offset \in [Ranks -> Nat]
      /\ size \in [Ranks -> Nat] /\ inbox' = inbox /\ opened' = opened /\ written' = written
      /\ \E n \in PartSizes : size' = [size EXCEPT ![p] = n]
  BY <1>1 DEF Pack, TypeInv
<1>5. \A q \in Ranks \ {p} : size'[q] = size[q] /\ offset'[q] = offset[q]
  BY <1>4
<1>6. offset'[p] = 0
  BY <1>4
<1>7. /\ Done("pack", p)' = Done("pack", p) + 1
      /\ Done("fopen", p)' = Done("fopen", p) + 0 /\ Done("write", p)' = Done("write", p) + 0
      /\ p # 0 => Got(p)' = Got(p) + 0
      /\ Handed(p)' = Handed(p) + 0
      /\ \A q \in Ranks \ {p} : Keeps(q)
  BY DEF Tally
<1>8. /\ Done("fopen", p)' = Done("fopen", p) /\ Done("write", p)' = Done("write", p)
      /\ p # 0 => Got(p)' = Got(p)
      /\ Handed(p)' = Handed(p)
  BY <1>2, <1>7 DEF Row
<1>9. ASSUME NEW r \in Ranks PROVE Passed(r)'
  <2> SUFFICES ASSUME r + 1 \in Ranks
               PROVE  /\ Handed(r)' = Got(r + 1)' + Len(inbox[r + 1])
                      /\ inbox[r + 1] # <<>> => inbox[r + 1][1] = offset'[r] + size'[r]
    BY <1>4 DEF Passed
  <2>1. Passed(r)
    BY DEF FilesInv
  <2>2. Handed(r)' = Handed(r)
    BY <1>7, <1>8 DEF Keeps
  <2>3. Got(r + 1)' = Got(r + 1)
    <3>1. r + 1 # 0
      BY RankOrder
    <3> QED BY <1>7, <1>8, <3>1 DEF Keeps
  <2>4. r = p => inbox[r + 1] = <<>>
    BY <1>3, <2>1, OneMessage
  <2> QED BY <1>5, <2>1, <2>2, <2>3, <2>4 DEF Passed
<1>10. ASSUME NEW r \in Ranks PROVE Stored(r)'
  <2>1. Stored(r) /\ Row(r)
    BY <1>2 DEF FilesInv
  <2>2. CASE r # p
    <3>1. /\ opened'[r] = opened[r] /\ size'[r] = size[r] /\ offset'[r] = offset[r]
          /\ Done("fopen", r)' = Done("fopen", r) /\ Done("write", r)' = Done("write", r)
          /\ Done("pack", r)' = Done("pack", r)
      BY <1>4, <1>5, <1>7, <2>2 DEF Keeps
    <3> QED BY <1>4, <2>1, <3>1 DEF Stored
  <2>3. CASE r = p
    <3>1. \A w \in written : w[2] = r => w[1] # Done("pack", r)'
      <4>1. \A w \in written : w[2] = r => w[1] \in 1 .. Done("write", r)
        BY <2>1 DEF Stored
      <4>2. Done("write", r) < Done("pack", r)'
        BY <1>7, <2>1, <2>3 DEF Row
      <4> QED BY <2>1, <4>1, <4>2 DEF Row
    <3>2. Done("fopen", r)' = Done("fopen", r) /\ Done("write", r)' = Done("write", r)
      BY <1>8, <2>3
    <3> QED BY <1>4, <2>1, <3>1, <3>2 DEF Stored
  <2> QED BY <2>2, <2>3
<1>11. \A r \in Ranks : r = 0 => offset'[r] = 0
  BY <1>5, <1>6 DEF FilesInv
<1>12. ASSUME NEW q \in Ranks, NEW r \in Ranks PROVE InFront(q, r)'
  <2> SUFFICES ASSUME q < r
               PROVE  /\ Got(r)' <= Handed(q)'
                      /\ Got(r)' = Done("pack", q)' /\ Got(r)' = Done("pack", r)' =>
                           /\ offset'[q] + size'[q] <= offset'[r]
                           /\ r = q + 1 => offset'[r] = offset'[q] + size'[q]
    BY DEF InFront
  <2>1. /\ Got(r) <= Handed(q)
        /\ Got(r) = Done("pack", q) /\ Got(r) = Done("pack", r) =>
             /\ offset[q] + size[q] <= offset[r]
             /\ r = q + 1 => offset[r] = offset[q] + size[q]
    BY DEF FilesInv, InFront
  <2>2. r # 0 /\ q # r
    BY RankOrder
  <2>3. Got(r)' = Got(r) /\ Handed(q)' = Handed(q)
    BY <1>7, <1>8, <2>2 DEF Keeps
  <2>4. CASE r # p /\ q # p
    BY <1>5, <1>7, <2>1, <2>3, <2>4 DEF Keeps
  <2>5. CASE r = p
    <3>1. Got(r)' # Done("pack", r)'
      BY <1>2, <1>7, <2>3, <2>5 DEF Row
    <3> QED BY <2>1, <2>3, <3>1
  <2>6. CASE q = p
    <3>1. Got(r)' # Done("pack", q)'
      <4>1. Got(r) <= Handed(q) /\ Handed(q) <= Got(q) /\ Got(q) <= Done("pack", q)
        BY <1>2, <2>1 DEF Row
      <4> QED BY <1>2, <1>7, <2>3, <2>6, <4>1 DEF Row
    <3> QED BY <2>1, <2>3, <3>1
  <2> QED BY <2>4, <2>5, <2>6
<1>13. Tiled'
  BY <1>4 DEF FilesInv, Tiled
<1> QED BY <1>9, <1>10, <1>11, <1>12, <1>13 DEF FilesInv

\* The offset arrives: it is the end of the part of the rank before.
LEMMA RecvFiles ==
  ASSUME RanksInv, FilesInv, NEW p \in Ranks, Recv(p), Tally(p, "recv")
  PROVE  FilesInv'
<1>1. TypeInv /\ Placed(p)
  BY DEF RanksInv
<1>2. Turned(p) /\ \A r \in Ranks : Row(r)
  BY <1>1, TurnedIs, RowIs
<1>3. p # 0 /\ Got(p) < Done("pack", p)
  BY <1>2 DEF Turned, Recv, Running
<1>4. PICK e \in Ranks : e + 1 = p /\ e # p /\ e < p
  BY <1>3, RankOrder
<1>5. Passed(e) /\ inbox[p] # <<>>
  BY DEF FilesInv, Recv
<1>6. /\ inbox[p] \in Seq(Nat) /\ Len(inbox[p]) = 1
      /\ Handed(e) = Got(p) + 1 /\ Handed(e) = Done("pack", e)
      /\ inbox[p][1] = offset[e] + size[e]
  BY <1>4, <1>5, OneMessage DEF Passed
<1>7. PICK b : b = inbox[p]
  OBVIOUS
<1>8. b \in Seq(Nat) /\ Len(b) = 1 /\ b # <<>> /\ Head(b) = b[1] /\ Tail(b) = <<>>
  <2>1. b \in Seq(Nat) /\ Len(b) = 1 /\ b # <<>>
    BY <1>5, <1>6, <1>7
  <2>2. Tail(b) \in Seq(Nat) /\ Len(Tail(b)) = 0 /\ Head(b) = b[1]
    BY <2>1, HeadTailProperties
  <2> QED BY <2>1, <2>2, EmptySeq
<1>9. /\ offset' = [offset EXCEPT ![p] = offset[e] + size[e]] /\ offset \in [Ranks -> Nat]
      /\ inbox' = [inbox EXCEPT ![p] = <<>>] /\ inbox \in [Ranks -> Seq(Nat)]
      /\ size' = size /\ opened' = opened /\ written' = written /\ size \in [Ranks -> Nat]
  BY <1>1, <1>6, <1>7, <1>8 DEF Recv, TypeInv
<1>10. /\ offset'[p] = offset[e] + size[e] /\ inbox'[p] = <<>>
       /\ \A q \in Ranks \ {p} : offset'[q] = offset[q] /\ inbox'[q] = inbox[q]
  BY <1>9
<1>11. /\ Done("pack", p)' = Done("pack", p) + 0
       /\ Done("fopen", p)' = Done("fopen", p) + 0 /\ Done("write", p)' = Done("write", p) + 0
       /\ Got(p)' = Got(p) + 1
       /\ Handed(p)' = Handed(p) + 0
       /\ \A q \in Ranks \ {p} : Keeps(q)
  BY <1>3 DEF Tally
<1>12. /\ Done("fopen", p)' = Done("fopen", p) /\ Done("write", p)' = Done("write", p)
       /\ Done("pack", p)' = Done("pack", p) /\ Handed(p)' = Handed(p)
  BY <1>2, <1>11 DEF Row
<1>13. ASSUME NEW r \in Ranks PROVE Passed(r)'
  <2> SUFFICES ASSUME r + 1 \in Ranks
               PROVE  /\ Handed(r)' = Got(r + 1)' + Len(inbox'[r + 1])
                      /\ inbox'[r + 1] # <<>> => inbox'[r + 1][1] = offset'[r] + size'[r]
    BY DEF Passed
  <2>1. Passed(r)
    BY DEF FilesInv
  <2>2. Handed(r)' = Handed(r)
    BY <1>11, <1>12 DEF Keeps
  <2>3. r \in Nat /\ e \in Nat /\ p \in Nat
    BY RankOrder
  <2>4. CASE r = e
    <3>1. Len(<<>>) = 0
      BY EmptySeq
    <3>2. inbox'[r + 1] = <<>> /\ Got(r + 1)' = Got(p) + 1 /\ Handed(r)' = Got(p) + 1
      BY <1>4, <1>6, <1>10, <1>11, <2>2, <2>4
    <3>3. Got(p) + 1 = (Got(p) + 1) + 0
      BY <1>2 DEF Row
    <3> QED BY <3>1, <3>2, <3>3
  <2>5. CASE r = p
    <3>1. inbox[r + 1] = <<>> /\ r + 1 # p
      BY <1>3, <2>1, <2>3, <2>5, OneMessage
    <3>2. inbox'[r + 1] = <<>> /\ Got(r + 1)' = Got(r + 1)
      BY <1>10, <1>11, <3>1 DEF Keeps
    <3> QED BY <2>1, <2>2, <3>1, <3>2 DEF Passed
  <2>6. CASE r # e /\ r # p
    <3>1. r + 1 # p
      BY <1>4, <2>3, <2>6
    <3>2. inbox'[r + 1] = inbox[r + 1] /\ Got(r + 1)' = Got(r + 1) /\ offset'[r] = offset[r]
      BY <1>10, <1>11, <2>6, <3>1 DEF Keeps
    <3> QED BY <1>9, <2>1, <2>2, <3>2 DEF Passed
  <2> QED BY <2>4, <2>5, <2>6
<1>14. ASSUME NEW r \in Ranks PROVE Stored(r)'
  <2>1. Stored(r) /\ Row(r)
    BY <1>2 DEF FilesInv
  <2>2. /\ Done("fopen", r)' = Done("fopen", r) /\ Done("write", r)' = Done("write", r)
        /\ Done("pack", r)' = Done("pack", r)
    BY <1>11, <1>12 DEF Keeps
  <2>3. CASE r # p
    BY <1>9, <1>10, <2>1, <2>2, <2>3 DEF Stored
  <2>4. CASE r = p
    <3>1. \A w \in written : w[2] = r => w[1] # Done("pack", r)
      <4>1. \A w \in written : w[2] = r => w[1] \in 1 .. Done("write", r)
        BY <2>1 DEF Stored
      <4>2. Done("write", r) < Done("pack", r)
        BY <1>3, <2>1, <2>4 DEF Row
      <4> QED BY <2>1, <4>1, <4>2 DEF Row
    <3> QED BY <1>9, <2>1, <2>2, <3>1 DEF Stored
  <2> QED BY <2>3, <2>4
<1>15. \A r \in Ranks : r = 0 => offset'[r] = 0
  BY <1>3, <1>10 DEF FilesInv
<1>16. ASSUME NEW q \in Ranks, q < p
       PROVE  /\ Got(p) + 1 <= Handed(q)
              /\ Got(p) + 1 = Done("pack", q) => offset[q] + size[q] <= offset[e] + size[e]
  <2>1. CASE q = e
    <3>1. offset[e] + size[e] \in Nat
      BY <1>9
    <3> QED BY <1>2, <1>6, <2>1, <3>1 DEF Row
  <2>2. CASE q # e
    <3>1. q < e
      BY <1>4, <1>16, <2>2, RankOrder
    <3>2. InFront(q, e)
      BY DEF FilesInv
    <3>3. Got(e) <= Handed(q) /\ Handed(e) <= Got(e) /\ Handed(q) <= Got(q) /\ Got(q) <= Done("pack", q)
      BY <1>2, <3>1, <3>2 DEF InFront, Row
    <3>4. /\ Got(e) \in Nat /\ Handed(e) \in Nat /\ Handed(q) \in Nat /\ Got(p) \in Nat
          /\ Got(q) \in Nat /\ Done("pack", q) \in Nat /\ Done("pack", e) \in Nat
      BY <1>2 DEF Row
    <3>5. Got(p) + 1 <= Handed(q)
      BY <1>6, <3>3, <3>4
    <3>6. Got(p) + 1 = Done("pack", q) => Got(e) = Done("pack", q) /\ Got(e) = Done("pack", e)
      <4>1. Got(e) <= Done("pack", e)
        BY <1>2 DEF Row
      <4> QED BY <1>6, <3>3, <3>4, <4>1
    <3>7. Got(p) + 1 = Done("pack", q) => offset[q] + size[q] <= offset[e]
      BY <3>1, <3>2, <3>6 DEF InFront
    <3>8. offset[e] \in Nat /\ size[e] \in Nat /\ offset[q] \in Nat /\ size[q] \in Nat
      BY <1>9
    <3>9. Got(p) + 1 = Done("pack", q) => offset[q] + size[q] <= offset[e] + size[e]
      BY <3>7, <3>8
    <3> QED BY <3>5, <3>9
  <2> QED BY <2>1, <2>2
<1>17. ASSUME NEW q \in Ranks, NEW r \in Ranks PROVE InFront(q, r)'
  <2> SUFFICES ASSUME q < r
               PROVE  /\ Got(r)' <= Handed(q)'
                      /\ Got(r)' = Done("pack", q)' /\ Got(r)' = Done("pack", r)' =>
                           /\ offset'[q] + size'[q] <= offset'[r]
                           /\ r = q + 1 => offset'[r] = offset'[q] + size'[q]
    BY DEF InFront
  <2>1. /\ Got(r) <= Handed(q)
        /\ Got(r) = Done("pack", q) /\ Got(r) = Done("pack", r) =>
             /\ offset[q] + size[q] <= offset[r]
             /\ r = q + 1 => offset[r] = offset[q] + size[q]
    BY DEF FilesInv, InFront
  <2>2. q # r /\ q \in Nat /\ r \in Nat /\ e \in Nat
    BY RankOrder
  <2>3. /\ Handed(q)' = Handed(q)
        /\ Done("pack", q)' = Done("pack", q) /\ Done("pack", r)' = Done("pack", r)
    BY <1>11, <1>12 DEF Keeps
  <2>4. CASE r # p /\ q # p
    BY <1>9, <1>10, <1>11, <2>1, <2>3, <2>4 DEF Keeps
  <2>5. CASE r = p
    <3>1. /\ Got(p) + 1 <= Handed(q)
          /\ Got(p) + 1 = Done("pack", q) => offset[q] + size[q] <= offset[e] + size[e]
      BY <1>16, <2>5
    <3>2. Got(r)' = Got(p) + 1 /\ offset'[q] = offset[q] /\ offset'[r] = offset[e] + size[e]
          /\ size'[q] = size[q]
      BY <1>9, <1>10, <1>11, <2>2, <2>5
    <3>3. r = q + 1 => q = e
      BY <1>4, <2>2, <2>5
    <3> QED BY <2>3, <3>1, <3>2, <3>3
  <2>6. CASE q = p
    <3>1. Got(r)' = Got(r)
      BY <1>11, <2>2, <2>6 DEF Keeps
    <3>2. Got(r) # Done("pack", q)
      <4>1. Got(r) <= Handed(q) /\ Handed(q) <= Got(q) /\ Got(q) < Done("pack", q)
        BY <1>2, <1>3, <2>1, <2>6 DEF Row
      <4> QED BY <1>2, <4>1 DEF Row
    <3> QED BY <2>1, <2>3, <3>1, <3>2
  <2> QED BY <2>4, <2>5, <2>6
<1>18. Tiled'
  BY <1>9 DEF FilesInv, Tiled
<1> QED BY <1>13, <1>14, <1>15, <1>17, <1>18 DEF FilesInv

\* The end of a part is passed on.
LEMMA SendFiles ==
  ASSUME RanksInv, FilesInv, NEW p \in Ranks, Send(p), Tally(p, "send")
  PROVE  FilesInv'
<1>1. TypeInv /\ \A r \in Ranks : Row(r)
  BY RowIs DEF RanksInv
<1>2. PICK e : e = offset[p] + size[p]
  OBVIOUS
<1>3. /\ offset' = offset /\ size' = size /\ opened' = opened /\ written' = written
      /\ inbox' = [inbox EXCEPT ![p + 1] = Append(inbox[p + 1], e)]
      /\ inbox \in [Ranks -> Seq(Nat)] /\ e \in Nat
  BY <1>1, <1>2 DEF Send, TypeInv
<1>4. /\ Done("pack", p)' = Done("pack", p) + 0
      /\ Done("fopen", p)' = Done("fopen", p) + 0 /\ Done("write", p)' = Done("write", p) + 0
      /\ Got(p)' = Got(p) + 0
      /\ Handed(p)' = Handed(p) + 1
      /\ \A q \in Ranks \ {p} : Keeps(q)
  BY DEF Tally
<1>5. \A q \in Ranks : /\ Done("pack", q)' = Done("pack", q) /\ Done("fopen", q)' = Done("fopen", q)
                       /\ Done("write", q)' = Done("write", q) /\ Got(q)' = Got(q)
                       /\ Handed(q)' = Handed(q) + (IF q = p THEN 1 ELSE 0)
                       /\ Handed(q) \in Nat /\ Got(q) \in Nat
  BY <1>1, <1>4 DEF Row, Keeps
<1>6. ASSUME NEW r \in Ranks PROVE Passed(r)'
  <2> SUFFICES ASSUME r + 1 \in Ranks
               PROVE  /\ Handed(r)' = Got(r + 1)' + Len(inbox'[r + 1])
                      /\ inbox'[r + 1] # <<>> => inbox'[r + 1][1] = offset[r] + size[r]
    BY <1>3 DEF Passed
  <2>1. Passed(r) /\ r \in Nat /\ p \in Nat
    BY RankOrder DEF FilesInv
  <2>2. CASE r # p
    <3>1. inbox'[r + 1] = inbox[r + 1]
      BY <1>3, <2>1, <2>2
    <3>2. Handed(r)' = Handed(r) /\ Got(r + 1)' = Got(r + 1)
      BY <1>5, <2>2
    <3> QED BY <2>1, <3>1, <3>2 DEF Passed
  <2>3. CASE r = p
    <3>1. PICK b : b = inbox[r + 1]
      OBVIOUS
    <3>2. inbox'[r + 1] = Append(b, e) /\ b \in Seq(Nat)
      BY <1>3, <2>3, <3>1
    <3>3. /\ Len(Append(b, e)) = Len(b) + 1 /\ Len(b) \in Nat
          /\ b # <<>> => Append(b, e)[1] = b[1]
          /\ b = <<>> => Append(b, e)[1] = e
      <4>1. /\ Append(b, e) \in Seq(Nat) /\ Len(Append(b, e)) = Len(b) + 1
            /\ \A i \in 1 .. Len(b) : Append(b, e)[i] = b[i]
            /\ Append(b, e)[Len(b) + 1] = e
        BY <1>3, <3>2, AppendProperties
      <4>2. Len(b) \in Nat /\ (Len(b) = 0 <=> b = <<>>)
        BY <3>2, LenProperties, EmptySeq
      <4>3. b # <<>> => 1 \in 1 .. Len(b)
        BY <4>2
      <4>4. b = <<>> => Len(b) + 1 = 1
        BY <4>2
      <4> QED BY <4>1, <4>2, <4>3, <4>4
    <3>4. Handed(r) = Got(r + 1) + Len(b) /\ (b # <<>> => b[1] = e)
      BY <1>2, <2>1, <2>3, <3>1 DEF Passed
    <3>5. Handed(r)' = Handed(r) + 1 /\ Got(r + 1)' = Got(r + 1) /\ Got(r + 1) \in Nat
      BY <1>5, <2>3
    <3>6. Handed(r)' = Got(r + 1)' + Len(inbox'[r + 1])
      BY <3>2, <3>3, <3>4, <3>5
    <3>7. inbox'[r + 1][1] = e
      BY <3>2, <3>3, <3>4
    <3> QED BY <1>2, <2>3, <3>6, <3>7
  <2> QED BY <2>2, <2>3
<1>7. ASSUME NEW r \in Ranks PROVE Stored(r)'
  <2>1. Stored(r)
    BY DEF FilesInv
  <2>2. /\ Done("fopen", r)' = Done("fopen", r) /\ Done("write", r)' = Done("write", r)
        /\ Done("pack", r)' = Done("pack", r)
    BY <1>5
  <2> QED BY <1>3, <2>1, <2>2 DEF Stored
<1>8. ASSUME NEW q \in Ranks, NEW r \in Ranks PROVE InFront(q, r)'
  <2>1. InFront(q, r)
    BY DEF FilesInv
  <2>2. /\ Done("pack", q)' = Done("pack", q) /\ Done("pack", r)' = Done("pack", r)
        /\ Got(r)' = Got(r)
    BY <1>5
  <2>3. Got(r) <= Handed(q) => Got(r) <= Handed(q)'
    BY <1>5
  <2> QED BY <1>3, <2>1, <2>2, <2>3 DEF InFront
<1>9. Tiled' /\ \A r \in Ranks : r = 0 => offset'[r] = 0
  BY <1>3 DEF FilesInv, Tiled
<1> QED BY <1>6, <1>7, <1>8, <1>9 DEF FilesInv

\* A step that counts nothing but openings.
LEMMA OpenFiles ==
  ASSUME RanksInv, FilesInv, NEW p \in Ranks, NEW s \in {"fopen", "none"}, Tally(p, s), Does(p, s)
  PROVE  FilesInv'
<1>1. TypeInv /\ \A r \in Ranks : Row(r)
  BY RowIs DEF RanksInv
<1>2. /\ offset' = offset /\ size' = size /\ inbox' = inbox /\ written' = written
      /\ opened' = IF s = "fopen" THEN [opened EXCEPT ![p] = @ + 1] ELSE opened
      /\ opened \in [Ranks -> Nat]
  BY <1>1 DEF Does, Leave, TypeInv, fileVars
<1>3. /\ Done("pack", p)' = Done("pack", p) + 0
      /\ Done("fopen", p)' = Done("fopen", p) + (IF s = "fopen" THEN 1 ELSE 0)
      /\ Done("write", p)' = Done("write", p) + 0
      /\ Got(p)' = Got(p) + 0
      /\ Handed(p)' = Handed(p) + 0
      /\ \A q \in Ranks \ {p} : Keeps(q)
  BY DEF Tally
<1>4. \A q \in Ranks : /\ Done("pack", q)' = Done("pack", q)
                       /\ Done("write", q)' = Done("write", q) /\ Got(q)' = Got(q)
                       /\ Handed(q)' = Handed(q)
  BY <1>1, <1>3 DEF Row, Keeps
<1>5. ASSUME NEW r \in Ranks PROVE Stored(r)'
  <2>1. Stored(r) /\ Row(r)
    BY <1>1 DEF FilesInv
  <2>2. opened'[r] = Done("fopen", r)'
    <3>1. CASE r = p
      BY <1>2, <1>3, <2>1, <3>1 DEF Stored, Row
    <3>2. CASE r # p
      BY <1>2, <1>3, <2>1, <3>2 DEF Stored, Keeps
    <3> QED BY <3>1, <3>2
  <2>3. Done("write", r)' = Done("write", r) /\ Done("pack", r)' = Done("pack", r)
    BY <1>4
  <2> QED BY <1>2, <2>1, <2>2, <2>3 DEF Stored
<1>6. ASSUME NEW r \in Ranks PROVE Passed(r)'
  BY <1>2, <1>4 DEF FilesInv, Passed
<1>7. ASSUME NEW q \in Ranks, NEW r \in Ranks PROVE InFront(q, r)'
  <2>1. InFront(q, r)
    BY DEF FilesInv
  <2>2. /\ Done("pack", q)' = Done("pack", q) /\ Done("pack", r)' = Done("pack", r)
        /\ Got(r)' = Got(r) /\ Handed(q)' = Handed(q)
    BY <1>4
  <2> QED BY <1>2, <2>1, <2>2 DEF InFront
<1>8. Tiled' /\ \A r \in Ranks : r = 0 => offset'[r] = 0
  BY <1>2 DEF FilesInv, Tiled
<1> QED BY <1>5, <1>6, <1>7, <1>8 DEF FilesInv

\* A part is written: all who have written into this file are still at it.
LEMMA WriteFiles ==
  ASSUME RanksInv, FilesInv, NEW p \in Ranks, Write(p), Tally(p, "write")
  PROVE  FilesInv'
<1>1. TypeInv /\ Placed(p)
  BY DEF RanksInv
<1>2. Turned(p) /\ (\A r \in Ranks : Row(r)) /\ Stored(p)
  BY <1>1, TurnedIs, RowIs DEF FilesInv
<1>3. PICK c : c = opened[p]
  OBVIOUS
<1>4. Done("write", p) < Done("fopen", p) /\ c = Done("fopen", p)
  BY <1>2, <1>3 DEF Turned, Write, Running, Stored
<1>5. /\ c \in Nat /\ Done("write", p) \in Nat /\ c = Done("write", p) + 1
      /\ Got(p) = c /\ Done("pack", p) = c
  <2>1. /\ Done("fopen", p) <= Got(p) /\ Got(p) <= Done("pack", p)
        /\ Done("pack", p) <= Done("fclose", p) + 1 /\ Done("fclose", p) <= Done("write", p)
        /\ Done("fopen", p) \in Nat /\ Got(p) \in Nat /\ Done("pack", p) \in Nat
        /\ Done("fclose", p) \in Nat /\ Done("write", p) \in Nat
    BY <1>2 DEF Row
  <2> QED BY <1>4, <2>1
<1>6. ASSUME NEW r \in Ranks, Done("write", r) >= c
      PROVE  Done("write", r) = c /\ Done("pack", r) = c /\ Got(r) = c
  <2>1. /\ Done("write", r) <= Done("fopen", r) /\ Done("fopen", r) <= Got(r)
        /\ Got(r) <= Done("pack", r)
        /\ Done("pack", r) <= Done("fclose", r) + 1 /\ Done("fclose", r) <= Done("write", p)
        /\ Done("fopen", r) \in Nat /\ Got(r) \in Nat /\ Done("pack", r) \in Nat
        /\ Done("fclose", r) \in Nat /\ Done("write", r) \in Nat
    BY <1>2 DEF Row
  <2> QED BY <1>5, <1>6, <2>1
<1>7. PICK new : new = <<c, p, offset[p], size[p]>>
  OBVIOUS
<1>8. /\ new[1] = c /\ new[2] = p /\ new[3] = offset[p] /\ new[4] = size[p]
      /\ written' = written \cup {new}
      /\ offset' = offset /\ size' = size /\ inbox' = inbox /\ opened' = opened
  BY <1>3, <1>7 DEF Write
<1>9. /\ Done("pack", p)' = Done("pack", p) + 0
      /\ Done("fopen", p)' = Done("fopen", p) + 0 /\ Done("write", p)' = Done("write", p) + 1
      /\ Got(p)' = Got(p) + 0
      /\ Handed(p)' = Handed(p) + 0
      /\ \A q \in Ranks \ {p} : Keeps(q)
  BY DEF Tally
<1>10. \A q \in Ranks : /\ Done("pack", q)' = Done("pack", q) /\ Done("fopen", q)' = Done("fopen", q)
                        /\ Got(q)' = Got(q) /\ Handed(q)' = Handed(q)
                        /\ Done("write", q)' = Done("write", q) + (IF q = p THEN 1 ELSE 0)
  BY <1>2, <1>9 DEF Row, Keeps
<1>11. ASSUME NEW r \in Ranks PROVE Stored(r)'
  <2>1. Stored(r) /\ Row(r)
    BY <1>2 DEF FilesInv
  <2>2. Done("pack", r)' = Done("pack", r) /\ opened'[r] = Done("fopen", r)'
    BY <1>8, <1>10, <2>1 DEF Stored
  <2>3. CASE r # p
    <3>1. Done("write", r)' = Done("write", r)
      BY <1>10, <2>1, <2>3 DEF Row
    <3> QED BY <1>8, <2>1, <2>2, <2>3, <3>1 DEF Stored
  <2>4. CASE r = p
    <3>1. Done("write", r)' = c /\ 1 .. Done("write", r) \subseteq 1 .. c /\ c \in 1 .. c
          /\ \A f \in 1 .. c : f \in 1 .. Done("write", r) \/ f = c
      BY <1>5, <1>10, <2>4
    <3>2. r = 0 => offset[r] = 0
      BY DEF FilesInv
    <3>3. ASSUME NEW w \in written', w[2] = r
          PROVE  /\ w[1] \in 1 .. Done("write", r)'
                 /\ w[1] = Done("pack", r)' => w[3] = offset'[r] /\ w[4] = size'[r]
                 /\ r = 0 => w[3] = 0
      <4>1. CASE w = new
        BY <1>8, <2>4, <3>1, <3>2, <4>1
      <4>2. CASE w \in written
        BY <1>8, <2>1, <2>2, <3>1, <3>3, <4>2 DEF Stored
      <4> QED BY <1>8, <4>1, <4>2
    <3>4. ASSUME NEW f \in 1 .. Done("write", r)' PROVE \E w \in written' : w[1] = f /\ w[2] = r
      <4>1. CASE f = c
        BY <1>8, <2>4, <4>1
      <4>2. CASE f \in 1 .. Done("write", r)
        BY <1>8, <2>1, <4>2 DEF Stored
      <4> QED BY <3>1, <4>1, <4>2
    <3> QED BY <2>2, <3>3, <3>4 DEF Stored
  <2> QED BY <2>3, <2>4
<1>12. Tiled'
  <2> SUFFICES ASSUME NEW w \in written', NEW v \in written', w[1] = v[1], w[2] < v[2]
               PROVE  /\ w[3] + w[4] <= v[3]
                      /\ v[2] = w[2] + 1 => v[3] = w[3] + w[4]
    BY DEF Tiled
  <2>1. \A x \in written : x[2] \in Ranks
    BY <1>1 DEF TypeInv
  <2>2. ASSUME NEW x \in written, x[1] = c
        PROVE  /\ x[2] \in Ranks /\ Done("pack", x[2]) = c /\ Got(x[2]) = c
               /\ x[3] = offset[x[2]] /\ x[4] = size[x[2]]
    <3>1. PICK r \in Ranks : r = x[2]
      BY <2>1
    <3>2. Stored(r) /\ Row(r)
      BY <1>2 DEF FilesInv
    <3>3. c \in 1 .. Done("write", r) /\ Done("write", r) \in Nat
      BY <2>2, <3>1, <3>2 DEF Stored, Row
    <3>4. Done("write", r) >= c
      BY <1>5, <3>3
    <3>5. Done("pack", r) = c /\ Got(r) = c
      BY <1>6, <3>4
    <3>6. x[3] = offset[r] /\ x[4] = size[r]
      BY <2>2, <3>1, <3>2, <3>5 DEF Stored
    <3> QED BY <3>1, <3>5, <3>6
  <2>3. CASE w \in written /\ v \in written
    BY <2>3 DEF FilesInv, Tiled
  <2>4. CASE w = new /\ v = new
    BY <1>8, <2>4, RankOrder
  <2>5. CASE w = new /\ v \in written
    <3>1. v[2] \in Ranks /\ Done("pack", v[2]) = c /\ Got(v[2]) = c /\ v[3] = offset[v[2]]
      BY <1>8, <2>2, <2>5
    <3>2. InFront(p, v[2])
      BY <3>1 DEF FilesInv
    <3> QED BY <1>5, <1>8, <2>5, <3>1, <3>2 DEF InFront
  <2>6. CASE w \in written /\ v = new
    <3>1. /\ w[2] \in Ranks /\ Done("pack", w[2]) = c
          /\ w[3] = offset[w[2]] /\ w[4] = size[w[2]]
      BY <1>8, <2>2, <2>6
    <3>2. InFront(w[2], p)
      BY <3>1 DEF FilesInv
    <3> QED BY <1>5, <1>8, <2>6, <3>1, <3>2 DEF InFront
  <2> QED BY <1>8, <2>3, <2>4, <2>5, <2>6
<1>13. ASSUME NEW r \in Ranks PROVE Passed(r)'
  BY <1>8, <1>10 DEF FilesInv, Passed
<1>14. ASSUME NEW q \in Ranks, NEW r \in Ranks PROVE InFront(q, r)'
  <2>1. InFront(q, r)
    BY DEF FilesInv
  <2>2. /\ Done("pack", q)' = Done("pack", q) /\ Done("pack", r)' = Done("pack", r)
        /\ Got(r)' = Got(r) /\ Handed(q)' = Handed(q)
    BY <1>10
  <2> QED BY <1>8, <2>1, <2>2 DEF InFront
<1>15. \A r \in Ranks : r = 0 => offset'[r] = 0
  BY <1>8 DEF FilesInv
<1> QED BY <1>11, <1>12, <1>13, <1>14, <1>15 DEF FilesInv

\* Every step keeps the files together.
LEMMA FilesNext ==
  ASSUME RanksInv, FilesInv, [Next]_vars
  PROVE  FilesInv'
<1>1. ASSUME NEW p \in Ranks, RankStep(p) PROVE FilesInv'
  <2>1. TypeInv /\ Placed(p)
    BY DEF RanksInv
  <2>2. PICK s \in Acts : Tally(p, s) /\ Does(p, s)
    BY <1>1, <2>1, TallyIs
  <2>3. CASE s = "pack"
    BY <2>2, <2>3, PackFiles DEF Does
  <2>4. CASE s = "recv"
    BY <2>2, <2>4, RecvFiles DEF Does
  <2>5. CASE s = "send"
    BY <2>2, <2>5, SendFiles DEF Does
  <2>6. CASE s \in {"fopen", "none"}
    BY <2>2, <2>6, OpenFiles
  <2>7. CASE s = "write"
    BY <2>2, <2>7, WriteFiles DEF Does
  <2> QED BY <2>3, <2>4, <2>5, <2>6, <2>7 DEF Acts
<1>2. ASSUME UNCHANGED vars PROVE FilesInv'
  <2>1. driver' = driver /\ at' = at /\ inside' = inside /\ fileVars' = fileVars
    BY <1>2 DEF vars
  <2>2. \A q : (\A t : Done(t, q)' = Done(t, q)) /\ Got(q)' = Got(q) /\ Step(q)' = Step(q)
    BY <2>1 DEF Done, Got, Step
  <2>3. \A q : Handed(q)' = Handed(q)
    BY <2>1, <2>2 DEF Handed
  <2>4. size' = size /\ offset' = offset /\ inbox' = inbox /\ opened' = opened /\ written' = written
    BY <2>1 DEF fileVars
  <2>5. ASSUME NEW r \in Ranks PROVE Passed(r)' /\ Stored(r)' /\ (r = 0 => offset'[r] = 0)
    <3>1. Passed(r) /\ Stored(r) /\ (r = 0 => offset[r] = 0)
      BY DEF FilesInv
    <3>2. Passed(r)'
      BY <2>2, <2>3, <2>4, <3>1 DEF Passed
    <3>3. Stored(r)'
      BY <2>2, <2>4, <3>1 DEF Stored
    <3> QED BY <2>4, <3>1, <3>2, <3>3
  <2>6. ASSUME NEW q \in Ranks, NEW r \in Ranks PROVE InFront(q, r)'
    BY <2>2, <2>3, <2>4 DEF FilesInv, InFront
  <2>7. Tiled'
    BY <2>4 DEF FilesInv, Tiled
  <2> QED BY <2>5, <2>6, <2>7 DEF FilesInv
<1> QED BY <1>1, <1>2 DEF Next

\* No file is begun at the start.
LEMMA FilesInit ==
  ASSUME Init, RanksInv
  PROVE  FilesInv
<1>1. /\ written = {} /\ driver \in Drivers
      /\ \A r \in Ranks : /\ inbox[r] = <<>> /\ offset[r] = 0 /\ size[r] = 0 /\ opened[r] = 0
                         /\ at[r] = 1 /\ ~inside[r]
  BY DEF Init
<1>2. ASSUME NEW r \in Ranks
      PROVE  (\A t : Done(t, r) = 0) /\ Got(r) = 0 /\ Handed(r) = 0
  <2> DEFINE P == Program[driver][r]
  <2>1. Idle(r, P, FilesOf(driver))
    BY <1>1, ProgramsOrdered
  <2>2. P \in Seq(Names)
    BY <2>1 DEF Idle, Ordered
  <2> HIDE DEF P
  <2>3. \A t : Taken(t, P, 0) = 0
    BY <2>2, TakenStep
  <2>4. at[r] - 1 = 0
    BY <1>1
  <2>5. (\A t : Done(t, r) = 0) /\ Got(r) = 0
    <3>1. \A t : Done(t, r) = Taken(t, P, 0)
      BY <2>4 DEF Done, P
    <3>2. Got(r) = Offsets(r, P, 0)
      BY <2>4 DEF Got, P
    <3>3. Offsets(r, P, 0) = 0
      BY <2>3 DEF Offsets
    <3>4. \A t : Done(t, r) = 0
      <4> SUFFICES ASSUME NEW t PROVE Done(t, r) = 0
        OBVIOUS
      <4>1. Taken(t, P, 0) = 0
        BY <2>3
      <4> QED BY <3>1, <4>1
    <3> QED BY <3>2, <3>3, <3>4
  <2> QED BY <1>1, <2>5 DEF Handed
<1>3. Len(<<>>) = 0
  BY EmptySeq
<1>4. \A r \in Ranks : Passed(r)
  BY <1>1, <1>2, <1>3 DEF Passed
<1>5. \A r \in Ranks : Stored(r)
  BY <1>1, <1>2 DEF Stored
<1>6. \A q, r \in Ranks : InFront(q, r)
  BY <1>1, <1>2 DEF InFront
<1>7. Tiled
  BY <1>1 DEF Tiled
<1>8. \A r \in Ranks : r = 0 => offset[r] = 0
  BY <1>1
<1> QED BY <1>4, <1>5, <1>6, <1>7, <1>8 DEF FilesInv

\* The shared files hold together in every execution.
THEOREM FilesInvariant == Spec => []FilesInv
<1>1. Init /\ RanksInv => FilesInv
  BY FilesInit
<1>2. RanksInv /\ FilesInv /\ [Next]_vars => FilesInv'
  BY FilesNext
<1> QED BY <1>1, <1>2, RanksInvariant, PTL DEF Spec

\* No part of a shared file overlaps another, and a file that a rank has closed is
\* complete, its parts next to each other in the order of the ranks: the offsets
\* travel from rank to rank before any of them opens the file, and no rank is a file
\* ahead of another that has still to write.
THEOREM PartsAreTiled == Spec => []PartsTile
<1>1. RanksInv /\ FilesInv => PartsTile
  <2> SUFFICES ASSUME RanksInv, FilesInv PROVE PartsTile
    OBVIOUS
  <2>1. TypeInv /\ (\A q \in Ranks : Row(q) /\ Placed(q) /\ Stored(q)) /\ Tiled
    BY RowIs DEF RanksInv, FilesInv
  <2>2. \A w \in written, v \in written : w[1] = v[1] /\ w[2] < v[2] => w[3] + w[4] <= v[3]
    BY <2>1 DEF Tiled
  <2>3. ASSUME NEW r \in Ranks, NEW f \in 1 .. opened[r],
               opened[r] > f \/ (code[r] = 0 /\ status[r] # "running")
        PROVE  /\ \A q \in Ranks : \E w \in written : w[1] = f /\ w[2] = q
               /\ \A w \in written : w[1] = f =>
                    w[3] = 0 \/ \E v \in written : v[1] = f /\ v[3] + v[4] = w[3]
    <3>1. opened[r] = Done("fopen", r) /\ opened[r] \in Nat /\ Row(r)
      BY <2>1 DEF Stored, TypeInv
    <3>2. f <= Done("fclose", r)
      <4>1. CASE opened[r] > f
        <5>1. /\ Done("fopen", r) <= Got(r) /\ Got(r) <= Done("pack", r)
              /\ Done("pack", r) <= Done("fclose", r) + 1
              /\ Got(r) \in Nat /\ Done("pack", r) \in Nat /\ Done("fclose", r) \in Nat
          BY <3>1 DEF Row
        <5> QED BY <3>1, <4>1, <5>1
      <4>2. CASE code[r] = 0 /\ status[r] # "running"
        <5>1. at[r] = Len(Program[driver][r]) + 1
          BY <2>1, <4>2 DEF Placed
        <5>2. Done("fclose", r) = Done("fopen", r)
          BY <2>1, <5>1, TurnedIs DEF Turned
        <5> QED BY <3>1, <5>2
      <4> QED BY <2>3, <4>1, <4>2
    <3>3. ASSUME NEW q \in Ranks PROVE \E w \in written : w[1] = f /\ w[2] = q
      <4>1. Done("fclose", r) <= Done("write", q) /\ Done("fclose", r) \in Nat /\ Done("write", q) \in Nat
        BY <2>1 DEF Row
      <4>2. f \in 1 .. Done("write", q)
        BY <3>1, <3>2, <4>1
      <4> QED BY <2>1, <4>2 DEF Stored
    <3>4. ASSUME NEW w \in written, w[1] = f
          PROVE  w[3] = 0 \/ \E v \in written : v[1] = f /\ v[3] + v[4] = w[3]
      <4>1. PICK q \in Ranks : q = w[2]
        BY <2>1 DEF TypeInv
      <4>2. CASE q = 0
        BY <2>1, <4>1, <4>2 DEF Stored
      <4>3. CASE q # 0
        <5>1. PICK e \in Ranks : e + 1 = q /\ e < q
          BY <4>3, RankOrder
        <5>2. PICK v \in written : v[1] = f /\ v[2] = e
          BY <3>3
        <5>3. w[3] = v[3] + v[4]
          BY <2>1, <3>4, <4>1, <5>1, <5>2 DEF Tiled
        <5> QED BY <5>2, <5>3
      <4> QED BY <4>2, <4>3
    <3> QED BY <3>3, <3>4
  <2> QED BY <2>2, <2>3 DEF PartsTile
<1> QED BY <1>1, RanksInvariant, FilesInvariant, PTL
==============================================================================
