--------------------------- MODULE RangeBundleProofs ---------------------------
(***************************************************************************)
(* Proofs about the bundles of byte ranges, for logs and streams of any    *)
(* length, and about what is read of a stream laid out by compress(), for  *)
(* any number of stages and planes and any sizes.                          *)
(***************************************************************************)
EXTENDS BundledStream, OperatorLemmas

-----------------------------------------------------------------------------
(* Ranges *)

AnyRange == Nat \X Nat
Span(r)  == r[1] + 1 .. End(r)

\* The bytes of some ranges are those of each of them.
LEMMA BytesAre ==
  ASSUME NEW rs \in Seq(AnyRange)
  PROVE  \A b : b \in BytesOf(rs) <=> \E k \in 1 .. Len(rs) : b \in Span(rs[k])
<1>1. DOMAIN rs = 1 .. Len(rs)
  BY LenProperties
<1> QED BY <1>1 DEF BytesOf, ToSet, Span

\* Ranges in order, none of them empty, with a gap between each and the next.
Tidy(m) ==
  /\ \A k \in 1 .. Len(m) : m[k][2] > 0
  /\ \A k \in 1 .. Len(m) - 1 : End(m[k]) < m[k + 1][1]

\* The last range starts no later than r.
UpTo(m, r) == m # <<>> => m[Len(m)][1] <= r[1]

\* Adding a range that starts no earlier than the last one keeps the ranges tidy,
\* and adds its bytes.
LEMMA AddedTidy ==
  ASSUME NEW m \in Seq(AnyRange), NEW r \in AnyRange
  PROVE  /\ Added(m, r) \in Seq(AnyRange)
         /\ Tidy(m) /\ UpTo(m, r) =>
              /\ Tidy(Added(m, r)) /\ UpTo(Added(m, r), r)
              /\ BytesOf(Added(m, r)) = BytesOf(m) \cup Span(r)
<1> DEFINE n == Len(m)
           a == Added(m, r)
<1>1. /\ n \in Nat /\ m \in [1 .. n -> AnyRange] /\ (m # <<>> <=> n > 0)
      /\ r[1] \in Nat /\ r[2] \in Nat
  <2>1. m # <<>> <=> n # 0
    BY EmptySeq
  <2>2. n \in Nat /\ m \in [1 .. n -> AnyRange]
    BY LenProperties
  <2>3. r[1] \in Nat /\ r[2] \in Nat
    BY DEF AnyRange
  <2> QED BY <2>1, <2>2, <2>3
<1>2. \A b : b \in BytesOf(m) <=> \E k \in 1 .. n : b \in Span(m[k])
  BY BytesAre
<1>3. CASE r[2] = 0
  <2>1. a = m
    BY <1>3 DEF Added
  <2>2. Span(r) = {}
    BY <1>1, <1>3 DEF Span, End
  <2> QED BY <2>1, <2>2
<1>4. CASE r[2] # 0 /\ ~(m # <<>> /\ Joins(Last(m), r))
  <2>1. a = Append(m, r)
    BY <1>4 DEF Added
  <2>2. a \in Seq(AnyRange) /\ Len(a) = n + 1 /\ a[n + 1] = r /\ \A k \in 1 .. n : a[k] = m[k]
    BY <2>1, AppendProperties
  <2> HIDE DEF a, n
  <2>3. \A b : b \in BytesOf(a) <=> \E k \in 1 .. n + 1 : b \in Span(a[k])
    BY <2>2, BytesAre
  <2>4. BytesOf(a) = BytesOf(m) \cup Span(r)
    <3>1. \A b : b \in BytesOf(a) <=> (\E k \in 1 .. n : b \in Span(m[k])) \/ b \in Span(r)
      BY <1>1, <2>2, <2>3
    <3> QED BY <1>2, <3>1
  <2>5. ASSUME Tidy(m), UpTo(m, r) PROVE Tidy(a) /\ UpTo(a, r)
    <3>1. \A k \in 1 .. n : a[k][2] > 0
      BY <2>2, <2>5 DEF Tidy, n
    <3>2. a[n + 1][2] > 0 /\ a[n + 1][1] <= r[1]
      BY <1>1, <1>4, <2>2
    <3>3. ASSUME NEW k \in 1 .. n PROVE End(a[k]) < a[k + 1][1]
      <4>1. CASE k < n
        <5>1. k \in 1 .. n - 1 /\ k + 1 \in 1 .. n
          BY <1>1, <4>1
        <5>2. End(m[k]) < m[k + 1][1]
          BY <2>5, <5>1 DEF Tidy, n
        <5> QED BY <2>2, <5>1, <5>2
      <4>2. CASE k = n
        <5>1. ~Joins(m[n], r) /\ m[n] \in AnyRange
          BY <1>1, <1>4, <4>2 DEF Last, n
        <5>2. End(m[n]) < r[1]
          BY <1>1, <5>1 DEF Joins, End, AnyRange
        <5> QED BY <2>2, <4>2, <5>2
      <4> QED BY <1>1, <4>1, <4>2
    <3> QED BY <1>1, <2>2, <3>1, <3>2, <3>3 DEF Tidy, UpTo
  <2> QED BY <2>2, <2>4, <2>5 DEF a
<1>5. CASE r[2] # 0 /\ m # <<>> /\ Joins(Last(m), r)
  <2> DEFINE l == m[n]
             j == Joined(l, r)
  <2>1. a = [m EXCEPT ![n] = j] /\ n \in 1 .. n
    BY <1>1, <1>5 DEF Added, Last
  <2>2. l \in AnyRange /\ l[1] \in Nat /\ l[2] \in Nat /\ End(l) = l[1] + l[2] /\ End(r) = r[1] + r[2]
    BY <1>1, <2>1 DEF AnyRange, End
  <2>3. r[1] <= End(l)
    BY <1>5 DEF Joins, Last
  <2>4. j[1] = l[1] /\ j[2] = (IF End(r) > End(l) THEN End(r) ELSE End(l)) - l[1]
    BY DEF Joined
  <2>5. j \in AnyRange
    <3>1. (IF End(r) > End(l) THEN End(r) ELSE End(l)) - l[1] \in Nat
      BY <1>1, <2>2
    <3> QED BY <2>2, <3>1 DEF Joined, AnyRange
  <2> HIDE DEF j
  <2>6. a \in Seq(AnyRange) /\ Len(a) = n /\ a[n] = j /\ \A k \in 1 .. n - 1 : a[k] = m[k]
    <3> HIDE DEF a, n
    <3>1. a \in [1 .. n -> AnyRange] /\ a[n] = j /\ \A k \in 1 .. n - 1 : a[k] = m[k]
      BY <1>1, <2>1, <2>5
    <3>2. a \in Seq(AnyRange)
      BY <1>1, <3>1, SeqDef
    <3>3. DOMAIN a = 1 .. Len(a) /\ Len(a) \in Nat /\ DOMAIN a = 1 .. n
      BY <3>1, <3>2, LenProperties
    <3>4. Len(a) = n
      <4> HIDE DEF a
      <4>1. PICK q \in Nat : q = Len(a) /\ 1 .. q = 1 .. n
        BY <3>3
      <4> QED BY <1>1, <4>1
    <3> QED BY <3>1, <3>2, <3>4
  <2>7. l = m[n] /\ (m # <<>>)
    BY <1>5
  <2> HIDE DEF a, n, l
  <2>8. ASSUME UpTo(m, r) PROVE Span(j) = Span(l) \cup Span(r)
    <3>1. l[1] <= r[1]
      BY <2>7, <2>8 DEF UpTo, n
    <3>2. End(j) = IF End(r) > End(l) THEN End(r) ELSE End(l)
      <4>1. End(j) = j[1] + j[2]
        BY DEF End
      <4> QED BY <1>1, <2>2, <2>4, <4>1
    <3>3. Span(j) = l[1] + 1 .. End(j) /\ Span(l) = l[1] + 1 .. End(l) /\ Span(r) = r[1] + 1 .. End(r)
      BY <2>4 DEF Span
    <3>4. End(l) \in Nat /\ End(r) \in Nat
      BY <1>1, <2>2
    <3> QED BY <1>1, <2>2, <2>3, <3>1, <3>2, <3>3, <3>4
  <2>9. ASSUME UpTo(m, r) PROVE BytesOf(a) = BytesOf(m) \cup Span(r)
    <3>1. \A b : b \in BytesOf(a) <=> \E k \in 1 .. n : b \in Span(a[k])
      BY <2>6, BytesAre
    <3>2. \A b : b \in BytesOf(a) <=> (\E k \in 1 .. n - 1 : b \in Span(m[k])) \/ b \in Span(j)
      <4>1. \A k : k \in 1 .. n <=> k \in 1 .. n - 1 \/ k = n
        BY <1>1, <2>1
      <4> QED BY <2>6, <3>1, <4>1
    <3>3. \A b : b \in BytesOf(m) <=> (\E k \in 1 .. n - 1 : b \in Span(m[k])) \/ b \in Span(l)
      BY <1>1, <1>2, <2>1, <2>7
    <3> QED BY <2>8, <2>9, <3>2, <3>3
  <2>10. ASSUME Tidy(m), UpTo(m, r) PROVE Tidy(a) /\ UpTo(a, r)
    <3>1. l[1] <= r[1] /\ l[2] > 0
      BY <2>1, <2>7, <2>10 DEF UpTo, Tidy, n
    <3>2. j[1] = l[1] /\ j[2] > 0
      BY <1>1, <2>2, <2>4, <3>1
    <3>3. ASSUME NEW k \in 1 .. n PROVE a[k][2] > 0 /\ a[k][1] = m[k][1]
      <4>1. CASE k = n
        BY <2>6, <2>7, <3>2, <4>1
      <4>2. CASE k # n
        <5>1. k \in 1 .. n - 1
          BY <1>1, <4>2
        <5> QED BY <2>6, <2>10, <5>1 DEF Tidy, n
      <4> QED BY <4>1, <4>2
    <3>4. ASSUME NEW k \in 1 .. n - 1 PROVE End(a[k]) < a[k + 1][1]
      <4>1. End(m[k]) < m[k + 1][1]
        BY <2>10 DEF Tidy, n
      <4>2. k + 1 \in 1 .. n
        BY <1>1
      <4> QED BY <2>6, <3>3, <4>1, <4>2
    <3> QED BY <2>1, <2>6, <2>7, <3>1, <3>3, <3>4 DEF Tidy, UpTo
  <2> QED BY <2>6, <2>9, <2>10 DEF a
<1> QED BY <1>3, <1>4, <1>5

-----------------------------------------------------------------------------
(* Merging *)

\* i is the last of I in the order of the ranges.
IsLast(rs, I, i) == i \in I /\ \A j \in I : ~Before(rs[i], rs[j])

\* Some set of indices always has a last one.
LEMMA LastExists ==
  ASSUME NEW rs \in Seq(AnyRange), NEW I \in SUBSET DOMAIN rs, I # {}
  PROVE  \E i : IsLast(rs, I, i)
<1>1. \A i \in I : rs[i][1] \in Nat /\ rs[i][2] \in Nat
  BY LenProperties, ElementOfSeq DEF AnyRange
<1>2. IsFiniteSet(I)
  <2>1. IsFiniteSet(DOMAIN rs)
    BY LenProperties, FS_Interval
  <2> QED BY <2>1, FS_Subset
<1> DEFINE w == [i \in I |-> rs[i][1]]
<1>3. PICK m \in I : \A j \in I : rs[j][1] <= rs[m][1]
  <2>1. \A i \in I : w[i] \in Int
    BY <1>1
  <2>2. \E i \in I : \A j \in I : w[j] <= w[i]
    <3> HIDE DEF w
    <3> QED BY <1>2, <2>1, LargestExists
  <2> QED BY <2>2
<1> DEFINE K == {i \in I : rs[i][1] = rs[m][1]}
           v == [i \in K |-> rs[i][2]]
<1>4. PICK i \in K : \A j \in K : rs[j][2] <= rs[i][2]
  <2>1. IsFiniteSet(K) /\ K # {}
    BY <1>2, FS_Subset
  <2>2. \A i \in K : v[i] \in Int
    BY <1>1
  <2>3. \E i \in K : \A j \in K : v[j] <= v[i]
    <3> HIDE DEF K, v
    <3> QED BY <2>1, <2>2, LargestExists
  <2> QED BY <2>3
<1>5. ASSUME NEW j \in I PROVE ~Before(rs[i], rs[j])
  BY <1>1, <1>3, <1>4 DEF Before
<1> QED BY <1>4, <1>5 DEF IsLast

\* g tells what has been merged when the ranges with the indices I have been added.
Merges(rs, g) ==
  /\ g \in [SUBSET DOMAIN rs -> Seq(AnyRange)]
  /\ g[{}] = <<>>
  /\ \A I \in SUBSET DOMAIN rs : I # {} =>
       \E i : IsLast(rs, I, i) /\ g[I] = Added(g[I \ {i}], rs[i])
  /\ merge_ranges(rs) = g[DOMAIN rs]

\* Ranges are merged one after the other, the last of those left at the end.
LEMMA MergeUnfolds ==
  ASSUME NEW rs \in Seq(AnyRange)
  PROVE  \E g : Merges(rs, g)
<1> DEFINE D == DOMAIN rs
           T == Seq(AnyRange)
           c(I) == CHOOSE i \in I : \A j \in I : ~Before(rs[i], rs[j])
           ch == [I \in SUBSET D |-> c(I)]
           F == [p \in D \X T |-> Added(p[2], rs[p[1]])]
<1>1. D = 1 .. Len(rs) /\ IsFiniteSet(D) /\ \A i \in D : rs[i] \in AnyRange
  BY LenProperties, ElementOfSeq, FS_Interval
<1>2. <<>> \in T
  BY EmptySeq
<1>3. \A m \in T, r \in AnyRange : Added(m, r) \in T
  BY AddedTidy
<1> HIDE DEF D, T
<1>4. F \in [D \X T -> T]
  BY <1>1, <1>3
<1>5. ASSUME NEW I \in SUBSET D, I # {} PROVE IsLast(rs, I, c(I)) /\ ch[I] = c(I)
  <2>1. \E i : IsLast(rs, I, i)
    BY <1>5, LastExists DEF D
  <2>2. \E i \in I : \A j \in I : ~Before(rs[i], rs[j])
    BY <2>1 DEF IsLast
  <2>3. c(I) \in I /\ \A j \in I : ~Before(rs[c(I)], rs[j])
    BY <2>2, Zenon
  <2> HIDE DEF c
  <2> QED BY <2>3 DEF IsLast
<1>6. Picks(D, ch)
  <2> HIDE DEF ch, c
  <2> QED BY <1>5 DEF Picks, IsLast
<1>7. PICK g \in [SUBSET D -> T] :
        \A I \in SUBSET D : g[I] = IF I = {} THEN <<>> ELSE F[<<ch[I], g[I \ {ch[I]}]>>]
  <2> HIDE DEF F, ch
  <2>1. \E g \in [SUBSET D -> T] : FoldsTo(D, <<>>, F, ch, g)
    BY <1>1, <1>2, <1>4, <1>6, FoldExists, Zenon
  <2> QED BY <2>1 DEF FoldsTo
<1> HIDE DEF ch
<1>8. ASSUME NEW I \in SUBSET D, I # {} PROVE g[I] = Added(g[I \ {c(I)}], rs[c(I)])
  <2>1. c(I) \in I /\ ch[I] = c(I)
    BY <1>5, <1>8 DEF IsLast
  <2> HIDE DEF c
  <2>2. g[I] = F[<<c(I), g[I \ {c(I)}]>>] /\ c(I) \in D /\ g[I \ {c(I)}] \in T
    BY <1>7, <1>8, <2>1
  <2> QED BY <2>2
<1>9. merge_ranges(rs) = g[D]
  <2> DEFINE Body(h) == [I \in SUBSET D |-> IF I = {} THEN <<>> ELSE Added(h[I \ {c(I)}], rs[c(I)])]
             h == CHOOSE h : h = Body(h)
  <2>1. merge_ranges(rs) = h[D]
    BY Zenon DEF merge_ranges, MapThenFoldSet, D
  <2>2. g = Body(g)
    <3> HIDE DEF c
    <3>1. g[{}] = <<>>
      BY <1>7
    <3> QED BY <1>8, <3>1
  <2>3. h = Body(h)
    <3> HIDE DEF Body
    <3> QED BY <2>2, Zenon
  <2> HIDE DEF h, c
  <2> DEFINE N == {n \in Nat : \A I \in SUBSET D : Cardinality(I) = n => g[I] = h[I]}
  <2>4. ASSUME NEW I \in SUBSET D
        PROVE  IsFiniteSet(I) /\ Cardinality(I) \in Nat /\ (Cardinality(I) = 0 <=> I = {})
    BY <1>1, FS_Subset, FS_CardinalityType, FS_EmptySet
  <2>5. 0 \in N
    <3>1. g[{}] = h[{}]
      BY <2>2, <2>3
    <3> QED BY <2>4, <3>1
  <2>6. ASSUME NEW n \in Nat, n \in N PROVE n + 1 \in N
    <3> SUFFICES ASSUME NEW I \in SUBSET D, Cardinality(I) = n + 1 PROVE g[I] = h[I]
      OBVIOUS
    <3>1. I # {}
      BY <2>4
    <3>2. c(I) \in I
      BY <1>5, <3>1 DEF IsLast
    <3>3. Cardinality(I \ {c(I)}) = IF c(I) \in I THEN Cardinality(I) - 1 ELSE Cardinality(I)
      BY <2>4, FS_RemoveElement, Zenon
    <3>4. g[I \ {c(I)}] = h[I \ {c(I)}]
      BY <2>6, <3>2, <3>3
    <3>5. h[I] = Added(h[I \ {c(I)}], rs[c(I)])
      BY <2>3, <3>1
    <3> QED BY <1>8, <3>1, <3>4, <3>5
  <2> HIDE DEF N
  <2>7. Nat \subseteq N
    BY <2>5, <2>6, SetInduction
  <2>8. D \in SUBSET D /\ Cardinality(D) \in Nat
    BY <2>4
  <2>9. g[D] = h[D]
    BY <2>7, <2>8 DEF N
  <2> QED BY <2>1, <2>9
<1>10. g[{}] = <<>>
  BY <1>7
<1>11. \A I \in SUBSET D : I # {} => \E i : IsLast(rs, I, i) /\ g[I] = Added(g[I \ {i}], rs[i])
  <2> HIDE DEF c
  <2> QED BY <1>5, <1>8
<1> QED BY <1>9, <1>10, <1>11 DEF Merges, D, T

\* merge_ranges() gives the bytes of the ranges, in order and with gaps.
LEMMA MergeCorrect ==
  ASSUME NEW rs \in Seq(AnyRange)
  PROVE  /\ merge_ranges(rs) \in Seq(AnyRange) /\ Tidy(merge_ranges(rs))
         /\ BytesOf(merge_ranges(rs)) = BytesOf(rs)
<1>1. PICK g : Merges(rs, g)
  BY MergeUnfolds
<1> DEFINE D == DOMAIN rs
           Good(I) == /\ Tidy(g[I])
                      /\ g[I] # <<>> => \E i \in I : g[I][Len(g[I])][1] <= rs[i][1]
                      /\ BytesOf(g[I]) = UNION {Span(rs[i]) : i \in I}
           N == {n \in Nat : \A I \in SUBSET D : Cardinality(I) = n => Good(I)}
<1>2. D = 1 .. Len(rs) /\ IsFiniteSet(D) /\ \A i \in D : rs[i] \in AnyRange
  BY LenProperties, ElementOfSeq, FS_Interval
<1>3. /\ \A I \in SUBSET D : g[I] \in Seq(AnyRange)
      /\ g[{}] = <<>> /\ merge_ranges(rs) = g[D]
      /\ \A I \in SUBSET D : I # {} =>
           \E i : IsLast(rs, I, i) /\ g[I] = Added(g[I \ {i}], rs[i])
  BY <1>1 DEF Merges
<1> HIDE DEF D
<1>4. ASSUME NEW I \in SUBSET D
      PROVE  IsFiniteSet(I) /\ Cardinality(I) \in Nat /\ (Cardinality(I) = 0 <=> I = {})
  BY <1>2, FS_Subset, FS_CardinalityType, FS_EmptySet
<1>5. 0 \in N
  <2>1. Tidy(<<>>) /\ BytesOf(<<>>) = {}
    BY DEF Tidy, BytesOf, ToSet
  <2>2. Good({})
    BY <1>3, <2>1
  <2> HIDE DEF Good
  <2> QED BY <1>4, <2>2
<1>6. ASSUME NEW n \in Nat, n \in N PROVE n + 1 \in N
  <2> SUFFICES ASSUME NEW I \in SUBSET D, Cardinality(I) = n + 1 PROVE Good(I)
    OBVIOUS
  <2>1. I # {}
    BY <1>4
  <2>2. PICK i : IsLast(rs, I, i) /\ g[I] = Added(g[I \ {i}], rs[i])
    BY <1>3, <2>1
  <2> DEFINE J == I \ {i}
             r == rs[i]
             m == g[J]
  <2>3. i \in I /\ r \in AnyRange /\ J \in SUBSET D /\ m \in Seq(AnyRange)
    BY <1>2, <1>3, <2>2 DEF IsLast
  <2>4. Good(J)
    <3>1. Cardinality(J) = IF i \in I THEN Cardinality(I) - 1 ELSE Cardinality(I)
      BY <1>4, FS_RemoveElement, Zenon
    <3> HIDE DEF Good
    <3> QED BY <1>6, <2>3, <3>1
  <2>5. UpTo(m, r)
    <3> SUFFICES ASSUME m # <<>> PROVE m[Len(m)][1] <= r[1]
      BY DEF UpTo
    <3>1. PICK j \in J : m[Len(m)][1] <= rs[j][1]
      BY <2>4
    <3>2. rs[j] \in AnyRange /\ ~Before(r, rs[j])
      BY <1>2, <2>2 DEF IsLast
    <3>3. rs[j][1] <= r[1] /\ rs[j][1] \in Nat /\ r[1] \in Nat
      BY <2>3, <3>2 DEF Before, AnyRange
    <3>4. m[Len(m)][1] \in Nat
      <4>1. Len(m) \in 1 .. Len(m)
        BY <2>3, EmptySeq
      <4>2. m[Len(m)] \in AnyRange
        BY <2>3, <4>1, ElementOfSeq
      <4> QED BY <4>2 DEF AnyRange
    <3> QED BY <3>1, <3>3, <3>4
  <2>6. Tidy(m) /\ BytesOf(m) = UNION {Span(rs[j]) : j \in J}
    BY <2>4
  <2>7. g[I] = Added(m, r)
    BY <2>2
  <2> HIDE DEF m
  <2>8. /\ Tidy(Added(m, r)) /\ UpTo(Added(m, r), r)
        /\ BytesOf(Added(m, r)) = BytesOf(m) \cup Span(r)
    BY <2>3, <2>5, <2>6, AddedTidy
  <2>9. UNION {Span(rs[j]) : j \in I} = (UNION {Span(rs[j]) : j \in J}) \cup Span(r)
    BY <2>3
  <2> QED BY <2>3, <2>6, <2>7, <2>8, <2>9 DEF UpTo
<1> HIDE DEF N
<1>7. Nat \subseteq N
  BY <1>5, <1>6, SetInduction
<1>8. Good(D)
  <2>1. D \in SUBSET D /\ Cardinality(D) \in Nat
    BY <1>4
  <2> HIDE DEF Good
  <2> QED BY <1>7, <2>1 DEF N
<1>9. UNION {Span(rs[i]) : i \in D} = BytesOf(rs)
  BY DEF D, BytesOf, ToSet, Span
<1>10. D \in SUBSET D
  OBVIOUS
<1> QED BY <1>3, <1>8, <1>9, <1>10

-----------------------------------------------------------------------------
(* Packing *)

\* Tidy ranges are in order, not only neighbours.
LEMMA TidyOrdered ==
  ASSUME NEW m \in Seq(AnyRange), Tidy(m)
  PROVE  /\ \A k \in 1 .. Len(m) : m[k][1] \in Nat /\ m[k][2] \in Nat \ {0}
                                   /\ End(m[k]) = m[k][1] + m[k][2]
         /\ \A j, k \in 1 .. Len(m) : j < k => End(m[j]) < m[k][1]
<1>1. Len(m) \in Nat /\ \A k \in 1 .. Len(m) : m[k] \in AnyRange
  BY LenProperties, ElementOfSeq
<1>2. \A k \in 1 .. Len(m) : m[k][1] \in Nat /\ m[k][2] \in Nat \ {0} /\ End(m[k]) = m[k][1] + m[k][2]
  BY <1>1 DEF AnyRange, Tidy, End
<1> DEFINE n == Len(m)
           N == {d \in Nat : \A j \in 1 .. n : (j + 1) + d \in 1 .. n => End(m[j]) < m[(j + 1) + d][1]}
<1>3. 0 \in N
  <2>1. ASSUME NEW j \in 1 .. n, (j + 1) + 0 \in 1 .. n PROVE End(m[j]) < m[(j + 1) + 0][1]
    <3>1. j \in 1 .. n - 1 /\ (j + 1) + 0 = j + 1
      BY <1>1, <2>1
    <3> QED BY <3>1 DEF Tidy
  <2> QED BY <2>1
<1> HIDE DEF n
<1>4. ASSUME NEW d \in Nat, d \in N PROVE d + 1 \in N
  <2> SUFFICES ASSUME NEW j \in 1 .. n, (j + 1) + (d + 1) \in 1 .. n
               PROVE  End(m[j]) < m[(j + 1) + (d + 1)][1]
    OBVIOUS
  <2>1. PICK k \in 1 .. n - 1 : k = (j + 1) + d /\ k + 1 = (j + 1) + (d + 1) /\ k \in 1 .. n /\ k + 1 \in 1 .. n
    BY <1>1 DEF n
  <2>2. End(m[j]) < m[k][1]
    BY <1>4, <2>1
  <2>3. End(m[k]) < m[k + 1][1]
    BY <2>1 DEF Tidy, n
  <2>4. /\ m[j][1] \in Nat /\ m[j][2] \in Nat /\ End(m[j]) = m[j][1] + m[j][2]
        /\ m[k][1] \in Nat /\ m[k][2] \in Nat /\ End(m[k]) = m[k][1] + m[k][2]
        /\ m[k + 1][1] \in Nat
    BY <1>2, <2>1 DEF n
  <2>5. End(m[j]) < m[k + 1][1]
    <3>1. PICK a, b, c, d1, e : /\ a = End(m[j]) /\ b = m[k][1] /\ c = m[k][2]
                               /\ d1 = End(m[k]) /\ e = m[k + 1][1]
      OBVIOUS
    <3>2. a \in Nat /\ b \in Nat /\ c \in Nat /\ e \in Nat /\ d1 = b + c /\ a < b /\ d1 < e
      <4>1. a \in Nat
        <5>1. PICK x, y \in Nat : x = m[j][1] /\ y = m[j][2]
          BY <2>4
        <5>2. a = x + y
          BY <2>4, <3>1, <5>1, Zenon
        <5> QED BY <5>1, <5>2
      <4>2. d1 = b + c
        BY <2>4, <3>1, Zenon
      <4>3. a < b /\ d1 < e
        BY <2>2, <2>3, <3>1, Zenon
      <4>4. b \in Nat /\ c \in Nat /\ e \in Nat
        BY <2>4, <3>1, Zenon
      <4> QED BY <4>1, <4>2, <4>3, <4>4
    <3>3. a < e
      BY <3>2
    <3> QED BY <3>1, <3>3, Zenon
  <2> QED BY <2>1, <2>5, Zenon
<1> HIDE DEF N
<1>5. Nat \subseteq N
  BY <1>3, <1>4, SetInduction
<1>6. ASSUME NEW j \in 1 .. n, NEW k \in 1 .. n, j < k PROVE End(m[j]) < m[k][1]
  <2>1. k - j - 1 \in Nat /\ (j + 1) + (k - j - 1) = k
    BY <1>1, <1>6 DEF n
  <2> QED BY <1>5, <2>1 DEF N
<1> QED BY <1>2, <1>6 DEF n

\* Where range k of m starts when the bytes of all are put one after the other.
Offset(m, k) == SumFunctionOnSet([j \in DOMAIN m |-> m[j][2]], 1 .. k - 1)

\* A range starts where the one before it ends.
LEMMA OffsetStep ==
  ASSUME NEW m \in Seq(AnyRange)
  PROVE  /\ Offset(m, 1) = 0
         /\ \A k \in 1 .. Len(m) : Offset(m, k) \in Nat /\ Offset(m, k + 1) = Offset(m, k) + m[k][2]
         /\ Offset(m, Len(m) + 1) \in Nat
<1> DEFINE w == [j \in DOMAIN m |-> m[j][2]]
           S(k) == SumFunctionOnSet(w, 1 .. k - 1)
           n == Len(m)
<1>1. n \in Nat /\ DOMAIN m = 1 .. n /\ \A k \in 1 .. n : w[k] = m[k][2] /\ m[k][2] \in Nat
  BY LenProperties, ElementOfSeq DEF AnyRange
<1> HIDE DEF w, n
<1>2. S(1) = 0
  <2>1. SumFunctionOnSet(w, {}) = 0
    BY FS_EmptySet, SumByChoice
  <2>2. 1 .. 1 - 1 = {}
    OBVIOUS
  <2> QED BY <2>1, <2>2
<1>3. ASSUME NEW k \in 1 .. n PROVE S(k + 1) = w[k] + S(k)
  <2>0. k \in Int /\ k \in 1 .. k /\ \A i \in 1 .. k : i \in 1 .. n
    BY <1>1
  <2>a. \A i \in 1 .. n : w[i] \in Int
    BY <1>1
  <2>b. IsFiniteSet(1 .. k)
    BY <2>0, FS_Interval
  <2>1. IsFiniteSet(1 .. k) /\ (\A i \in 1 .. k : w[i] \in Int) /\ k \in 1 .. k
    BY <2>0, <2>a, <2>b
  <2>2. SumFunctionOnSet(w, 1 .. k) = w[k] + SumFunctionOnSet(w, (1 .. k) \ {k})
    BY <2>1, SumRemove
  <2>3. (1 .. k) \ {k} = 1 .. k - 1 /\ (k + 1) - 1 = k
    BY <1>1
  <2> QED BY <2>2, <2>3
<1> HIDE DEF S
<1> DEFINE N == {k \in Nat : k <= n => S(k + 1) \in Nat}
<1>4. 0 \in N
  BY <1>2
<1>5. ASSUME NEW k \in Nat, k \in N PROVE k + 1 \in N
  <2> SUFFICES ASSUME k + 1 <= n PROVE S((k + 1) + 1) \in Nat
    OBVIOUS
  <2>1. k + 1 \in 1 .. n /\ k <= n
    BY <1>1
  <2>2. S((k + 1) + 1) = w[k + 1] + S(k + 1)
    BY <1>3, <2>1
  <2> QED BY <1>1, <1>5, <2>1, <2>2
<1> HIDE DEF N
<1>6. Nat \subseteq N
  BY <1>4, <1>5, SetInduction
<1>7. ASSUME NEW k \in 1 .. n PROVE S(k) \in Nat /\ S(k + 1) = S(k) + m[k][2]
  <2>1. k - 1 \in N /\ (k - 1) + 1 = k /\ k - 1 <= n
    BY <1>1, <1>6
  <2>2. S(k) \in Nat
    BY <2>1 DEF N
  <2>3. S(k + 1) = w[k] + S(k) /\ w[k] = m[k][2] /\ m[k][2] \in Nat
    BY <1>1, <1>3
  <2> QED BY <2>2, <2>3
<1>8. S(n + 1) \in Nat
  BY <1>1, <1>6 DEF N
<1>9. \A k : S(k) = Offset(m, k)
  BY DEF S, w, Offset
<1> QED BY <1>2, <1>7, <1>8, <1>9 DEF n

\* The bytes of m are in the stream.
InStream(m) == \A k \in 1 .. Len(m) : End(m[k]) <= full_size

\* The bytes of tidy ranges, packed, are each of them once, every range at its offset.
LEMMA PackedIs ==
  ASSUME full_size \in Nat, NEW m \in Seq(AnyRange), Tidy(m), InStream(m)
  PROVE  /\ Len(Packed(m)) = Offset(m, Len(m) + 1)
         /\ \A k \in 1 .. Len(m), i \in Nat \ {0} :
              i <= m[k][2] => Packed(m)[Offset(m, k) + i] = m[k][1] + i
         /\ IsFiniteSet(BytesOf(m)) /\ Cardinality(BytesOf(m)) = Len(Packed(m))
<1> DEFINE n == Len(m)
           o(k) == Offset(m, k)
           part(k) == SubSeq(Stream, m[k][1] + 1, End(m[k]))
           f == [k \in 1 .. n |-> part(k)]
           P(k) == FlattenSeq(Prefix(f, k))
           U(k) == UNION {Span(m[j]) : j \in 1 .. k}
           Good(k) == /\ P(k) \in Seq(Nat) /\ Len(P(k)) = o(k + 1)
                      /\ \A j \in 1 .. k, i \in Nat \ {0} :
                           i <= m[j][2] => o(j) + i <= o(k + 1) /\ P(k)[o(j) + i] = m[j][1] + i
                      /\ IsFiniteSet(U(k)) /\ Cardinality(U(k)) = o(k + 1)
           N == {k \in Nat : k <= n => Good(k)}
<1>1. /\ n \in Nat /\ DOMAIN m = 1 .. n
      /\ \A k \in 1 .. n : m[k][1] \in Nat /\ m[k][2] \in Nat \ {0} /\ End(m[k]) = m[k][1] + m[k][2]
                           /\ End(m[k]) <= full_size
      /\ \A j, k \in 1 .. n : j < k => End(m[j]) < m[k][1]
  BY LenProperties, TidyOrdered DEF InStream
<1>2. o(1) = 0 /\ \A k \in 1 .. n : o(k) \in Nat /\ o(k + 1) = o(k) + m[k][2]
  BY OffsetStep
<1>3. ASSUME NEW k \in 1 .. n
      PROVE  /\ part(k) \in Seq(Nat) /\ Len(part(k)) = m[k][2]
             /\ \A i \in 1 .. m[k][2] : part(k)[i] = m[k][1] + i
  <2> DEFINE a == m[k][1] + 1
             b == End(m[k])
  <2>1. a \in Nat \ {0} /\ b \in Nat /\ a <= b /\ b <= full_size /\ (b - a) + 1 = m[k][2]
    <3>1. PICK x, y, e : x = m[k][1] /\ y = m[k][2] /\ e = End(m[k])
      OBVIOUS
    <3>2. x \in Nat /\ y \in Nat \ {0} /\ e = x + y /\ e <= full_size
      BY <1>1, <3>1, Zenon
    <3>3. x + 1 \in Nat \ {0} /\ e \in Nat /\ x + 1 <= e /\ (e - (x + 1)) + 1 = y
      BY <3>2
    <3> QED BY <3>1, <3>2, <3>3, Zenon
  <2>2. \A i \in a .. b : Stream[i] = i /\ Stream[i] \in Nat
    BY <2>1 DEF Stream
  <2> HIDE DEF a, b
  <2>3. /\ SubSeq(Stream, a, b) \in Seq(Nat)
        /\ Len(SubSeq(Stream, a, b)) = IF a <= b THEN b - a + 1 ELSE 0
        /\ \A i \in 1 .. b - a + 1 : SubSeq(Stream, a, b)[i] = Stream[a + i - 1]
    BY <2>1, <2>2, SubSeqProperties
  <2>4. \A i \in 1 .. m[k][2] : i \in 1 .. b - a + 1 /\ a + i - 1 \in a .. b /\ a + i - 1 = m[k][1] + i
    <3>1. a = m[k][1] + 1 /\ m[k][1] \in Nat
      BY <1>1 DEF a
    <3>2. PICK x, y : x = m[k][1] /\ y = m[k][2]
      OBVIOUS
    <3>3. a = x + 1 /\ x \in Nat /\ (b - a) + 1 = y
      BY <2>1, <3>1, <3>2, Zenon
    <3>4. \A i \in 1 .. y : i \in 1 .. b - a + 1 /\ a + i - 1 \in a .. b /\ a + i - 1 = x + i
      BY <2>1, <3>3
    <3> QED BY <3>2, <3>4, Zenon
  <2>5. b - a + 1 = m[k][2]
    BY <2>1
  <2> QED BY <2>1, <2>2, <2>3, <2>4, <2>5 DEF a, b
<1>f. /\ P(0) = <<>>
      /\ \A k \in 0 .. n - 1 : P(k + 1) = P(k) \o part(k + 1)
      /\ Packed(m) = P(n)
  <2>1. n \in Nat /\ \A k \in 1 .. n : f[k] = part(k) /\ f[k] \in Seq(Nat)
    <3>1. n \in Nat
      BY <1>1
    <3> HIDE DEF n, part
    <3> QED BY <1>3, <3>1
  <2>2. Packed(m) = FlattenSeq(f)
    BY <1>1 DEF Packed
  <2>3. Prefix(f, n) = f
    BY DEF Prefix
  <2> HIDE DEF f, n, part
  <2>0. n \in Nat /\ \A k \in 1 .. n : f[k] \in Seq(Nat)
    BY <2>1
  <2>4. /\ FlattenSeq(Prefix(f, 0)) = <<>>
        /\ \A k \in 0 .. n : FlattenSeq(Prefix(f, k)) \in Seq(Nat)
        /\ \A k \in 0 .. n - 1 :
             FlattenSeq(Prefix(f, k + 1)) = FlattenSeq(Prefix(f, k)) \o f[k + 1]
    <3>1. Grows(Nat, n, f)
      BY <2>0, FlattenPrefix, Zenon
    <3> QED BY <3>1, Zenon DEF Grows
  <2>5. \A k \in 0 .. n - 1 : k + 1 \in 1 .. n
    BY <2>1
  <2>6. \A k \in 0 .. n - 1 : f[k + 1] = part(k + 1)
    BY <2>1, <2>5
  <2> QED BY <2>2, <2>3, <2>4, <2>6, Zenon
<1> HIDE DEF n, o, part
<1>0. \A k : k \in N <=> k \in Nat /\ (k <= n => Good(k))
  <2> HIDE DEF Good
  <2> QED OBVIOUS
<1>4. 0 \in N
  <2>2. <<>> \in Seq(Nat) /\ Len(<<>>) = 0
    BY EmptySeq
  <2>3. IsFiniteSet(U(0)) /\ Cardinality(U(0)) = 0
    <3>1. 1 .. 0 = {}
      OBVIOUS
    <3>2. U(0) = {}
      BY <3>1, Zenon
    <3> HIDE DEF U
    <3> QED BY <3>2, FS_EmptySet, Zenon
  <2>4. P(0) = <<>>
    BY <1>f, Zenon
  <2>5. o(0 + 1) = 0
    BY <1>2
  <2> HIDE DEF P, U
  <2>6. Good(0)
    <3>1. \A j \in 1 .. 0, i \in Nat \ {0} :
            i <= m[j][2] => o(j) + i <= o(0 + 1) /\ P(0)[o(j) + i] = m[j][1] + i
      <4>1. \A j : j \notin 1 .. 0
        OBVIOUS
      <4> QED BY <4>1, Zenon
    <3>2. P(0) \in Seq(Nat) /\ Len(P(0)) = o(0 + 1)
      BY <2>2, <2>4, <2>5, Zenon
    <3>3. IsFiniteSet(U(0)) /\ Cardinality(U(0)) = o(0 + 1)
      BY <2>3, <2>5, Zenon
    <3> QED BY <3>1, <3>2, <3>3, Zenon
  <2> HIDE DEF Good, N
  <2> QED BY <1>0, <2>6
<1>5. ASSUME NEW k \in Nat, k \in N PROVE k + 1 \in N
  <2> SUFFICES ASSUME k + 1 <= n PROVE Good(k + 1)
    <3> HIDE DEF Good, N
    <3> QED BY <1>0
  <2>1. Good(k) /\ k + 1 \in 1 .. n /\ \A j \in 1 .. k : j \in 1 .. n /\ j < k + 1
    <3>1. k <= n /\ k + 1 \in 1 .. n /\ \A j \in 1 .. k : j \in 1 .. n /\ j < k + 1
      BY <1>1
    <3> HIDE DEF Good, N
    <3> QED BY <1>0, <1>5, <3>1
  <2>0. /\ P(k) \in Seq(Nat) /\ Len(P(k)) = o(k + 1)
        /\ \A j \in 1 .. k, i \in Nat \ {0} :
             i <= m[j][2] => o(j) + i <= o(k + 1) /\ P(k)[o(j) + i] = m[j][1] + i
        /\ IsFiniteSet(U(k)) /\ Cardinality(U(k)) = o(k + 1)
    BY <2>1, Zenon
  <2> DEFINE r == m[k + 1]
             z == o(k + 1)
  <2>2. r[1] \in Nat /\ r[2] \in Nat \ {0} /\ End(r) = r[1] + r[2]
        /\ z \in Nat /\ o((k + 1) + 1) = z + r[2]
    BY <1>1, <1>2, <2>1
  <2>3. P(k + 1) = P(k) \o part(k + 1)
    <3>1. k \in 0 .. n - 1
      BY <1>1, <2>1
    <3> HIDE DEF P
    <3> QED BY <1>f, <3>1
  <2>4. /\ part(k + 1) \in Seq(Nat) /\ Len(part(k + 1)) = r[2]
        /\ \A i \in 1 .. r[2] : part(k + 1)[i] = r[1] + i
    BY <1>3, <2>1
  <2>5. P(k) \in Seq(Nat) /\ Len(P(k)) = z
    BY <2>0, Zenon
  <2>6. /\ P(k + 1) \in Seq(Nat) /\ Len(P(k + 1)) = z + r[2]
        /\ \A i \in 1 .. z + r[2] : P(k + 1)[i] = IF i <= z THEN P(k)[i] ELSE part(k + 1)[i - z]
    <3> HIDE DEF P, r, z
    <3>1. PICK p, q : p = P(k) /\ q = part(k + 1)
      OBVIOUS
    <3>2. PICK c : c = r[2]
      OBVIOUS
    <3>3. p \in Seq(Nat) /\ q \in Seq(Nat) /\ Len(p) = z /\ Len(q) = c /\ P(k + 1) = p \o q
      BY <2>3, <2>4, <2>5, <3>1, <3>2, Zenon
    <3>4. /\ p \o q \in Seq(Nat) /\ Len(p \o q) = Len(p) + Len(q)
          /\ \A i \in 1 .. Len(p) + Len(q) : (p \o q)[i] = IF i <= Len(p) THEN p[i] ELSE q[i - Len(p)]
      BY <3>3, ConcatProperties, Zenon
    <3>5. PICK pq : pq = p \o q
      OBVIOUS
    <3>6. /\ pq \in Seq(Nat) /\ Len(pq) = z + c
          /\ \A i \in 1 .. z + c : pq[i] = IF i <= z THEN p[i] ELSE q[i - z]
      BY <3>3, <3>4, <3>5, Zenon
    <3> QED BY <3>1, <3>2, <3>3, <3>5, <3>6, Zenon
  <2>7. ASSUME NEW j \in 1 .. k + 1, NEW i \in Nat \ {0}, i <= m[j][2]
        PROVE  o(j) + i <= z + r[2] /\ P(k + 1)[o(j) + i] = m[j][1] + i
    <3>1. CASE j \in 1 .. k
      <4>1. o(j) + i <= z /\ P(k)[o(j) + i] = m[j][1] + i
        <5> HIDE DEF P, z
        <5> QED BY <2>0, <2>7, <3>1 DEF z
      <4>2. o(j) \in Nat
        BY <1>2, <2>1, <3>1
      <4> HIDE DEF P, r, z, o
      <4>a. PICK x : x = o(j)
        OBVIOUS
      <4>b. PICK y : y = r[2]
        OBVIOUS
      <4>c. x \in Nat /\ y \in Nat /\ z \in Nat /\ x + i <= z
        BY <2>2, <4>1, <4>2, <4>a, <4>b
      <4>d. x + i \in 1 .. z + y /\ x + i <= z + y
        BY <4>c
      <4>3. o(j) + i \in 1 .. z + r[2]
        BY <4>a, <4>b, <4>d
      <4>4. o(j) + i <= z + r[2]
        BY <4>a, <4>b, <4>d
      <4>5. P(k + 1)[o(j) + i] = P(k)[o(j) + i]
        BY <2>6, <4>1, <4>3
      <4> QED BY <4>1, <4>4, <4>5
    <3>2. CASE j = k + 1
      <4>1. o(j) = z /\ m[j] = r
        BY <3>2
      <4> HIDE DEF P, r, z, o
      <4>a. PICK y : y = r[2]
        OBVIOUS
      <4>b. y \in Nat /\ z \in Nat /\ i <= y
        BY <2>2, <2>7, <4>1, <4>a
      <4>c. z + i \in 1 .. z + y /\ ~(z + i <= z) /\ (z + i) - z = i /\ i \in 1 .. y
        BY <4>b
      <4>2. z + i \in 1 .. z + r[2] /\ ~(z + i <= z) /\ (z + i) - z = i /\ i \in 1 .. r[2]
        BY <4>a, <4>c, Zenon
      <4>3. P(k + 1)[z + i] = part(k + 1)[i]
        BY <2>6, <4>2
      <4>4. part(k + 1)[i] = r[1] + i
        BY <2>4, <4>2
      <4>5. z + i <= z + r[2]
        BY <2>2, <4>2
      <4> QED BY <4>1, <4>3, <4>4, <4>5
    <3> QED BY <3>1, <3>2
  <2>8. IsFiniteSet(U(k + 1)) /\ Cardinality(U(k + 1)) = z + r[2]
    <3>1. U(k + 1) = U(k) \cup Span(r)
      <4>1. \A j : j \in 1 .. k + 1 <=> j \in 1 .. k \/ j = k + 1
        OBVIOUS
      <4> QED BY <4>1
    <3>2. U(k) \cap Span(r) = {}
      <4>1. ASSUME NEW b \in U(k) PROVE b \notin Span(r)
        <5>1. PICK j \in 1 .. k : b \in Span(m[j])
          BY <4>1
        <5>2. End(m[j]) < r[1] /\ End(m[j]) \in Nat
          <6>1. PICK x, y, e : x = m[j][1] /\ y = m[j][2] /\ e = End(m[j])
            OBVIOUS
          <6>2. j \in 1 .. n /\ j < k + 1 /\ k + 1 \in 1 .. n
            BY <2>1
          <6>3. x \in Nat /\ y \in Nat /\ e = x + y /\ e < m[k + 1][1]
            BY <1>1, <6>1, <6>2
          <6>4. e \in Nat
            BY <6>3
          <6> QED BY <6>1, <6>3, <6>4, Zenon
        <5> HIDE DEF r
        <5> QED BY <2>2, <5>1, <5>2 DEF Span
      <4> QED BY <4>1
    <3>3. Span(r) = r[1] + 1 .. r[1] + r[2]
      BY <2>2 DEF Span
    <3> HIDE DEF r
    <3>4. IsFiniteSet(Span(r)) /\ Cardinality(Span(r)) = r[2]
      <4>1. r[1] + 1 \in Int /\ r[1] + r[2] \in Int
        BY <2>2
      <4>2. /\ IsFiniteSet(r[1] + 1 .. r[1] + r[2])
            /\ Cardinality(r[1] + 1 .. r[1] + r[2]) =
                 IF r[1] + 1 > r[1] + r[2] THEN 0 ELSE (r[1] + r[2]) - (r[1] + 1) + 1
        BY <4>1, FS_Interval
      <4>3. PICK x, y : x = r[1] /\ y = r[2]
        OBVIOUS
      <4>4. x \in Nat /\ y \in Nat \ {0} /\ ~(x + 1 > x + y) /\ (x + y) - (x + 1) + 1 = y
        BY <2>2, <4>3
      <4>5. ~(r[1] + 1 > r[1] + r[2]) /\ (r[1] + r[2]) - (r[1] + 1) + 1 = r[2]
        BY <4>3, <4>4, Zenon
      <4>6. Cardinality(r[1] + 1 .. r[1] + r[2]) = r[2]
        BY <4>2, <4>5
      <4> QED BY <3>3, <4>2, <4>6, Zenon
    <3>5. IsFiniteSet(U(k)) /\ Cardinality(U(k)) = z
      BY <2>0, Zenon
    <3> HIDE DEF U, z
    <3>6. Cardinality(U(k) \cap Span(r)) = 0
      BY <3>2, FS_EmptySet
    <3>7. /\ IsFiniteSet(U(k) \cup Span(r))
          /\ Cardinality(U(k) \cup Span(r)) =
               Cardinality(U(k)) + Cardinality(Span(r)) - Cardinality(U(k) \cap Span(r))
      BY <3>4, <3>5, FS_Union
    <3>8. PICK c \in Nat : c = r[2]
      BY <2>2
    <3>9. Cardinality(U(k) \cup Span(r)) = z + c - 0
      BY <3>4, <3>5, <3>6, <3>7, <3>8, Zenon
    <3>10. z + c - 0 = z + c /\ z \in Nat
      BY <2>2, <3>8
    <3> QED BY <3>1, <3>7, <3>8, <3>9, <3>10, Zenon
  <2>9. o((k + 1) + 1) = z + r[2]
    BY <2>2
  <2>10. \A j \in 1 .. k + 1, i \in Nat \ {0} :
           i <= m[j][2] => o(j) + i <= o((k + 1) + 1) /\ P(k + 1)[o(j) + i] = m[j][1] + i
    <3> HIDE DEF P, r, z
    <3> QED BY <2>7, <2>9, Zenon
  <2>11. P(k + 1) \in Seq(Nat) /\ Len(P(k + 1)) = o((k + 1) + 1)
    <3> HIDE DEF P, r, z
    <3> QED BY <2>6, <2>9, Zenon
  <2>12. IsFiniteSet(U(k + 1)) /\ Cardinality(U(k + 1)) = o((k + 1) + 1)
    <3> HIDE DEF U, r, z
    <3> QED BY <2>8, <2>9, Zenon
  <2> QED BY <2>10, <2>11, <2>12, Zenon
<1> HIDE DEF N
<1>6. Nat \subseteq N
  BY <1>4, <1>5, SetInduction
<1>7. Good(n)
  <2>1. n \in N /\ n <= n
    BY <1>1, <1>6
  <2> HIDE DEF Good
  <2> QED BY <1>0, <2>1
<1>9. BytesOf(m) = U(n)
  BY <1>1 DEF BytesOf, ToSet, Span
<1>10. /\ Len(P(n)) = o(n + 1)
       /\ \A j \in 1 .. n, i \in Nat \ {0} : i <= m[j][2] => P(n)[o(j) + i] = m[j][1] + i
       /\ IsFiniteSet(U(n)) /\ Cardinality(U(n)) = o(n + 1)
  BY <1>7, Zenon
<1> HIDE DEF P, U, Good
<1> QED BY <1>f, <1>9, <1>10, Zenon DEF n, o

-----------------------------------------------------------------------------
(* What the codecs log *)

\* The names of blocks.
BlockNames == {Header, Unpred} \cup {BitBlock(l, p) : l \in Lids, p \in Plane}

\* compress() writes a header, the planes of every stage and one block more.
LEMMA CompressType ==
  compress \in Seq(BlockNames) /\ Len(compress) = (1 + NumLids * Planes) + 1
<1> DEFINE B == BlockNames
           f == [i \in 1 .. NumLids |-> encode_lossless_bitplane(i - 1)]
           planes == FlattenSeq([i \in 1 .. NumLids |-> encode_lossless_bitplane(i - 1)])
<1>1. NumLids \in Nat \ {0} /\ Planes \in Nat \ {0}
  BY LayoutAssumption
<1>2. ASSUME NEW l \in Lids
      PROVE  encode_lossless_bitplane(l) \in Seq(B) /\ Len(encode_lossless_bitplane(l)) = Planes
  <2> DEFINE e == encode_lossless_bitplane(l)
  <2>1. \A k \in 1 .. Planes : Planes - k \in Plane
    BY <1>1 DEF Plane
  <2>2. e \in [1 .. Planes -> B]
    BY <2>1 DEF encode_lossless_bitplane, BlockNames
  <2> HIDE DEF e, B
  <2>3. e \in Seq(B)
    BY <1>1, <2>2, SeqDef
  <2>4. DOMAIN e = 1 .. Len(e) /\ Len(e) \in Nat /\ DOMAIN e = 1 .. Planes
    BY <2>2, <2>3, LenProperties
  <2>5. PICK q \in Nat : q = Len(e) /\ 1 .. q = 1 .. Planes
    BY <2>4, Zenon
  <2> QED BY <1>1, <2>3, <2>5 DEF e
<1>3. \A i \in 1 .. NumLids : i - 1 \in Lids
  BY <1>1 DEF Lids
<1>4. \A i \in 1 .. NumLids : f[i] \in Seq(B) /\ Len(f[i]) = Planes
  <2> HIDE DEF B
  <2> QED BY <1>2, <1>3
<1>5. planes = FlattenSeq([i \in 1 .. NumLids |-> f[i]])
  BY Zenon
<1> HIDE DEF f, planes, B
<1>6. planes \in Seq(B) /\ Len(planes) = NumLids * Planes
  <2>1. NumLids \in Nat /\ Planes \in Nat
    BY <1>1
  <2>2. f = [i \in 1 .. NumLids |-> f[i]]
    BY DEF f
  <2>3. f \in [1 .. NumLids -> {s \in Seq(B) : Len(s) = Planes}]
    BY <1>4, <2>2
  <2>4. FlattenSeq(f) \in Seq(B) /\ Len(FlattenSeq(f)) = NumLids * Planes
    BY <2>1, <2>3, FlattenEven
  <2> QED BY <1>5, <2>2, <2>4
<1>8. /\ <<Header>> \in Seq(B) /\ <<Unpred>> \in Seq(B)
      /\ Len(<<Header>>) = 1 /\ Len(<<Unpred>>) = 1
  <2>1. Header \in B /\ Unpred \in B
    BY DEF B, BlockNames
  <2> QED BY <2>1
<1>9. PICK h, u : h = <<Header>> /\ u = <<Unpred>>
  OBVIOUS
<1>10. h \o planes \in Seq(B) /\ Len(h \o planes) = 1 + NumLids * Planes
  <2>1. h \in Seq(B) /\ Len(h) = 1
    BY <1>8, <1>9
  <2>2. h \o planes \in Seq(B) /\ Len(h \o planes) = Len(h) + Len(planes)
    BY <1>6, <2>1, ConcatProperties
  <2> QED BY <1>6, <2>1, <2>2
<1>11. PICK hp : hp = h \o planes
  OBVIOUS
<1>12. hp \o u \in Seq(B) /\ Len(hp \o u) = (1 + NumLids * Planes) + 1
  <2>1. u \in Seq(B) /\ Len(u) = 1 /\ hp \in Seq(B) /\ Len(hp) = 1 + NumLids * Planes
    BY <1>8, <1>9, <1>10, <1>11
  <2>2. hp \o u \in Seq(B) /\ Len(hp \o u) = Len(hp) + Len(u)
    BY <2>1, ConcatProperties
  <2> QED BY <2>1, <2>2
<1>13. compress = hp \o u
  BY <1>9, <1>11, Zenon DEF compress, planes
<1> QED BY <1>12, <1>13 DEF B

\* The size table of a stream has an entry for each block.
LEMMA TableType ==
  ASSUME NEW s \in [Lids -> [Plane -> Nat]]
  PROVE  lossless_size(s) \in Seq(Nat) /\ Len(lossless_size(s)) = (1 + NumLids * Planes) + 1
<1> DEFINE n == (1 + NumLids * Planes) + 1
           t == lossless_size(s)
<1>1. n \in Nat /\ HeaderSize \in Nat /\ UnpredSize \in Nat
  BY LayoutAssumption
<1>2. DOMAIN compress = 1 .. n /\ \A i \in 1 .. n : compress[i] \in BlockNames
  <2> DEFINE c == compress
  <2>1. c \in Seq(BlockNames) /\ Len(c) = n
    BY CompressType
  <2> HIDE DEF c, n
  <2>2. DOMAIN c = 1 .. n /\ \A i \in 1 .. n : c[i] \in BlockNames
    BY <2>1, LenProperties, ElementOfSeq
  <2> QED BY <2>2 DEF c
<1>3. ASSUME NEW i \in 1 .. n PROVE t[i] \in Nat
  <2>1. t[i] = CASE compress[i] = Header -> HeaderSize
                 [] compress[i] = Unpred -> UnpredSize
                 [] OTHER -> s[compress[i][2]][compress[i][3]]
    BY <1>2 DEF lossless_size
  <2>2. Header # Unpred
    BY DEF Header, Unpred
  <2>3. CASE compress[i] = Header
    BY <1>1, <2>1, <2>2, <2>3
  <2>4. CASE compress[i] = Unpred
    BY <1>1, <2>1, <2>2, <2>4
  <2>5. CASE compress[i] # Header /\ compress[i] # Unpred
    <3>1. PICK l \in Lids, p \in Plane : compress[i] = BitBlock(l, p)
      BY <1>2, <2>5 DEF BlockNames
    <3>2. compress[i][2] = l /\ compress[i][3] = p
      BY <3>1 DEF BitBlock
    <3>3. t[i] = s[l][p]
      BY <2>1, <2>5, <3>2
    <3> QED BY <3>3
  <2> QED BY <2>3, <2>4, <2>5
<1>4. t = [i \in 1 .. n |-> t[i]]
  BY <1>2 DEF lossless_size
<1> HIDE DEF t, n
<1>5. t \in [1 .. n -> Nat]
  BY <1>3, <1>4
<1>6. t \in Seq(Nat)
  BY <1>1, <1>5, SeqDef
<1>7. DOMAIN t = 1 .. Len(t) /\ Len(t) \in Nat /\ DOMAIN t = 1 .. n
  BY <1>5, <1>6, LenProperties
<1>8. PICK q \in Nat : q = Len(t) /\ 1 .. q = 1 .. n
  BY <1>7, Zenon
<1> QED BY <1>1, <1>6, <1>8 DEF t, n

\* Offsets into a table are naturals.
LEMMA StartType ==
  ASSUME NEW t \in Seq(Nat)
  PROVE  Sum(t) \in Nat /\ \A i \in 1 .. Len(t) + 1 : Start(t, i) \in Nat
<1>1. ASSUME NEW s \in Seq(Nat) PROVE Sum(s) \in Nat
  <2>1. DOMAIN s = 1 .. Len(s) /\ Len(s) \in Nat /\ \A i \in 1 .. Len(s) : s[i] \in Nat
    BY LenProperties, ElementOfSeq
  <2>2. IsFiniteSet(1 .. Len(s))
    BY <2>1, FS_Interval
  <2>3. SumFunctionOnSet(s, 1 .. Len(s)) \in Nat
    BY <2>1, <2>2, SumNatural
  <2> QED BY <2>1, <2>3 DEF Sum, SumFunction
<1>2. ASSUME NEW i \in 1 .. Len(t) + 1 PROVE Start(t, i) \in Nat
  <2>1. Len(t) \in Nat /\ i - 1 \in 0 .. Len(t)
    BY LenProperties
  <2>2. SubSeq(t, 1, i - 1) \in Seq(Nat)
    <3>1. \A j \in 1 .. i - 1 : t[j] \in Nat
      BY <2>1, ElementOfSeq
    <3> QED BY <2>1, <3>1, SubSeqProperties
  <2> QED BY <1>1, <2>2 DEF Start
<1> QED BY <1>1, <1>2

\* What the codec logs of a stream laid out by compress() is a log.
LEMMA AccessesType ==
  ASSUME NEW s \in [Lids -> [Plane -> Nat]], NEW k \in [Lids -> 0 .. Planes]
  PROVE  Accesses(lossless_size(s), k) \in Seq(AnyRange)
<1> DEFINE t == lossless_size(s)
           A == AnyRange
           plane(l) == [b \in 1 .. k[l] |-> data_lb(t, l, b - 1)]
           f == [i \in 1 .. NumLids |-> plane(i - 1)]
           planes == FlattenSeq([i \in 1 .. NumLids |-> plane(i - 1)])
           header == <<0, t[1]>>
           unpred == <<Start(t, Len(t)), t[Len(t)]>>
<1>1. t \in Seq(Nat) /\ Len(t) = (1 + NumLids * Planes) + 1
  BY TableType
<1>2. /\ NumLids \in Nat \ {0} /\ Planes \in Nat \ {0} /\ NumLids * Planes \in Nat
      /\ Len(t) \in Nat /\ 1 \in 1 .. Len(t) /\ Len(t) \in 1 .. Len(t)
  BY <1>1, LayoutAssumption
<1> HIDE DEF t
<1>3. ASSUME NEW i \in 1 .. Len(t) PROVE t[i] \in Nat /\ Start(t, i) \in Nat
  <2>1. i \in 1 .. Len(t) + 1
    BY <1>2
  <2> QED BY <1>1, <2>1, StartType, ElementOfSeq
<1>4. header \in A /\ unpred \in A
  BY <1>2, <1>3 DEF AnyRange
<1>5. ASSUME NEW l \in Lids, NEW b \in 1 .. k[l] PROVE data_lb(t, l, b - 1) \in A
  <2>1. k[l] \in 0 .. Planes /\ l \in Nat /\ l + 1 <= NumLids
    BY <1>2 DEF Lids
  <2> DEFINE e == Entry(l, Planes - 1 - (b - 1))
  <2>2. e \in 1 .. Len(t)
    <3>1. PICK d \in Nat : NumLids = (l + 1) + d
      <4>1. NumLids - (l + 1) \in Nat /\ NumLids = (l + 1) + (NumLids - (l + 1))
        BY <1>2, <2>1
      <4> QED BY <4>1
    <3>2. NumLids * Planes = (l * Planes + Planes) + d * Planes
      BY <1>2, <2>1, <3>1
    <3>3. PICK x, y : x = l * Planes /\ y = d * Planes
      OBVIOUS
    <3>4. x \in Nat /\ y \in Nat
      BY <1>2, <2>1, <3>1, <3>3
    <3>5. e = 2 + x + (Planes - b)
      BY <1>2, <2>1, <3>3, <3>4 DEF Entry
    <3>6. Len(t) = (1 + ((x + Planes) + y)) + 1
      BY <1>1, <3>2, <3>3
    <3> HIDE DEF e
    <3> QED BY <1>2, <2>1, <3>4, <3>5, <3>6
  <2>3. data_lb(t, l, b - 1) = <<Start(t, e), t[e]>>
    BY DEF data_lb
  <2> HIDE DEF e
  <2> QED BY <1>3, <2>2, <2>3 DEF AnyRange
<1>6. ASSUME NEW l \in Lids PROVE plane(l) \in Seq(A)
  <2>1. k[l] \in Nat
    BY <1>2
  <2>2. plane(l) \in [1 .. k[l] -> A]
    <3> HIDE DEF A
    <3> QED BY <1>5
  <2> HIDE DEF plane, A
  <2> QED BY <2>1, <2>2, SeqDef
<1>7. \A i \in 1 .. NumLids : i - 1 \in Lids
  BY <1>2 DEF Lids
<1>8. \A i \in 1 .. NumLids : f[i] \in Seq(A)
  <2> HIDE DEF A, plane
  <2> QED BY <1>6, <1>7
<1>9. planes = FlattenSeq([i \in 1 .. NumLids |-> f[i]])
  <2> HIDE DEF plane
  <2> QED BY Zenon
<1>10. planes \in Seq(A)
  <2> HIDE DEF A, f, planes
  <2>1. NumLids \in 0 .. NumLids /\ NumLids \in Nat
    BY <1>2
  <2>2. FlattenSeq(Prefix(f, NumLids)) \in Seq(A)
    <3>1. Grows(A, NumLids, f)
      BY <1>8, <2>1, FlattenPrefix, Zenon
    <3> QED BY <2>1, <3>1, Zenon DEF Grows
  <2> QED BY <1>9, <2>2 DEF Prefix
<1>11. Accesses(t, k) = IF \A l \in Lids : k[l] = 0 THEN <<header, header>>
                        ELSE <<header, header, header, unpred>> \o planes
  BY Zenon DEF Accesses
<1> HIDE DEF A, planes, header, unpred
<1>12. <<header, header>> \in Seq(A) /\ <<header, header, header, unpred>> \in Seq(A)
  BY <1>4
<1>13. <<header, header, header, unpred>> \o planes \in Seq(A)
  BY <1>10, <1>12, ConcatProperties
<1>14. Accesses(t, k) \in Seq(A)
  BY <1>11, <1>12, <1>13
<1> QED BY <1>14 DEF t, A

\* Any log the bounds allow is a log.
LEMMA AnythingType ==
  ASSUME NEW n
  PROVE  Anything(n) \subseteq Seq(AnyRange)
<1> SUFFICES ASSUME NEW l \in Anything(n) PROVE l \in Seq(AnyRange)
  OBVIOUS
<1>1. PICK m \in 0 .. n : l \in [1 .. m -> Ranges]
  BY DEF Anything, BoundedSeq, SeqOf
<1>2. Ranges \subseteq AnyRange
  BY StreamSizeAssumption DEF Ranges, AnyRange
<1>3. l \in [1 .. m -> AnyRange] /\ m \in Nat
  BY <1>1, <1>2
<1> QED BY <1>3, SeqDef

-----------------------------------------------------------------------------
(* The inductive invariant *)

TypeInv ==
  /\ codec \in {"any", "IPComp"} /\ full_size \in Nat
  /\ size \in [Lids -> [Plane -> Nat]] /\ kept \in [Lids -> 0 .. Planes]
  /\ pc \in {"logged", "shipped", "rebuilt", "accepted", "rejected", "refused"}
  /\ log \in Seq(AnyRange) /\ table \in Seq(AnyRange)

\* A bundle that was not refused has a tidy table, inside the stream, and the bytes
\* of its ranges.
Bundled ==
  pc \in {"shipped", "rebuilt", "accepted", "rejected"} =>
    Tidy(table) /\ InStream(table) /\ bytes = Packed(table)

\* The rebuilt stream has the bytes that were shipped in their places.
Restored ==
  pc \in {"rebuilt", "accepted", "rejected"} =>
    \A b \in BytesOf(table) : b \in 1 .. full_size /\ rebuilt[b] = b

\* What the verdict on a frame means.
Judged ==
  /\ pc = "accepted" => BytesOf(log) \subseteq BytesOf(table)
  /\ pc = "rejected" => \E b \in BytesOf(log) : b \notin BytesOf(table)

BundleInv == TypeInv /\ Bundled /\ Restored /\ Judged

\* It starts with a log to bundle and an empty table.
LEMMA InitBundle == Init => BundleInv
<1> SUFFICES ASSUME Init PROVE BundleInv
  OBVIOUS
<1>1. CASE codec = "any"
  <2>1. /\ full_size = StreamSize
        /\ size = [l \in Lids |-> Empty] /\ kept = [l \in Lids |-> 0]
        /\ \E first \in Anything(MaxLog) : LoggedInit(first)
    BY <1>1 DEF Init
  <2>2. size \in [Lids -> [Plane -> Nat]] /\ kept \in [Lids -> 0 .. Planes]
    BY <2>1, LayoutAssumption DEF Empty
  <2>3. pc = "logged" /\ table = <<>> /\ log \in Seq(AnyRange)
    BY <2>1, AnythingType DEF LoggedInit
  <2> QED BY <1>1, <2>1, <2>2, <2>3, StreamSizeAssumption
          DEF BundleInv, TypeInv, Bundled, Restored, Judged
<1>2. CASE codec # "any"
  <2>1. /\ codec = "IPComp"
        /\ size \in [Lids -> [Plane -> Sizes] \cup {Empty}]
        /\ kept \in [Lids -> 0 .. Planes]
        /\ full_size = Sum(lossless_size(size))
        /\ LoggedInit(Accesses(lossless_size(size), kept))
    BY <1>2 DEF Init
  <2>2. size \in [Lids -> [Plane -> Nat]]
    <3>1. [Plane -> Sizes] \cup {Empty} \subseteq [Plane -> Nat]
      <4>1. Sizes \subseteq Nat
        BY SizesAssumption
      <4>2. [Plane -> Sizes] \subseteq [Plane -> Nat] /\ Empty \in [Plane -> Nat]
        BY <4>1 DEF Empty
      <4> QED BY <4>2
    <3> QED BY <2>1, <3>1
  <2>3. full_size \in Nat
    BY <2>1, <2>2, TableType, StartType
  <2>4. pc = "logged" /\ table = <<>> /\ log \in Seq(AnyRange)
    BY <2>1, <2>2, AccessesType DEF LoggedInit
  <2> QED BY <2>1, <2>2, <2>3, <2>4 DEF BundleInv, TypeInv, Bundled, Restored, Judged
<1> QED BY <1>1, <1>2

\* The retrieve stage ships a tidy table with the bytes of its ranges.
LEMMA RetrieveStep ==
  ASSUME TypeInv, Retrieve
  PROVE  /\ pc' \in {"refused", "shipped"} /\ table' \in Seq(AnyRange) /\ log' = <<>>
         /\ full_size' = full_size
         /\ pc' = "shipped" =>
              /\ table' = merge_ranges(log) /\ Tidy(table') /\ InStream(table')
              /\ bytes' = Packed(table')
<1> DEFINE m == merge_ranges(log)
<1>1. m \in Seq(AnyRange) /\ Tidy(m)
  BY MergeCorrect DEF TypeInv
<1>2. \/ pc' = "refused" /\ table' = table
      \/ /\ ~\E r \in ToSet(m) : End(r) > full_size
         /\ pc' = "shipped" /\ table' = m /\ bytes' = Packed(m)
  BY DEF Retrieve
<1>3. log' = <<>> /\ full_size' = full_size /\ table \in Seq(AnyRange) /\ full_size \in Nat
  BY DEF Retrieve, TypeInv
<1>4. ASSUME ~\E r \in ToSet(m) : End(r) > full_size PROVE InStream(m)
  <2> HIDE DEF m
  <2> SUFFICES ASSUME NEW k \in 1 .. Len(m) PROVE End(m[k]) <= full_size
    BY DEF InStream
  <2>1. m[k] \in ToSet(m)
    BY <1>1, LenProperties DEF ToSet
  <2>2. m[k][1] \in Nat /\ m[k][2] \in Nat
    BY <1>1, ElementOfSeq DEF AnyRange
  <2>3. PICK x, y \in Nat : x = m[k][1] /\ y = m[k][2]
    BY <2>2
  <2>4. End(m[k]) = x + y
    BY <2>3 DEF End
  <2>5. ~(End(m[k]) > full_size)
    BY <1>4, <2>1, Zenon
  <2> QED BY <1>3, <2>4, <2>5
<1>5. CASE pc' = "refused" /\ table' = table
  BY <1>3, <1>5
<1>6. CASE /\ ~\E r \in ToSet(m) : End(r) > full_size
           /\ pc' = "shipped" /\ table' = m /\ bytes' = Packed(m)
  <2>1. InStream(m)
    BY <1>4, <1>6, Zenon
  <2> HIDE DEF m
  <2> QED BY <1>1, <1>3, <1>6, <2>1 DEF m
<1> QED BY <1>2, <1>5, <1>6

\* The reconstruct stage finds that the bundle fits, and puts every byte back.
LEMMA RebuildStep ==
  ASSUME TypeInv, Bundled, Rebuild
  PROVE  /\ pc' = "rebuilt"
         /\ \A b \in BytesOf(table) : b \in 1 .. full_size /\ rebuilt'[b] = b
<1> DEFINE m == table
           n == Len(m)
           range(b) == {k \in DOMAIN m : b \in m[k][1] + 1 .. End(m[k])}
<1>1. m \in Seq(AnyRange) /\ Tidy(m) /\ InStream(m) /\ bytes = Packed(m) /\ full_size \in Nat
  BY DEF TypeInv, Bundled, Rebuild
<1>2. /\ Len(bytes) = Offset(m, n + 1)
      /\ \A k \in 1 .. n, i \in Nat \ {0} : i <= m[k][2] => bytes[Offset(m, k) + i] = m[k][1] + i
  BY <1>1, PackedIs
<1>3. /\ n \in Nat /\ DOMAIN m = 1 .. n
      /\ \A k \in 1 .. n : m[k][1] \in Nat /\ m[k][2] \in Nat \ {0} /\ End(m[k]) = m[k][1] + m[k][2]
                           /\ End(m[k]) <= full_size
      /\ \A j, k \in 1 .. n : j < k => End(m[j]) < m[k][1]
  BY <1>1, LenProperties, TidyOrdered DEF InStream
<1>4. \A k : StartOf(k) = Offset(m, k)
  BY DEF StartOf, Offset
<1>5. ~(StartOf(n + 1) # Len(bytes) \/ \E r \in ToSet(m) : End(r) > full_size)
  <2>1. ASSUME NEW r \in ToSet(m) PROVE ~(End(r) > full_size)
    <3>1. PICK k \in 1 .. n : r = m[k]
      BY <1>3 DEF ToSet
    <3>2. PICK x, y, e : x = m[k][1] /\ y = m[k][2] /\ e = End(m[k])
      OBVIOUS
    <3>3. x \in Nat /\ y \in Nat /\ e = x + y /\ e <= full_size
      BY <1>3, <3>2, Zenon
    <3>4. ~(e > full_size)
      BY <1>1, <3>3
    <3> QED BY <3>1, <3>2, <3>4
  <2> QED BY <1>2, <1>4, <2>1
<1>6. /\ pc' = "rebuilt"
      /\ rebuilt' = [b \in 1 .. full_size |->
           IF range(b) = {} THEN 0
           ELSE LET k == CHOOSE k \in range(b) : \A j \in range(b) : j <= k
                IN  bytes[StartOf(k) + b - m[k][1]]]
  BY <1>5, Zenon DEF Rebuild
<1>7. ASSUME NEW b \in BytesOf(m) PROVE b \in 1 .. full_size /\ rebuilt'[b] = b
  <2>1. PICK k \in 1 .. n : b \in Span(m[k])
    BY <1>1, <1>7, BytesAre
  <2>2. PICK x, y, e : x = m[k][1] /\ y = m[k][2] /\ e = End(m[k])
    OBVIOUS
  <2>3. x \in Nat /\ y \in Nat \ {0} /\ e = x + y /\ e <= full_size
    BY <1>3, <2>2, Zenon
  <2>4. b \in x + 1 .. e
    BY <2>1, <2>2 DEF Span
  <2>5. b \in 1 .. full_size /\ b - x \in Nat \ {0} /\ b - x <= y /\ x + (b - x) = b
    BY <1>1, <2>3, <2>4
  <2>6. ASSUME NEW j \in range(b) PROVE j = k
    <3>1. j \in 1 .. n /\ b \in m[j][1] + 1 .. End(m[j])
      BY <1>3
    <3>2. PICK u, v, d : u = m[j][1] /\ v = m[j][2] /\ d = End(m[j])
      OBVIOUS
    <3>3. u \in Nat /\ v \in Nat \ {0} /\ d = u + v /\ b \in u + 1 .. d
      BY <1>3, <3>1, <3>2
    <3>4. (j < k => d < x) /\ (k < j => e < u)
      BY <1>3, <2>2, <3>1, <3>2
    <3> HIDE DEF n, range, m
    <3> QED BY <1>3, <2>1, <2>3, <2>4, <3>1, <3>3, <3>4
  <2>7. k \in range(b)
    BY <1>3, <2>1 DEF Span
  <2>8. range(b) = {k}
    <3> HIDE DEF range
    <3> QED BY <2>6, <2>7
  <2>9. (CHOOSE i \in range(b) : \A j \in range(b) : j <= i) = k
    <3> HIDE DEF range
    <3>1. k <= k
      BY <1>3
    <3> QED BY <2>8, <3>1
  <2>10. rebuilt'[b] = bytes[StartOf(k) + b - m[k][1]]
    <3> HIDE DEF range
    <3> QED BY <1>6, <2>5, <2>7, <2>9
  <2>11. bytes[Offset(m, k) + (b - x)] = x + (b - x)
    BY <1>2, <2>1, <2>2, <2>5
  <2>12. StartOf(k) + b - m[k][1] = Offset(m, k) + (b - x)
    BY <1>4, <2>2
  <2> QED BY <2>5, <2>10, <2>11, <2>12
<1> QED BY <1>6, <1>7

\* The verdict on the log of the second decode.
LEMMA Verdict ==
  ASSUME NEW m \in Seq(AnyRange), Tidy(m), NEW l \in Seq(AnyRange)
  PROVE  (\A r \in ToSet(merge_ranges(l)) : ranges_cover(m, r)) <=> BytesOf(l) \subseteq BytesOf(m)
<1> DEFINE g == merge_ranges(l)
           n == Len(m)
<1>1. g \in Seq(AnyRange) /\ Tidy(g) /\ BytesOf(g) = BytesOf(l)
  BY MergeCorrect
<1> HIDE DEF g
<1>2. /\ n \in Nat /\ DOMAIN m = 1 .. n
      /\ \A k \in 1 .. n : m[k][1] \in Nat /\ m[k][2] \in Nat \ {0} /\ End(m[k]) = m[k][1] + m[k][2]
      /\ \A j, k \in 1 .. n : j < k => End(m[j]) < m[k][1]
  BY LenProperties, TidyOrdered
<1>3. \A r \in ToSet(g) : r \in AnyRange /\ Span(r) \subseteq BytesOf(g)
  <2>1. DOMAIN g = 1 .. Len(g) /\ \A k \in 1 .. Len(g) : g[k] \in AnyRange
    BY <1>1, LenProperties, ElementOfSeq
  <2> QED BY <2>1 DEF ToSet, BytesOf, Span
<1>4. \A b \in BytesOf(g) : \E r \in ToSet(g) : b \in Span(r)
  BY DEF BytesOf, Span
<1>5. \A b : b \in BytesOf(m) <=> \E k \in 1 .. n : b \in Span(m[k])
  BY BytesAre
<1>6. \A s \in ToSet(m) : \E k \in 1 .. n : s = m[k]
  BY <1>2 DEF ToSet
<1>7. \A k \in 1 .. n : m[k] \in ToSet(m)
  BY <1>2 DEF ToSet
<1>8. ASSUME \A r \in ToSet(g) : ranges_cover(m, r), NEW b \in BytesOf(g)
      PROVE  b \in BytesOf(m)
  <2>1. PICK r \in ToSet(g) : b \in Span(r)
    BY <1>4
  <2>2. PICK x, y \in Nat : x = r[1] /\ y = r[2]
    BY <1>3 DEF AnyRange
  <2>3. End(r) = x + y /\ b \in x + 1 .. x + y
    BY <2>1, <2>2 DEF Span, End
  <2>4. ranges_cover(m, r) /\ r[2] # 0
    BY <1>8, <2>2, <2>3
  <2>5. PICK s \in ToSet(m) : s[1] <= r[1] /\ End(r) <= End(s)
    BY <2>4, Zenon DEF ranges_cover
  <2>6. PICK k \in 1 .. n : s = m[k]
    BY <1>6
  <2>7. PICK u, v, e : u = m[k][1] /\ v = m[k][2] /\ e = End(m[k])
    OBVIOUS
  <2>8. u \in Nat /\ v \in Nat /\ e = u + v /\ u <= x /\ x + y <= e
    BY <1>2, <2>2, <2>3, <2>5, <2>6, <2>7
  <2>9. b \in u + 1 .. e
    BY <2>3, <2>8
  <2>10. b \in Span(m[k])
    BY <2>7, <2>9 DEF Span
  <2> QED BY <1>5, <2>10
<1>9. ASSUME BytesOf(g) \subseteq BytesOf(m), NEW r \in ToSet(g)
      PROVE  ranges_cover(m, r)
  <2>1. PICK x, y \in Nat : x = r[1] /\ y = r[2]
    BY <1>3 DEF AnyRange
  <2>2. Span(r) = x + 1 .. x + y /\ End(r) = x + y
    BY <2>1 DEF Span, End
  <2>3. CASE y = 0
    BY <2>1, <2>3 DEF ranges_cover
  <2>4. CASE y # 0
    <3>1. x + 1 \in BytesOf(m)
      BY <1>3, <1>9, <2>2, <2>4
    <3>2. PICK k \in 1 .. n : x + 1 \in Span(m[k])
      BY <1>5, <3>1
    <3>3. PICK u, v, e : u = m[k][1] /\ v = m[k][2] /\ e = End(m[k])
      OBVIOUS
    <3>4. u \in Nat /\ v \in Nat \ {0} /\ e = u + v
      BY <1>2, <3>3
    <3>5. u + 1 <= x + 1 /\ x + 1 <= e
      BY <3>2, <3>3, <3>4 DEF Span
    <3>6. CASE x + y <= e
      <4>a. u <= x
        BY <3>4, <3>5
      <4>b. m[k][1] <= r[1] /\ End(r) <= End(m[k])
        BY <2>1, <2>2, <3>3, <3>6, <4>a, Zenon
      <4>1. m[k] \in ToSet(m) /\ m[k][1] <= r[1] /\ End(r) <= End(m[k])
        BY <1>7, <4>b, Zenon
      <4> QED BY <4>1, Zenon DEF ranges_cover
    <3>7. CASE ~(x + y <= e)
      <4>1. e + 1 \in x + 1 .. x + y
        BY <3>4, <3>5, <3>7
      <4>2. e + 1 \in BytesOf(m)
        BY <1>3, <1>9, <2>2, <4>1
      <4>3. PICK j \in 1 .. n : e + 1 \in Span(m[j])
        BY <1>5, <4>2
      <4>4. PICK p, q, d : p = m[j][1] /\ q = m[j][2] /\ d = End(m[j])
        OBVIOUS
      <4>5. p \in Nat /\ q \in Nat \ {0} /\ d = p + q
        BY <1>2, <4>4
      <4>6. p + 1 <= e + 1 /\ e + 1 <= d
        BY <3>4, <4>3, <4>4, <4>5 DEF Span
      <4>7. (j < k => d < u) /\ (k < j => e < p) /\ (j = k => d = e)
        BY <1>2, <3>3, <4>4
      <4>8. j \in Nat /\ k \in Nat
        BY <1>2
      <4> QED BY <3>4, <3>5, <4>5, <4>6, <4>7, <4>8
    <3> QED BY <3>6, <3>7
  <2> QED BY <2>3, <2>4
<1>10. (\A r \in ToSet(g) : ranges_cover(m, r)) <=> BytesOf(g) \subseteq BytesOf(m)
  BY <1>8, <1>9, Zenon
<1> QED BY <1>1, <1>10, Zenon DEF g

\* Retrieving, loading and rebuilding keep the invariant.
LEMMA NextBundle == BundleInv /\ [Next]_vars => BundleInv'
<1> SUFFICES ASSUME BundleInv, [Next]_vars PROVE BundleInv'
  OBVIOUS
<1>1. TypeInv /\ Bundled /\ Restored /\ Judged
  BY DEF BundleInv
<1>2. CASE Retrieve /\ UNCHANGED <<codec, size, kept>>
  <2>1. /\ pc' \in {"refused", "shipped"} /\ table' \in Seq(AnyRange) /\ log' = <<>>
        /\ full_size' = full_size
        /\ pc' = "shipped" => Tidy(table') /\ InStream(table') /\ bytes' = Packed(table')
    BY <1>1, <1>2, RetrieveStep
  <2>2. TypeInv'
    BY <1>1, <1>2, <2>1, EmptySeq DEF TypeInv
  <2>3. Bundled'
    BY <2>1 DEF Bundled, InStream, Packed, Stream
  <2> QED BY <2>1, <2>2, <2>3 DEF BundleInv, Restored, Judged
<1>3. CASE Rebuild /\ UNCHANGED <<codec, size, kept>>
  <2>1. pc' = "rebuilt" /\ \A b \in BytesOf(table) : b \in 1 .. full_size /\ rebuilt'[b] = b
    BY <1>1, <1>3, RebuildStep
  <2>2. UNCHANGED <<full_size, log, table, bytes>> /\ pc = "shipped"
    BY <1>3 DEF Rebuild
  <2>3. TypeInv'
    BY <1>1, <1>3, <2>1, <2>2 DEF TypeInv
  <2>4. Bundled'
    BY <1>1, <2>1, <2>2 DEF Bundled, InStream, Packed, Stream
  <2>5. Restored'
    BY <2>1, <2>2 DEF Restored, BytesOf
  <2> QED BY <2>1, <2>3, <2>4, <2>5 DEF BundleInv, Judged
<1>4. CASE Reconstruct(SecondLogs) /\ UNCHANGED <<codec, size, kept>>
  <2>1. /\ pc = "rebuilt" /\ UNCHANGED <<full_size, table, bytes, rebuilt>>
        /\ log' \in SecondLogs
        /\ pc' = IF \A r \in ToSet(merge_ranges(log')) : ranges_cover(table, r)
                   THEN "accepted" ELSE "rejected"
    BY <1>4 DEF Reconstruct
  <2>2. log' \in Seq(AnyRange)
    <3>1. Accesses(lossless_size(size), kept) \in Seq(AnyRange)
      BY <1>1, AccessesType DEF TypeInv
    <3>2. Anything(MaxLog - 1) \subseteq Seq(AnyRange)
      BY AnythingType
    <3> QED BY <2>1, <3>1, <3>2 DEF SecondLogs
  <2>3. table \in Seq(AnyRange) /\ Tidy(table)
    BY <1>1, <2>1 DEF TypeInv, Bundled
  <2>4. (\A r \in ToSet(merge_ranges(log')) : ranges_cover(table, r))
          <=> BytesOf(log') \subseteq BytesOf(table)
    BY <2>2, <2>3, Verdict
  <2>5. TypeInv'
    BY <1>1, <1>4, <2>1, <2>2 DEF TypeInv
  <2>6. Bundled' /\ Restored'
    BY <1>1, <2>1 DEF Bundled, InStream, Packed, Stream, Restored, BytesOf
  <2>7. Judged'
    <3>1. BytesOf(table') = BytesOf(table)
      BY <2>1
    <3> QED BY <2>1, <2>4, <3>1 DEF Judged, BytesOf
  <2> QED BY <2>5, <2>6, <2>7 DEF BundleInv
<1>5. CASE UNCHANGED vars
  <2>1. UNCHANGED <<full_size, pc, log, table, bytes, rebuilt, codec, size, kept>>
    BY <1>5 DEF vars, bundleVars
  <2>2. TypeInv'
    BY <1>1, <2>1 DEF TypeInv
  <2>3. Bundled' /\ Restored' /\ Judged'
    BY <1>1, <2>1 DEF Bundled, InStream, Packed, Stream, Restored, Judged, BytesOf
  <2> QED BY <2>2, <2>3 DEF BundleInv
<1> QED BY <1>2, <1>3, <1>4, <1>5 DEF Next

\* Every bundle and every verdict is sound, for streams, logs and layouts of any size.
THEOREM BundleInvariant == Spec => []BundleInv
<1>1. Init => BundleInv
  BY InitBundle
<1>2. BundleInv /\ [Next]_vars => BundleInv'
  BY NextBundle
<1> QED BY <1>1, <1>2, PTL DEF Spec

-----------------------------------------------------------------------------
(* The properties *)

\* An accepted frame was decoded from bytes of the original stream: ranges_cover()
\* lets no read of an unshipped byte pass, and reconstruct_frame() has put every
\* shipped byte in its place.
THEOREM AcceptedIsFaithful == Spec => []NoSilentZeros
<1>1. BundleInv => NoSilentZeros
  BY DEF BundleInv, Restored, Judged, NoSilentZeros, Stream
<1> QED BY <1>1, BundleInvariant, PTL

\* A rejected frame read a byte that was not shipped: ranges_cover(), which looks
\* for one shipped range around each merged one, misses none, because the shipped
\* ranges have gaps between them.
THEOREM RejectedReadMore == Spec => []NoFalseAlarm
<1>1. BundleInv => NoFalseAlarm
  BY DEF BundleInv, Judged, NoFalseAlarm
<1> QED BY <1>1, BundleInvariant, PTL

\* touched_ranges() and the packing ship each byte the codec touched exactly once
\* and no other.
THEOREM BundleIsExact == Spec => ShipsWhatWasRead
<1>1. BundleInv /\ [Next]_vars =>
        [pc = "logged" /\ pc' = "shipped" =>
           /\ BytesOf(table') = BytesOf(log)
           /\ Len(bytes') = Cardinality(BytesOf(log))
           /\ \A k \in 1 .. Len(table') - 1 : End(table'[k]) < table'[k + 1][1]]_bundleVars
  <2> SUFFICES ASSUME BundleInv, [Next]_vars, pc = "logged", pc' = "shipped"
               PROVE  /\ BytesOf(table') = BytesOf(log)
                      /\ Len(bytes') = Cardinality(BytesOf(log))
                      /\ \A k \in 1 .. Len(table') - 1 : End(table'[k]) < table'[k + 1][1]
    BY Zenon
  <2>1. TypeInv /\ log \in Seq(AnyRange) /\ full_size \in Nat
    BY DEF BundleInv, TypeInv
  <2>2. Retrieve
    BY DEF Next, Rebuild, Reconstruct, vars, bundleVars
  <2>3. PICK m : m = merge_ranges(log)
    OBVIOUS
  <2>4. /\ m \in Seq(AnyRange) /\ Tidy(m) /\ InStream(m)
        /\ table' = m /\ bytes' = Packed(m) /\ full_size' = full_size
    <3>1. /\ table' = m /\ Tidy(table') /\ InStream(table') /\ bytes' = Packed(table')
          /\ table' \in Seq(AnyRange) /\ full_size' = full_size
      BY <2>1, <2>2, <2>3, RetrieveStep
    <3> QED BY <3>1
  <2>5. BytesOf(m) = BytesOf(log)
    BY <2>1, <2>3, MergeCorrect
  <2>6. Cardinality(BytesOf(m)) = Len(Packed(m))
    BY <2>1, <2>4, PackedIs
  <2>7. \A k \in 1 .. Len(m) - 1 : End(m[k]) < m[k + 1][1]
    BY <2>4 DEF Tidy
  <2> QED BY <2>4, <2>5, <2>6, <2>7
<1> QED BY <1>1, BundleInvariant, PTL DEF Spec, ShipsWhatWasRead

\* A bundle that retrieve packed passes the checks of reconstruct_frame().
THEOREM BundlesFit == Spec => BundleRebuilds
<1>1. BundleInv /\ [Next]_vars => [pc = "shipped" => pc' = "rebuilt"]_bundleVars
  <2> SUFFICES ASSUME BundleInv, [Next]_vars, pc = "shipped", bundleVars' # bundleVars
               PROVE  pc' = "rebuilt"
    BY Zenon
  <2>1. Rebuild
    BY DEF Next, Retrieve, Reconstruct, vars
  <2> QED BY <2>1, RebuildStep DEF BundleInv
<1> QED BY <1>1, BundleInvariant, PTL DEF Spec, BundleRebuilds

-----------------------------------------------------------------------------
(* The bytes of a size table *)

\* The bytes of entry i of a size table, and of some entries.
Extent(t, i)   == Start(t, i) + 1 .. Start(t, i + 1)
Extents(t, I) == UNION {Extent(t, i) : i \in I}

\* An entry starts where the one before it ends.
LEMMA StartStep ==
  ASSUME NEW t \in Seq(Nat)
  PROVE  /\ Start(t, 1) = 0
         /\ \A i \in 1 .. Len(t) : t[i] \in Nat /\ Start(t, i) \in Nat
         /\ \A i \in 1 .. Len(t) : Start(t, i + 1) = Start(t, i) + t[i]
         /\ Start(t, Len(t) + 1) = Sum(t)
<1>1. PICK n \in Nat : n = Len(t) /\ DOMAIN t = 1 .. n /\ \A i \in 1 .. n : t[i] \in Nat
  BY LenProperties, ElementOfSeq
<1>2. ASSUME NEW i \in 1 .. n + 1 PROVE Start(t, i) = SumFunctionOnSet(t, 1 .. i - 1)
  <2> DEFINE u == SubSeq(t, 1, i - 1)
  <2>1. u \in Seq(Nat) /\ Len(u) = i - 1 /\ \A j \in 1 .. i - 1 : u[j] = t[j]
    <3>1. 1 \in Int /\ i - 1 \in Int /\ \A j \in 1 .. i - 1 : t[j] \in Nat
      BY <1>1
    <3>2. /\ u \in Seq(Nat) /\ Len(u) = IF 1 <= i - 1 THEN (i - 1) - 1 + 1 ELSE 0
          /\ \A j \in 1 .. (i - 1) - 1 + 1 : u[j] = t[1 + j - 1]
      BY <3>1, SubSeqProperties
    <3> HIDE DEF u
    <3>3. Len(u) = i - 1
      BY <1>1, <3>2
    <3>4. \A j \in 1 .. i - 1 : j \in 1 .. (i - 1) - 1 + 1 /\ 1 + j - 1 = j
      BY <1>1
    <3> QED BY <3>2, <3>3, <3>4
  <2> HIDE DEF u
  <2>2. DOMAIN u = 1 .. i - 1
    BY <2>1, LenProperties
  <2>3. IsFiniteSet(1 .. i - 1)
    <3>1. 1 \in Int /\ i - 1 \in Int
      BY <1>1
    <3> QED BY <3>1, FS_Interval
  <2>4. \A j \in 1 .. i - 1 : t[j] \in Int /\ u[j] = t[j]
    BY <1>1, <2>1
  <2>5. SumFunctionOnSet(u, 1 .. i - 1) = SumFunctionOnSet(t, 1 .. i - 1)
    BY <2>3, <2>4, SumAlike
  <2> QED BY <2>2, <2>5 DEF u, Start, Sum, SumFunction
<1>3. SumFunctionOnSet(t, {}) = 0
  BY FS_EmptySet, SumByChoice
<1>4. Start(t, 1) = 0
  <2>1. 1 \in 1 .. n + 1 /\ 1 .. 1 - 1 = {}
    BY <1>1
  <2> QED BY <1>2, <1>3, <2>1
<1>5. ASSUME NEW i \in 1 .. n
      PROVE  Start(t, i) \in Nat /\ Start(t, i + 1) = Start(t, i) + t[i]
  <2>1. i \in 1 .. n + 1 /\ i + 1 \in 1 .. n + 1 /\ i \in Nat
    BY <1>1
  <2>2. Start(t, i) \in Nat
    BY <1>1, <2>1, StartType
  <2>3. i \notin 1 .. i - 1 /\ 1 .. (i + 1) - 1 = {i} \cup (1 .. i - 1)
    BY <1>1
  <2>4. IsFiniteSet(1 .. i - 1)
    <3>1. 1 \in Int /\ i - 1 \in Int
      BY <1>1
    <3> QED BY <3>1, FS_Interval
  <2>5. t[i] \in Int /\ \A j \in 1 .. i - 1 : t[j] \in Int
    BY <1>1
  <2>6. SumFunctionOnSet(t, {i} \cup (1 .. i - 1)) = t[i] + SumFunctionOnSet(t, 1 .. i - 1)
    BY <2>3, <2>4, <2>5, SumAdd
  <2>7. Start(t, i + 1) = t[i] + Start(t, i)
    BY <1>2, <2>1, <2>3, <2>6
  <2> QED BY <1>1, <2>2, <2>7
<1>6. Start(t, n + 1) = Sum(t)
  <2>1. n + 1 \in 1 .. n + 1 /\ (n + 1) - 1 = n
    BY <1>1
  <2> QED BY <1>1, <1>2, <2>1 DEF Sum, SumFunction
<1> QED BY <1>1, <1>4, <1>5, <1>6

\* A later entry starts no earlier.
LEMMA StartOrder ==
  ASSUME NEW t \in Seq(Nat)
  PROVE  \A i, j \in 1 .. Len(t) + 1 : i <= j =>
           Start(t, i) \in Nat /\ Start(t, j) \in Nat /\ Start(t, i) <= Start(t, j)
<1>1. PICK n \in Nat : n = Len(t)
  BY LenProperties
<1>2. \A i \in 1 .. n + 1 : Start(t, i) \in Nat
  BY <1>1, StartType
<1>3. \A i \in 1 .. n : t[i] \in Nat /\ Start(t, i + 1) = Start(t, i) + t[i]
  BY <1>1, StartStep
<1> DEFINE D == {d \in Nat : \A i \in 1 .. n + 1 : i + d <= n + 1 => Start(t, i) <= Start(t, i + d)}
<1>4. 0 \in D
  <2>1. \A i \in 1 .. n + 1 : i + 0 = i
    BY <1>1
  <2> QED BY <1>2, <2>1
<1>5. ASSUME NEW d \in Nat, d \in D PROVE d + 1 \in D
  <2> SUFFICES ASSUME NEW i \in 1 .. n + 1, i + (d + 1) <= n + 1
               PROVE  Start(t, i) <= Start(t, i + (d + 1))
    OBVIOUS
  <2>1. i + d \in 1 .. n /\ i + d \in 1 .. n + 1 /\ i + (d + 1) = (i + d) + 1 /\ i + d <= n + 1
    BY <1>1
  <2>2. Start(t, i) <= Start(t, i + d)
    BY <1>5, <2>1
  <2>3. Start(t, (i + d) + 1) = Start(t, i + d) + t[i + d] /\ t[i + d] \in Nat
    BY <1>3, <2>1
  <2>4. Start(t, i) \in Nat /\ Start(t, i + d) \in Nat
    BY <1>2, <2>1
  <2> HIDE DEF D
  <2> QED BY <2>1, <2>2, <2>3, <2>4
<1> HIDE DEF D
<1>6. Nat \subseteq D
  BY <1>4, <1>5, SetInduction
<1>7. ASSUME NEW i \in 1 .. n + 1, NEW j \in 1 .. n + 1, i <= j
      PROVE  Start(t, i) <= Start(t, j)
  <2>1. PICK d \in Nat : d = j - i /\ i + d = j /\ i + d <= n + 1
    BY <1>1, <1>7
  <2>2. d \in D
    BY <1>6
  <2> QED BY <2>1, <2>2 DEF D
<1> QED BY <1>1, <1>2, <1>7

\* The entries of a table share no byte, and none has a byte outside the stream.
LEMMA ExtentsApart ==
  ASSUME NEW t \in Seq(Nat)
  PROVE  /\ \A i \in 1 .. Len(t) : Extent(t, i) \subseteq 1 .. Sum(t)
         /\ \A i \in 1 .. Len(t) : IsFiniteSet(Extent(t, i)) /\ Cardinality(Extent(t, i)) = t[i]
         /\ \A i, j \in 1 .. Len(t) : i # j => Extent(t, i) \cap Extent(t, j) = {}
<1>1. PICK n \in Nat : n = Len(t)
  BY LenProperties
<1>2. /\ \A i \in 1 .. n : t[i] \in Nat /\ Start(t, i + 1) = Start(t, i) + t[i]
      /\ Start(t, n + 1) = Sum(t)
  BY <1>1, StartStep
<1>3. \A i, j \in 1 .. n + 1 : i <= j =>
        Start(t, i) \in Nat /\ Start(t, j) \in Nat /\ Start(t, i) <= Start(t, j)
  BY <1>1, StartOrder
<1>4. ASSUME NEW i \in 1 .. n
      PROVE  Extent(t, i) \subseteq 1 .. Sum(t) /\ IsFiniteSet(Extent(t, i)) /\ Cardinality(Extent(t, i)) = t[i]
  <2>1. i \in 1 .. n + 1 /\ i + 1 \in 1 .. n + 1 /\ i + 1 <= n + 1 /\ n + 1 \in 1 .. n + 1 /\ i <= i + 1
    BY <1>1
  <2>2. PICK a \in Nat, b \in Nat, c \in Nat :
          a = Start(t, i) /\ b = Start(t, i + 1) /\ c = Sum(t) /\ a <= b /\ b <= c /\ b = a + t[i]
    <3>1. Start(t, i) \in Nat /\ Start(t, i + 1) \in Nat /\ Start(t, i) <= Start(t, i + 1)
      BY <1>3, <2>1
    <3>2. Start(t, n + 1) \in Nat /\ Start(t, i + 1) <= Start(t, n + 1)
      BY <1>3, <2>1
    <3> QED BY <1>2, <3>1, <3>2
  <2>3. Extent(t, i) = a + 1 .. b
    BY <2>2 DEF Extent
  <2>4. a + 1 \in Int /\ b \in Int
    BY <2>2
  <2>5. IsFiniteSet(a + 1 .. b) /\ Cardinality(a + 1 .. b) = IF a + 1 > b THEN 0 ELSE b - (a + 1) + 1
    BY <2>4, FS_Interval
  <2>6. (IF a + 1 > b THEN 0 ELSE b - (a + 1) + 1) = t[i]
    <3>1. PICK d : d = t[i]
      OBVIOUS
    <3>2. d \in Nat /\ b = a + d
      BY <1>2, <2>2, <3>1
    <3>3. (IF a + 1 > b THEN 0 ELSE b - (a + 1) + 1) = d
      BY <3>2
    <3> QED BY <3>1, <3>3, Zenon
  <2>7. a + 1 .. b \subseteq 1 .. c
    BY <2>2
  <2> QED BY <2>2, <2>3, <2>5, <2>6, <2>7
<1>5. ASSUME NEW i \in 1 .. n, NEW j \in 1 .. n, i < j
      PROVE  Extent(t, i) \cap Extent(t, j) = {}
  <2>1. i + 1 \in 1 .. n + 1 /\ j \in 1 .. n + 1 /\ i + 1 <= j
    BY <1>5
  <2>2. Start(t, i + 1) \in Nat /\ Start(t, j) \in Nat /\ Start(t, i + 1) <= Start(t, j)
    BY <1>3, <2>1
  <2>3. ASSUME NEW b \in Extent(t, i), b \in Extent(t, j) PROVE FALSE
    <3>1. PICK x \in Nat, y \in Nat : x = Start(t, i + 1) /\ y = Start(t, j) /\ x <= y
      BY <2>2
    <3>2. b \in Int /\ b <= x /\ b >= y + 1
      BY <2>3, <3>1 DEF Extent
    <3> QED BY <3>1, <3>2
  <2> QED BY <2>3
<1>6. ASSUME NEW i \in 1 .. n, NEW j \in 1 .. n, i # j
      PROVE  Extent(t, i) \cap Extent(t, j) = {}
  <2>1. i < j \/ j < i
    BY <1>6
  <2>2. Extent(t, j) \cap Extent(t, i) = Extent(t, i) \cap Extent(t, j)
    OBVIOUS
  <2> QED BY <1>5, <2>1, <2>2
<1> QED BY <1>1, <1>4, <1>6

\* m entries that are not in I, none of them twice.
Fresh(t, I, m, g) ==
  /\ \A b \in 1 .. m : g[b] \in 1 .. Len(t) /\ g[b] \notin I
  /\ \A a, b \in 1 .. m : a # b => g[a] # g[b]

\* They bring as many more bytes as their sizes add up to.
Brings(t, I, m, g) ==
  Cardinality(Extents(t, I \cup {g[b] : b \in 1 .. m}))
    = Cardinality(Extents(t, I)) + SumFunctionOnSet([b \in 1 .. m |-> t[g[b]]], 1 .. m)

\* As many more bytes as the sizes of more entries add up to.
LEMMA MoreExtents ==
  ASSUME NEW t \in Seq(Nat), NEW I \in SUBSET (1 .. Len(t)), NEW m \in Nat,
         NEW g, Fresh(t, I, m, g)
  PROVE  Brings(t, I, m, g)
<1> DEFINE n == Len(t)
           J(k) == I \cup {g[b] : b \in 1 .. k}
           w == [b \in 1 .. m |-> t[g[b]]]
           W(k) == SumFunctionOnSet(w, 1 .. k)
           c == Cardinality(Extents(t, I))
           K == {k \in Nat : k <= m => Cardinality(Extents(t, J(k))) = c + W(k) /\ W(k) \in Int}
<1>1. /\ \A i \in 1 .. n : Extent(t, i) \subseteq 1 .. Sum(t)
      /\ \A i \in 1 .. n : IsFiniteSet(Extent(t, i)) /\ Cardinality(Extent(t, i)) = t[i]
      /\ \A i, j \in 1 .. n : i # j => Extent(t, i) \cap Extent(t, j) = {}
  BY ExtentsApart
<1>2. ASSUME NEW H \in SUBSET (1 .. n) PROVE IsFiniteSet(Extents(t, H))
  <2>1. Sum(t) \in Nat /\ 1 \in Int
    BY StartType
  <2>2. IsFiniteSet(1 .. Sum(t))
    BY <2>1, FS_Interval
  <2>3. Extents(t, H) \subseteq 1 .. Sum(t)
    BY <1>1 DEF Extents
  <2> QED BY <2>2, <2>3, FS_Subset
<1>0. /\ \A b \in 1 .. m : g[b] \in 1 .. n /\ g[b] \notin I
      /\ \A a, b \in 1 .. m : a # b => g[a] # g[b]
  BY DEF Fresh
<1>3. c \in Nat
  BY <1>2, FS_CardinalityType
<1>4. \A b \in 1 .. m : w[b] = t[g[b]] /\ w[b] \in Int
  <2>1. \A b \in 1 .. m : t[g[b]] \in Nat
    BY <1>0, ElementOfSeq
  <2> QED BY <2>1
<1>5. 0 \in K
  <2>1. 1 .. 0 = {}
    OBVIOUS
  <2>2. W(0) = 0
    <3>1. SumFunctionOnSet(w, {}) = 0
      <4> HIDE DEF w
      <4> QED BY FS_EmptySet, SumByChoice
    <3> HIDE DEF w
    <3> QED BY <2>1, <3>1
  <2>3. J(0) = I
    BY <2>1
  <2> HIDE DEF J, W, c
  <2>4. c + 0 = c
    BY <1>3
  <2> QED BY <2>2, <2>3, <2>4 DEF c
<1>6. ASSUME NEW k \in Nat, k \in K PROVE k + 1 \in K
  <2> SUFFICES ASSUME k + 1 <= m
               PROVE  Cardinality(Extents(t, J(k + 1))) = c + W(k + 1) /\ W(k + 1) \in Int
    OBVIOUS
  <2>1. k <= m /\ k + 1 \in 1 .. m /\ \A b \in 1 .. k : b \in 1 .. m /\ b # k + 1
    OBVIOUS
  <2>2. Cardinality(Extents(t, J(k))) = c + W(k) /\ W(k) \in Int
    BY <1>6, <2>1
  <2>3. PICK e : e = g[k + 1]
    OBVIOUS
  <2>4. e \in 1 .. n /\ e \notin J(k) /\ J(k) \in SUBSET (1 .. n)
    <3>1. \A b \in 1 .. k : g[b] # e /\ g[b] \in 1 .. n
      BY <1>0, <2>1, <2>3
    <3>2. e \in 1 .. n /\ e \notin I
      BY <1>0, <2>1, <2>3
    <3> QED BY <3>1, <3>2
  <2>5. J(k + 1) = J(k) \cup {e}
    <3>1. \A b : b \in 1 .. k + 1 <=> b \in 1 .. k \/ b = k + 1
      OBVIOUS
    <3> QED BY <2>3, <3>1
  <2> HIDE DEF J, K, n
  <2>6. Extents(t, J(k + 1)) = Extents(t, J(k)) \cup Extent(t, e)
    BY <2>5 DEF Extents
  <2>7. Extents(t, J(k)) \cap Extent(t, e) = {}
    <3>1. \A i \in J(k) : Extent(t, i) \cap Extent(t, e) = {}
      BY <1>1, <2>4
    <3> QED BY <3>1 DEF Extents
  <2>8. IsFiniteSet(Extents(t, J(k))) /\ IsFiniteSet(Extent(t, e)) /\ Cardinality(Extent(t, e)) = t[e]
    BY <1>1, <1>2, <2>4
  <2>9. Cardinality(Extents(t, J(k)) \cup Extent(t, e))
          = Cardinality(Extents(t, J(k))) + Cardinality(Extent(t, e))
              - Cardinality(Extents(t, J(k)) \cap Extent(t, e))
    BY <2>8, FS_Union
  <2>10. Cardinality(Extents(t, J(k)) \cap Extent(t, e)) = 0
    BY <2>7, FS_EmptySet
  <2>11. W(k + 1) = w[k + 1] + W(k)
    <3>1. 1 \in Int /\ k \in Int
      OBVIOUS
    <3>2. IsFiniteSet(1 .. k)
      BY <3>1, FS_Interval
    <3>3. k + 1 \notin 1 .. k /\ 1 .. k + 1 = {k + 1} \cup (1 .. k)
      OBVIOUS
    <3>4. w[k + 1] \in Int /\ \A b \in 1 .. k : w[b] \in Int
      BY <1>4, <2>1
    <3> HIDE DEF w
    <3> QED BY <3>2, <3>3, <3>4, SumAdd
  <2>12. w[k + 1] = t[e] /\ t[e] \in Int
    BY <1>4, <2>1, <2>3
  <2> HIDE DEF W, c, w
  <2>13. PICK a \in Int, b \in Int : a = W(k) /\ b = t[e]
    BY <2>2, <2>12
  <2>14. Cardinality(Extents(t, J(k + 1))) = (c + a) + b - 0
    BY <2>2, <2>6, <2>8, <2>9, <2>10, <2>13
  <2>15. W(k + 1) = b + a
    BY <2>11, <2>12, <2>13
  <2> QED BY <1>3, <2>14, <2>15
<1> HIDE DEF K
<1>7. Nat \subseteq K
  BY <1>5, <1>6, SetInduction
<1>8. m \in K /\ m <= m
  BY <1>7
<1>9. Cardinality(Extents(t, J(m))) = c + W(m)
  BY <1>8 DEF K
<1> QED BY <1>9 DEF Brings

-----------------------------------------------------------------------------
(* The entries of a size table *)

LastEntry == (1 + NumLids * Planes) + 1
IsSizeTable(t) == t \in Seq(Nat) /\ Len(t) = LastEntry

\* The planes of the stages follow one another between the header and the last block.
LEMMA EntryIs ==
  /\ NumLids \in Nat \ {0} /\ Planes \in Nat \ {0}
  /\ LastEntry \in Nat /\ LastEntry > 2
  /\ \A l \in Lids, k \in 0 .. Planes - 1 : Entry(l, k) \in 2 .. LastEntry - 1
  /\ \A l \in Lids, k \in 0 .. Planes : Entry(l, k) \in 2 .. LastEntry
  /\ \A l \in Lids, k \in 0 .. Planes : Entry(l, k) = Entry(l, 0) + k
  /\ \A l, m \in Lids : l < m => Entry(l, Planes) <= Entry(m, 0)
<1>1. NumLids \in Nat \ {0} /\ Planes \in Nat \ {0}
  BY LayoutAssumption
<1>2. PICK x \in Nat : x = NumLids * Planes /\ x > 0
  <2>1. NumLids * Planes \in Nat
    BY <1>1
  <2>2. NumLids * Planes >= Planes
    <3>1. PICK d \in Nat : NumLids = 1 + d
      <4>1. NumLids - 1 \in Nat /\ NumLids = 1 + (NumLids - 1)
        BY <1>1
      <4> QED BY <4>1
    <3>2. NumLids * Planes = Planes + d * Planes /\ d * Planes \in Nat
      BY <1>1, <3>1
    <3> QED BY <1>1, <3>2
  <2> QED BY <1>1, <2>1, <2>2
<1>3. LastEntry = x + 2
  BY <1>2 DEF LastEntry
<1>4. ASSUME NEW l \in Lids
      PROVE  /\ l * Planes \in Nat /\ l * Planes + Planes <= x
  <2>1. l \in Nat /\ NumLids - (l + 1) \in Nat
    BY <1>1 DEF Lids
  <2>2. PICK d \in Nat : NumLids = (l + 1) + d
    <3>1. NumLids = (l + 1) + (NumLids - (l + 1))
      BY <1>1, <2>1
    <3> QED BY <2>1, <3>1
  <2>3. NumLids * Planes = (l * Planes + Planes) + d * Planes
    BY <1>1, <2>1, <2>2
  <2>4. l * Planes \in Nat /\ d * Planes \in Nat
    BY <1>1, <2>1, <2>2
  <2>5. PICK y \in Nat, z \in Nat : y = l * Planes /\ z = d * Planes
    BY <2>4
  <2> QED BY <1>1, <1>2, <2>3, <2>5
<1>5. ASSUME NEW l \in Lids, NEW k \in 0 .. Planes
      PROVE  Entry(l, k) \in 2 .. LastEntry /\ Entry(l, k) = Entry(l, 0) + k
             /\ (k <= Planes - 1 => Entry(l, k) <= LastEntry - 1)
  <2>1. PICK y \in Nat : y = l * Planes /\ y + Planes <= x
    BY <1>4
  <2>2. Entry(l, k) = (2 + y) + k /\ Entry(l, 0) = (2 + y) + 0
    BY <2>1 DEF Entry
  <2> QED BY <1>1, <1>2, <1>3, <2>1, <2>2
<1>6. ASSUME NEW l \in Lids, NEW m \in Lids, l < m
      PROVE  Entry(l, Planes) <= Entry(m, 0)
  <2>1. l \in Nat /\ m - (l + 1) \in Nat /\ m = (l + 1) + (m - (l + 1))
    BY <1>1, <1>6 DEF Lids
  <2>2. PICK d \in Nat : m = (l + 1) + d
    BY <2>1
  <2>3. m * Planes = (l * Planes + Planes) + d * Planes
    BY <1>1, <2>1, <2>2
  <2>4. PICK y \in Nat, z \in Nat : y = l * Planes /\ z = d * Planes
    BY <1>1, <2>1
  <2>5. Entry(l, Planes) = (2 + y) + Planes /\ Entry(m, 0) = (2 + ((y + Planes) + z)) + 0
    BY <2>3, <2>4 DEF Entry
  <2> QED BY <1>1, <2>4, <2>5
<1>7. \A l \in Lids, k \in 0 .. Planes - 1 : k \in 0 .. Planes /\ Entry(l, k) \in 2 .. LastEntry - 1
  <2> SUFFICES ASSUME NEW l \in Lids, NEW k \in 0 .. Planes - 1
               PROVE  k \in 0 .. Planes /\ Entry(l, k) \in 2 .. LastEntry - 1
    OBVIOUS
  <2>1. k \in 0 .. Planes /\ k <= Planes - 1
    BY <1>1
  <2>2. Entry(l, k) \in 2 .. LastEntry /\ Entry(l, k) <= LastEntry - 1
    BY <1>5, <2>1
  <2> QED BY <1>3, <2>1, <2>2
<1> QED BY <1>1, <1>2, <1>3, <1>5, <1>6, <1>7

\* No two planes share an entry.
LEMMA EntriesDiffer ==
  \A l, m \in Lids, j, k \in 0 .. Planes - 1 : Entry(l, j) = Entry(m, k) => l = m /\ j = k
<1> SUFFICES ASSUME NEW l \in Lids, NEW m \in Lids, NEW j \in 0 .. Planes - 1,
                    NEW k \in 0 .. Planes - 1, Entry(l, j) = Entry(m, k)
             PROVE  l = m /\ j = k
  OBVIOUS
<1>1. Planes \in Nat \ {0} /\ l \in Int /\ m \in Int
  BY EntryIs DEF Lids
<1>2. ASSUME NEW a \in Lids, NEW b \in Lids, NEW p \in 0 .. Planes - 1, NEW q \in 0 .. Planes - 1,
             a < b
      PROVE  Entry(a, p) # Entry(b, q)
  <2>1. p \in 0 .. Planes /\ q \in 0 .. Planes /\ Planes \in 0 .. Planes /\ 0 \in 0 .. Planes
    BY <1>1
  <2>2. /\ Entry(a, p) = Entry(a, 0) + p /\ Entry(a, Planes) = Entry(a, 0) + Planes
        /\ Entry(b, q) = Entry(b, 0) + q
    BY <2>1, EntryIs
  <2>3. Entry(a, 0) \in Int /\ Entry(b, 0) \in Int /\ Entry(a, Planes) <= Entry(b, 0)
    <3>1. Entry(a, 0) \in 2 .. LastEntry /\ Entry(b, 0) \in 2 .. LastEntry
      BY <2>1, EntryIs
    <3>2. Entry(a, Planes) <= Entry(b, 0)
      BY <1>2, EntryIs
    <3> QED BY <3>1, <3>2
  <2>4. PICK x \in Int, y \in Int : x = Entry(a, 0) /\ y = Entry(b, 0)
    BY <2>3
  <2> QED BY <1>1, <2>1, <2>2, <2>3, <2>4
<1>3. l = m
  <2>1. l < m \/ m < l \/ l = m
    BY <1>1
  <2> QED BY <1>2, <2>1
<1>4. j = k
  <2>1. j \in 0 .. Planes /\ k \in 0 .. Planes /\ 0 \in 0 .. Planes
    BY <1>1
  <2>2. Entry(l, j) = Entry(l, 0) + j /\ Entry(l, k) = Entry(l, 0) + k /\ Entry(l, 0) \in 2 .. LastEntry
    BY <2>1, EntryIs
  <2>3. PICK x \in Int : x = Entry(l, 0)
    BY <2>2
  <2> QED BY <1>3, <2>1, <2>2, <2>3
<1> QED BY <1>3, <1>4

\* The entries of the planes a stage keeps, and those that a selection reads.
KeptEntries(l, m) == {Entry(l, Planes - b) : b \in 1 .. m}
ReadEntries(k) ==
  IF \A l \in Lids : k[l] = 0 THEN {1}
  ELSE {1, LastEntry} \cup UNION {KeptEntries(l, k[l]) : l \in Lids}

\* Where the decoder looks for a plane is where the stream has it.
LEMMA PlaneIs ==
  ASSUME NEW t, IsSizeTable(t), NEW l \in Lids, NEW b \in 1 .. Planes
  PROVE  /\ Entry(l, Planes - b) \in 2 .. LastEntry - 1
         /\ data_lb(t, l, b - 1) = <<Start(t, Entry(l, Planes - b)), t[Entry(l, Planes - b)]>>
         /\ data_lb(t, l, b - 1) \in AnyRange
         /\ Span(data_lb(t, l, b - 1)) = Extent(t, Entry(l, Planes - b))
<1>1. Planes \in Nat \ {0} /\ LastEntry \in Nat /\ LastEntry > 2
  BY EntryIs
<1>2. PICK e : e = Entry(l, Planes - b)
  OBVIOUS
<1>3. e \in 2 .. LastEntry - 1
  <2>1. Planes - b \in 0 .. Planes - 1
    BY <1>1
  <2> QED BY <1>2, <2>1, EntryIs
<1>4. (Planes - 1) - (b - 1) = Planes - b
  BY <1>1
<1>5. data_lb(t, l, b - 1) = <<Start(t, e), t[e]>>
  BY <1>2, <1>4 DEF data_lb
<1>6. t[e] \in Nat /\ Start(t, e) \in Nat /\ Start(t, e + 1) = Start(t, e) + t[e]
  <2>1. t \in Seq(Nat) /\ e \in 1 .. Len(t)
    BY <1>1, <1>3 DEF IsSizeTable
  <2> QED BY <2>1, StartStep
<1>7. Span(<<Start(t, e), t[e]>>) = Extent(t, e)
  BY <1>6 DEF Span, End, Extent
<1> QED BY <1>2, <1>3, <1>5, <1>6, <1>7 DEF AnyRange

\* What the codec logs are the bytes of the entries that its selection reads.
LEMMA AccessedBytes ==
  ASSUME NEW t, IsSizeTable(t), NEW k \in [Lids -> 0 .. Planes]
  PROVE  BytesOf(Accesses(t, k)) = Extents(t, ReadEntries(k))
<1> DEFINE A == AnyRange
           plane(l) == [b \in 1 .. k[l] |-> data_lb(t, l, b - 1)]
           f == [i \in 1 .. NumLids |-> plane(i - 1)]
           planes == FlattenSeq([i \in 1 .. NumLids |-> plane(i - 1)])
           header == <<0, t[1]>>
           unpred == <<Start(t, Len(t)), t[Len(t)]>>
<1>1. /\ NumLids \in Nat \ {0} /\ Planes \in Nat \ {0} /\ LastEntry \in Nat /\ LastEntry > 2
      /\ t \in Seq(Nat) /\ Len(t) = LastEntry
  BY EntryIs DEF IsSizeTable
<1>2. header \in A /\ Span(header) = Extent(t, 1)
  <2>1. Start(t, 1) = 0 /\ t[1] \in Nat /\ Start(t, 1 + 1) = Start(t, 1) + t[1]
    BY <1>1, StartStep
  <2> QED BY <2>1 DEF AnyRange, Span, End, Extent
<1>3. unpred \in A /\ Span(unpred) = Extent(t, LastEntry)
  <2>1. PICK n \in Nat : n = LastEntry /\ n = Len(t) /\ n \in 1 .. Len(t)
    BY <1>1
  <2>2. Start(t, n) \in Nat /\ t[n] \in Nat /\ Start(t, n + 1) = Start(t, n) + t[n]
    BY <1>1, <2>1, StartStep
  <2>3. unpred = <<Start(t, n), t[n]>>
    BY <2>1
  <2>4. Span(<<Start(t, n), t[n]>>) = Extent(t, n)
    BY <2>2 DEF Span, End, Extent
  <2> QED BY <2>1, <2>2, <2>3, <2>4 DEF AnyRange
<1>4. \A l \in Lids : k[l] \in 0 .. Planes /\ \A b \in 1 .. k[l] : b \in 1 .. Planes
  BY <1>1
<1>5. ASSUME NEW l \in Lids
      PROVE  /\ plane(l) \in Seq(A)
             /\ \A x : x \in ToSet(plane(l)) <=> \E b \in 1 .. k[l] : x = data_lb(t, l, b - 1)
  <2>1. k[l] \in Nat
    BY <1>1, <1>4
  <2>2. \A b \in 1 .. k[l] : data_lb(t, l, b - 1) \in A
    BY <1>4, PlaneIs
  <2>3. plane(l) \in [1 .. k[l] -> A]
    <3> HIDE DEF A
    <3> QED BY <2>2
  <2>4. \A x : x \in ToSet(plane(l)) <=> \E b \in 1 .. k[l] : x = data_lb(t, l, b - 1)
    BY DEF ToSet
  <2> HIDE DEF plane, A
  <2> QED BY <2>1, <2>3, <2>4, SeqDef
<1>6. \A i \in 1 .. NumLids : i - 1 \in Lids
  BY <1>1 DEF Lids
<1>7. \A l \in Lids : l + 1 \in 1 .. NumLids /\ (l + 1) - 1 = l
  BY <1>1 DEF Lids
<1>8. /\ planes \in Seq(A)
      /\ \A x : x \in ToSet(planes) <=> \E l \in Lids : \E b \in 1 .. k[l] : x = data_lb(t, l, b - 1)
  <2>1. \A i \in 1 .. NumLids : f[i] \in Seq(A) /\ f[i] = plane(i - 1)
    <3> HIDE DEF A, plane
    <3> QED BY <1>5, <1>6
  <2>2. [i \in 1 .. NumLids |-> f[i]] = [i \in 1 .. NumLids |-> plane(i - 1)]
    <3> HIDE DEF plane
    <3> QED OBVIOUS
  <2> HIDE DEF A, f
  <2>3. NumLids \in Nat
    BY <1>1
  <2>4. PICK s : s = FlattenSeq([i \in 1 .. NumLids |-> f[i]])
    OBVIOUS
  <2>5. PutTogether(A, NumLids, f, s)
    <3>1. \A i \in 1 .. NumLids : f[i] \in Seq(A)
      BY <2>1
    <3>2. PutTogether(A, NumLids, f, FlattenSeq([i \in 1 .. NumLids |-> f[i]]))
      BY <2>3, <3>1, FlattenGathers, Zenon
    <3> QED BY <2>4, <3>2, Zenon
  <2>6. planes = s
    BY <2>2, <2>4, Zenon
  <2> HIDE DEF plane, planes
  <2>7. \A x : x \in ToSet(s) <=> \E i \in 1 .. NumLids : x \in ToSet(f[i])
    BY <2>5, Zenon DEF PutTogether
  <2>8. ASSUME NEW x
        PROVE  x \in ToSet(s) <=> \E l \in Lids : x \in ToSet(plane(l))
    <3>1. x \in ToSet(s) => \E l \in Lids : x \in ToSet(plane(l))
      BY <1>6, <2>1, <2>7
    <3>2. ASSUME NEW l \in Lids, x \in ToSet(plane(l)) PROVE x \in ToSet(s)
      <4>1. f[l + 1] = plane(l) /\ l + 1 \in 1 .. NumLids
        BY <1>7, <2>1
      <4> QED BY <2>7, <3>2, <4>1
    <3> QED BY <3>1, <3>2
  <2>9. s \in Seq(A)
    BY <2>5, Zenon DEF PutTogether
  <2> QED BY <1>5, <2>6, <2>8, <2>9
<1> HIDE DEF plane, f, planes, A, header, unpred
<1>9. Accesses(t, k) = IF \A l \in Lids : k[l] = 0 THEN <<header, header>>
                        ELSE <<header, header, header, unpred>> \o planes
  BY Zenon DEF Accesses, header, unpred, planes, plane
<1>10. CASE \A l \in Lids : k[l] = 0
  <2>1. ToSet(<<header, header>>) = {header}
    BY DEF ToSet
  <2>2. BytesOf(<<header, header>>) = Span(header)
    BY <2>1 DEF BytesOf, Span
  <2>3. Extents(t, {1}) = Extent(t, 1)
    BY DEF Extents
  <2> QED BY <1>2, <1>9, <1>10, <2>2, <2>3 DEF ReadEntries
<1>11. CASE ~\A l \in Lids : k[l] = 0
  <2>1. PICK h : h = <<header, header, header, unpred>>
    OBVIOUS
  <2>2. h \in Seq(A) /\ ToSet(h) = {header, unpred}
    <3>1. <<header, header, header, unpred>> \in Seq(A)
      BY <1>2, <1>3
    <3>2. ToSet(<<header, header, header, unpred>>) = {header, unpred}
      BY DEF ToSet
    <3> QED BY <2>1, <3>1, <3>2
  <2>3. \A x : x \in ToSet(h \o planes) <=> x \in ToSet(h) \/ x \in ToSet(planes)
    BY <1>8, <2>2, ConcatMembers
  <2>4. \A y : y \in BytesOf(h \o planes) <=>
          \/ y \in Extent(t, 1) \/ y \in Extent(t, LastEntry)
          \/ \E l \in Lids : \E b \in 1 .. k[l] : y \in Extent(t, Entry(l, Planes - b))
    <3>1. \A y : y \in BytesOf(h \o planes) <=> \E r \in ToSet(h \o planes) : y \in Span(r)
      BY DEF BytesOf, Span
    <3>2. \A l \in Lids : \A b \in 1 .. k[l] :
            Span(data_lb(t, l, b - 1)) = Extent(t, Entry(l, Planes - b))
      BY <1>4, PlaneIs
    <3>3. ASSUME NEW y, y \in BytesOf(h \o planes)
          PROVE  \/ y \in Extent(t, 1) \/ y \in Extent(t, LastEntry)
                 \/ \E l \in Lids : \E b \in 1 .. k[l] : y \in Extent(t, Entry(l, Planes - b))
      <4>1. PICK r \in ToSet(h \o planes) : y \in Span(r)
        BY <3>1, <3>3
      <4>2. CASE r \in ToSet(h)
        BY <1>2, <1>3, <2>2, <4>1, <4>2
      <4>3. CASE r \in ToSet(planes)
        BY <1>8, <3>2, <4>1, <4>3
      <4> QED BY <2>3, <4>1, <4>2, <4>3
    <3>4. ASSUME NEW y, y \in Extent(t, 1) \/ y \in Extent(t, LastEntry)
          PROVE  y \in BytesOf(h \o planes)
      <4>1. \E r \in ToSet(h) : y \in Span(r)
        BY <1>2, <1>3, <2>2, <3>4
      <4> QED BY <2>3, <3>1, <4>1
    <3>5. ASSUME NEW y, NEW l \in Lids, NEW b \in 1 .. k[l], y \in Extent(t, Entry(l, Planes - b))
          PROVE  y \in BytesOf(h \o planes)
      <4>1. PICK r : r = data_lb(t, l, b - 1)
        OBVIOUS
      <4>2. y \in Span(r)
        BY <3>2, <3>5, <4>1
      <4>3. r \in ToSet(planes)
        BY <1>8, <4>1
      <4> QED BY <2>3, <3>1, <4>2, <4>3
    <3> QED BY <3>3, <3>4, <3>5
  <2>5. \A y : y \in Extents(t, ReadEntries(k)) <=>
          \/ y \in Extent(t, 1) \/ y \in Extent(t, LastEntry)
          \/ \E l \in Lids : \E b \in 1 .. k[l] : y \in Extent(t, Entry(l, Planes - b))
    <3>1. ReadEntries(k) = {1, LastEntry} \cup UNION {KeptEntries(l, k[l]) : l \in Lids}
      BY <1>11 DEF ReadEntries
    <3> QED BY <3>1 DEF Extents, KeptEntries
  <2>6. BytesOf(h \o planes) = Extents(t, ReadEntries(k))
    BY <2>4, <2>5
  <2> QED BY <1>9, <1>11, <2>1, <2>6
<1> QED BY <1>10, <1>11

\* The counter counts the bytes of the entries that the selection reads.
LEMMA RetrievedIs ==
  ASSUME NEW t, IsSizeTable(t), NEW k \in [Lids -> 0 .. Planes]
  PROVE  Retrieved(t, k) = Cardinality(Extents(t, ReadEntries(k)))
<1> DEFINE g(l) == [b \in 1 .. k[l] |-> Entry(l, Planes - b)]
           inner(l) == Sum([b \in 1 .. k[l] |-> data_lb(t, l, b - 1)[2]])
           w == [i \in 1 .. NumLids |-> inner(i - 1)]
           W(m) == SumFunctionOnSet(w, 1 .. m)
           E(m) == {1, LastEntry} \cup UNION {KeptEntries(l, k[l]) : l \in 0 .. m - 1}
           Good(m) == Cardinality(Extents(t, E(m))) = (t[1] + t[LastEntry]) + W(m) /\ W(m) \in Int
           M == {m \in Nat : m <= NumLids => Good(m)}
<1>1. /\ NumLids \in Nat \ {0} /\ Planes \in Nat \ {0} /\ LastEntry \in Nat /\ LastEntry > 2
      /\ t \in Seq(Nat) /\ Len(t) = LastEntry
  BY EntryIs DEF IsSizeTable
<1>2. /\ 1 \in 1 .. Len(t) /\ LastEntry \in 1 .. Len(t) /\ t[1] \in Nat /\ t[LastEntry] \in Nat
  <2>1. 1 \in 1 .. Len(t) /\ LastEntry \in 1 .. Len(t)
    BY <1>1
  <2> QED BY <1>1, <2>1, ElementOfSeq
<1>3. Cardinality(Extents(t, {1})) = t[1] /\ Cardinality(Extents(t, {1, LastEntry})) = t[1] + t[LastEntry]
  <2>1. /\ IsFiniteSet(Extent(t, 1)) /\ Cardinality(Extent(t, 1)) = t[1]
        /\ IsFiniteSet(Extent(t, LastEntry)) /\ Cardinality(Extent(t, LastEntry)) = t[LastEntry]
        /\ Extent(t, 1) \cap Extent(t, LastEntry) = {}
    <3>1. 1 # LastEntry
      BY <1>1
    <3> QED BY <1>1, <1>2, <3>1, ExtentsApart
  <2>2. Extents(t, {1}) = Extent(t, 1) /\ Extents(t, {1, LastEntry}) = Extent(t, 1) \cup Extent(t, LastEntry)
    BY DEF Extents
  <2>3. Cardinality(Extent(t, 1) \cup Extent(t, LastEntry))
          = Cardinality(Extent(t, 1)) + Cardinality(Extent(t, LastEntry))
              - Cardinality(Extent(t, 1) \cap Extent(t, LastEntry))
    BY <2>1, FS_Union
  <2>4. Cardinality(Extent(t, 1) \cap Extent(t, LastEntry)) = 0
    BY <2>1, FS_EmptySet
  <2>5. PICK a \in Nat, b \in Nat : a = t[1] /\ b = t[LastEntry]
    BY <1>2
  <2>6. Cardinality(Extent(t, 1) \cup Extent(t, LastEntry)) = a + b - 0
    BY <2>1, <2>3, <2>4, <2>5
  <2>7. Cardinality(Extents(t, {1})) = t[1]
    BY <2>1, <2>2, Zenon
  <2>8. a + b - 0 = a + b
    OBVIOUS
  <2>9. Cardinality(Extents(t, {1, LastEntry})) = a + b
    BY <2>2, <2>6, <2>8, Zenon
  <2> QED BY <2>5, <2>7, <2>9, Zenon
<1>4. \A l \in Lids : k[l] \in 0 .. Planes /\ k[l] \in Nat /\ \A b \in 1 .. k[l] : b \in 1 .. Planes
  BY <1>1
<1>5. ASSUME NEW l \in Lids
      PROVE  /\ inner(l) = SumFunctionOnSet([b \in 1 .. k[l] |-> t[g(l)[b]]], 1 .. k[l])
             /\ inner(l) \in Int
  <2> DEFINE u == [b \in 1 .. k[l] |-> data_lb(t, l, b - 1)[2]]
  <2>1. \A b \in 1 .. k[l] : /\ data_lb(t, l, b - 1)[2] = t[Entry(l, Planes - b)]
                             /\ t[Entry(l, Planes - b)] \in Int
    <3> SUFFICES ASSUME NEW b \in 1 .. k[l]
                 PROVE  /\ data_lb(t, l, b - 1)[2] = t[Entry(l, Planes - b)]
                        /\ t[Entry(l, Planes - b)] \in Int
      OBVIOUS
    <3>1. b \in 1 .. Planes
      BY <1>4
    <3>2. /\ data_lb(t, l, b - 1) = <<Start(t, Entry(l, Planes - b)), t[Entry(l, Planes - b)]>>
          /\ data_lb(t, l, b - 1) \in AnyRange
      BY <3>1, PlaneIs
    <3> QED BY <3>2 DEF AnyRange
  <2>2. u = [b \in 1 .. k[l] |-> t[g(l)[b]]]
    BY <2>1
  <2>3. \A b \in 1 .. k[l] : u[b] \in Int
    BY <2>1
  <2>4. IsFiniteSet(1 .. k[l])
    <3>1. 1 \in Int /\ k[l] \in Int
      BY <1>4
    <3> QED BY <3>1, FS_Interval
  <2>5. DOMAIN u = 1 .. k[l]
    OBVIOUS
  <2> HIDE DEF u
  <2>6. SumFunctionOnSet(u, 1 .. k[l]) \in Int
    BY <2>3, <2>4, SumByChoice
  <2>7. Sum(u) = SumFunctionOnSet(u, 1 .. k[l])
    BY <2>5 DEF Sum, SumFunction
  <2> QED BY <2>2, <2>6, <2>7 DEF u
<1>6. \A i \in 1 .. NumLids : i - 1 \in Lids /\ w[i] = inner(i - 1) /\ w[i] \in Int
  <2> HIDE DEF inner
  <2>1. \A i \in 1 .. NumLids : i - 1 \in Lids
    BY <1>1 DEF Lids
  <2> QED BY <1>5, <2>1
<1> HIDE DEF w, inner
<1>7. 0 \in M
  <2>1. 1 .. 0 = {} /\ 0 .. 0 - 1 = {}
    OBVIOUS
  <2>2. W(0) = 0
    <3>1. SumFunctionOnSet(w, {}) = 0
      BY FS_EmptySet, SumByChoice
    <3> QED BY <2>1, <3>1
  <2>3. E(0) = {1, LastEntry}
    BY <2>1
  <2>4. PICK a \in Nat, b \in Nat : a = t[1] /\ b = t[LastEntry]
    BY <1>2
  <2> HIDE DEF E, W
  <2>5. Cardinality(Extents(t, E(0))) = a + b /\ a + b = (a + b) + 0
    BY <1>3, <2>3, <2>4
  <2> QED BY <2>2, <2>4, <2>5
<1>8. ASSUME NEW m \in Nat, m \in M PROVE m + 1 \in M
  <2> SUFFICES ASSUME m + 1 <= NumLids PROVE Good(m + 1)
    OBVIOUS
  <2>1. m <= NumLids /\ m + 1 \in 1 .. NumLids /\ m \in Lids /\ (m + 1) - 1 = m
        /\ \A l \in 0 .. m - 1 : l \in Lids /\ l # m
    BY <1>1 DEF Lids
  <2>2. Good(m)
    BY <1>8, <2>1
  <2>3. PICK h : h = g(m)
    OBVIOUS
  <2>4. PICK I : I = E(m)
    OBVIOUS
  <2>5. PICK q \in Nat : q = k[m] /\ \A b \in 1 .. q : b \in 1 .. Planes
    BY <1>4, <2>1
  <2>6. \A b \in 1 .. q : /\ h[b] = Entry(m, Planes - b) /\ Planes - b \in 0 .. Planes - 1
                          /\ h[b] \in 2 .. LastEntry - 1
    <3>1. \A b \in 1 .. q : h[b] = Entry(m, Planes - b)
      BY <2>3, <2>5
    <3>2. \A b \in 1 .. Planes : Planes - b \in 0 .. Planes - 1
      BY <1>1
    <3> QED BY <2>1, <2>5, <3>1, <3>2, EntryIs
  <2>7. I \in SUBSET (1 .. Len(t))
    <3>1. \A l \in 0 .. m - 1 : \A b \in 1 .. k[l] : Entry(l, Planes - b) \in 2 .. LastEntry - 1
      BY <1>4, <2>1, PlaneIs
    <3>2. \A x \in 2 .. LastEntry - 1 : x \in 1 .. Len(t)
      BY <1>1
    <3> QED BY <1>2, <2>4, <3>1, <3>2 DEF KeptEntries
  <2>8. \A b \in 1 .. q : h[b] \in 1 .. Len(t) /\ h[b] \notin I
    <3> SUFFICES ASSUME NEW b \in 1 .. q PROVE h[b] \in 1 .. Len(t) /\ h[b] \notin I
      OBVIOUS
    <3>1. h[b] # 1 /\ h[b] # LastEntry /\ h[b] \in 1 .. Len(t)
      BY <1>1, <2>6
    <3>2. ASSUME NEW l \in 0 .. m - 1, NEW c \in 1 .. k[l] PROVE h[b] # Entry(l, Planes - c)
      <4>1. l \in Lids /\ l # m /\ c \in 1 .. Planes
        BY <1>4, <2>1
      <4>2. Planes - c \in 0 .. Planes - 1
        BY <1>1, <4>1
      <4> QED BY <2>1, <2>6, <4>1, <4>2, EntriesDiffer
    <3> QED BY <2>4, <3>1, <3>2 DEF KeptEntries
  <2>9. \A a, b \in 1 .. q : a # b => h[a] # h[b]
    <3> SUFFICES ASSUME NEW a \in 1 .. q, NEW b \in 1 .. q, a # b PROVE h[a] # h[b]
      OBVIOUS
    <3>1. Planes - a # Planes - b
      BY <1>1
    <3> QED BY <2>1, <2>6, <3>1, EntriesDiffer
  <2>10. E(m + 1) = I \cup {h[b] : b \in 1 .. q}
    <3>1. {h[b] : b \in 1 .. q} = KeptEntries(m, k[m])
      BY <2>5, <2>6 DEF KeptEntries
    <3>2. \A l : l \in 0 .. (m + 1) - 1 <=> l \in 0 .. m - 1 \/ l = m
      OBVIOUS
    <3> QED BY <2>4, <3>1, <3>2
  <2> HIDE DEF E, g, Good, M
  <2>11. Cardinality(Extents(t, I \cup {h[b] : b \in 1 .. q}))
           = Cardinality(Extents(t, I)) + SumFunctionOnSet([b \in 1 .. q |-> t[h[b]]], 1 .. q)
    <3>1. Fresh(t, I, q, h)
      BY <2>8, <2>9 DEF Fresh
    <3>2. Brings(t, I, q, h)
      BY <1>1, <2>7, <3>1, MoreExtents, Zenon
    <3> QED BY <3>2 DEF Brings
  <2>12. inner(m) = SumFunctionOnSet([b \in 1 .. q |-> t[h[b]]], 1 .. q) /\ inner(m) \in Int
    BY <1>5, <2>1, <2>3, <2>5
  <2>13. W(m + 1) = w[m + 1] + W(m)
    <3>1. 1 \in Int /\ m \in Int
      OBVIOUS
    <3>2. IsFiniteSet(1 .. m)
      BY <3>1, FS_Interval
    <3>3. m + 1 \notin 1 .. m /\ 1 .. m + 1 = {m + 1} \cup (1 .. m)
      OBVIOUS
    <3>4. \A b \in 1 .. m : b \in 1 .. NumLids
      BY <1>1, <2>1
    <3>5. w[m + 1] \in Int /\ \A b \in 1 .. m : w[b] \in Int
      BY <1>6, <2>1, <3>4
    <3> QED BY <3>2, <3>3, <3>5, SumAdd
  <2>14. w[m + 1] = inner(m)
    BY <1>6, <2>1
  <2>15. Cardinality(Extents(t, I)) = (t[1] + t[LastEntry]) + W(m) /\ W(m) \in Int
    BY <2>2, <2>4 DEF Good
  <2> HIDE DEF W
  <2>16. PICK a \in Int, b \in Int, c \in Int : a = W(m) /\ b = inner(m) /\ c = t[1] + t[LastEntry]
    <3>1. t[1] + t[LastEntry] \in Int
      BY <1>2
    <3> QED BY <2>12, <2>15, <3>1
  <2>17. Cardinality(Extents(t, E(m + 1))) = (c + a) + b
    BY <2>10, <2>11, <2>12, <2>15, <2>16
  <2>18. W(m + 1) = b + a
    BY <2>13, <2>14, <2>16
  <2>19. (c + a) + b = c + (b + a)
    OBVIOUS
  <2> QED BY <2>16, <2>17, <2>18, <2>19 DEF Good
<1> HIDE DEF M
<1>9. Nat \subseteq M
  BY <1>7, <1>8, SetInduction
<1>10. NumLids \in M /\ NumLids <= NumLids
  BY <1>1, <1>9
<1>11. Cardinality(Extents(t, E(NumLids))) = (t[1] + t[LastEntry]) + W(NumLids)
  BY <1>10 DEF M
<1>12. CASE \A l \in Lids : k[l] = 0
  BY <1>3, <1>12 DEF Retrieved, ReadEntries
<1>13. CASE ~\A l \in Lids : k[l] = 0
  <2>1. E(NumLids) = ReadEntries(k)
    BY <1>13 DEF ReadEntries, Lids
  <2>2. Sum(w) = W(NumLids)
    <3>1. DOMAIN w = 1 .. NumLids
      BY DEF w
    <3> QED BY <3>1 DEF Sum, SumFunction
  <2>3. Retrieved(t, k) = (t[1] + t[Len(t)]) + Sum(w)
    BY <1>13, Zenon DEF Retrieved, w, inner
  <2> HIDE DEF E, W
  <2> QED BY <1>1, <1>11, <2>1, <2>2, <2>3
<1> QED BY <1>12, <1>13

\* The block of each entry.
LEMMA CompressEntries ==
  /\ DOMAIN compress = 1 .. LastEntry
  /\ compress[1] = Header
  /\ compress[LastEntry] = Unpred
  /\ \A l \in Lids, k \in 0 .. Planes - 1 : compress[Entry(l, k)] = BitBlock(l, (Planes - 1) - k)
<1> DEFINE B == BlockNames
           f == [i \in 1 .. NumLids |-> encode_lossless_bitplane(i - 1)]
           planes == FlattenSeq([i \in 1 .. NumLids |-> encode_lossless_bitplane(i - 1)])
<1>1. NumLids \in Nat \ {0} /\ Planes \in Nat \ {0} /\ NumLids * Planes \in Nat
  <2>1. NumLids \in Nat \ {0} /\ Planes \in Nat \ {0}
    BY LayoutAssumption
  <2> QED BY <2>1
<1>2. ASSUME NEW l \in Lids
      PROVE  /\ encode_lossless_bitplane(l) \in Seq(B) /\ Len(encode_lossless_bitplane(l)) = Planes
             /\ \A k \in 1 .. Planes : encode_lossless_bitplane(l)[k] = BitBlock(l, Planes - k)
  <2> DEFINE e == encode_lossless_bitplane(l)
  <2>1. \A k \in 1 .. Planes : Planes - k \in Plane
    BY <1>1 DEF Plane
  <2>2. e \in [1 .. Planes -> B] /\ \A k \in 1 .. Planes : e[k] = BitBlock(l, Planes - k)
    BY <2>1 DEF encode_lossless_bitplane, BlockNames
  <2> HIDE DEF e, B
  <2>3. e \in Seq(B)
    BY <1>1, <2>2, SeqDef
  <2>4. DOMAIN e = 1 .. Len(e) /\ Len(e) \in Nat /\ DOMAIN e = 1 .. Planes
    BY <2>2, <2>3, LenProperties
  <2>5. PICK q \in Nat : q = Len(e) /\ 1 .. q = 1 .. Planes
    BY <2>4, Zenon
  <2> QED BY <1>1, <2>2, <2>3, <2>5 DEF e
<1>3. \A i \in 1 .. NumLids : i - 1 \in Lids
  BY <1>1 DEF Lids
<1>4. \A i \in 1 .. NumLids : /\ f[i] \in Seq(B) /\ Len(f[i]) = Planes
                              /\ \A k \in 1 .. Planes : f[i][k] = BitBlock(i - 1, Planes - k)
  <2> HIDE DEF B
  <2> QED BY <1>2, <1>3
<1>5. planes = FlattenSeq([i \in 1 .. NumLids |-> f[i]])
  BY Zenon
<1> HIDE DEF f, planes, B
<1>6. planes \in Seq(B) /\ Len(planes) = NumLids * Planes
  <2>1. NumLids \in Nat /\ Planes \in Nat
    BY <1>1
  <2>2. f = [i \in 1 .. NumLids |-> f[i]]
    BY DEF f
  <2>3. f \in [1 .. NumLids -> {s \in Seq(B) : Len(s) = Planes}]
    BY <1>4, <2>2
  <2>4. FlattenSeq(f) \in Seq(B) /\ Len(FlattenSeq(f)) = NumLids * Planes
    BY <2>1, <2>3, FlattenEven
  <2> QED BY <1>5, <2>2, <2>4
<1>7. \A i \in 0 .. NumLids - 1, k \in 1 .. Planes : planes[i * Planes + k] = f[i + 1][k]
  <2>1. NumLids \in Nat /\ Planes \in Nat
    BY <1>1
  <2>2. \A i \in 1 .. NumLids : f[i] \in Seq(B) /\ Len(f[i]) = Planes
    BY <1>4
  <2>3. AtMultiples(NumLids, Planes, f)
    BY <2>1, <2>2, FlattenAt, Zenon
  <2> QED BY <1>5, <2>3, Zenon DEF AtMultiples
<1>8. /\ <<Header>> \in Seq(B) /\ <<Unpred>> \in Seq(B)
      /\ Len(<<Header>>) = 1 /\ Len(<<Unpred>>) = 1
      /\ <<Header>>[1] = Header /\ <<Unpred>>[1] = Unpred
  <2>1. Header \in B /\ Unpred \in B
    BY DEF B, BlockNames
  <2> QED BY <2>1
<1>9. PICK h, u : h = <<Header>> /\ u = <<Unpred>>
  OBVIOUS
<1>10. PICK x \in Nat : x = NumLids * Planes
  BY <1>1
<1>11. PICK hp : hp = h \o planes
  OBVIOUS
<1>12. /\ hp \in Seq(B) /\ Len(hp) = 1 + x
       /\ hp[1] = Header /\ \A i \in 1 .. x : hp[i + 1] = planes[i]
  <2>1. h \in Seq(B) /\ Len(h) = 1 /\ h[1] = Header
    BY <1>8, <1>9
  <2>2. /\ hp \in Seq(B) /\ Len(hp) = Len(h) + Len(planes)
        /\ \A i \in 1 .. Len(h) + Len(planes) :
             hp[i] = IF i <= Len(h) THEN h[i] ELSE planes[i - Len(h)]
    BY <1>6, <1>11, <2>1, ConcatProperties
  <2>3. \A i \in 1 .. x : i + 1 \in 1 .. 1 + x /\ ~(i + 1 <= 1) /\ (i + 1) - 1 = i
    BY <1>10
  <2>4. 1 \in 1 .. 1 + x /\ 1 <= 1
    BY <1>10
  <2> QED BY <1>6, <1>10, <2>1, <2>2, <2>3, <2>4
<1>13. PICK c : c = hp \o u
  OBVIOUS
<1>14. /\ c \in Seq(B) /\ Len(c) = x + 2
       /\ c[x + 2] = Unpred /\ \A i \in 1 .. 1 + x : c[i] = hp[i]
  <2>1. u \in Seq(B) /\ Len(u) = 1 /\ u[1] = Unpred
    BY <1>8, <1>9
  <2>2. /\ c \in Seq(B) /\ Len(c) = Len(hp) + Len(u)
        /\ \A i \in 1 .. Len(hp) + Len(u) : c[i] = IF i <= Len(hp) THEN hp[i] ELSE u[i - Len(hp)]
    BY <1>12, <1>13, <2>1, ConcatProperties
  <2>3. \A i \in 1 .. 1 + x : i \in 1 .. (1 + x) + 1 /\ i <= 1 + x
    BY <1>10
  <2>4. x + 2 \in 1 .. (1 + x) + 1 /\ ~(x + 2 <= 1 + x) /\ (x + 2) - (1 + x) = 1 /\ (1 + x) + 1 = x + 2
    BY <1>10
  <2> QED BY <1>12, <2>1, <2>2, <2>3, <2>4
<1>15. compress = c
  BY <1>9, <1>11, <1>13, Zenon DEF compress, planes
<1>16. LastEntry = x + 2
  BY <1>10 DEF LastEntry
<1>17. DOMAIN c = 1 .. x + 2
  BY <1>14, LenProperties
<1>18. c[1] = Header
  <2>1. 1 \in 1 .. 1 + x
    BY <1>10
  <2> QED BY <1>12, <1>14, <2>1
<1>19. ASSUME NEW l \in Lids, NEW k \in 0 .. Planes - 1
       PROVE  c[Entry(l, k)] = BitBlock(l, (Planes - 1) - k)
  <2>1. l \in 0 .. NumLids - 1 /\ k + 1 \in 1 .. Planes
    BY <1>1 DEF Lids
  <2>2. planes[l * Planes + (k + 1)] = f[l + 1][k + 1]
    BY <1>7, <2>1
  <2>3. l + 1 \in 1 .. NumLids /\ (l + 1) - 1 = l /\ Planes - (k + 1) = (Planes - 1) - k
    BY <1>1, <2>1
  <2>4. f[l + 1][k + 1] = BitBlock(l, (Planes - 1) - k)
    BY <1>4, <2>1, <2>3
  <2>5. Entry(l, k) \in 2 .. LastEntry - 1
    BY EntryIs
  <2>6. PICK y \in Int : y = l * Planes
    BY <1>1, <2>1
  <2>7. Entry(l, k) = (y + (k + 1)) + 1 /\ y + (k + 1) \in 1 .. x /\ Entry(l, k) \in 1 .. 1 + x
    <3>1. Entry(l, k) = (2 + y) + k
      BY <2>6 DEF Entry
    <3> QED BY <1>10, <1>16, <2>5, <2>6, <3>1
  <2> QED BY <1>12, <1>14, <2>2, <2>4, <2>6, <2>7
<1> QED BY <1>14, <1>15, <1>16, <1>17, <1>18, <1>19

\* Between the first block and the last there are only planes.
LEMMA EveryEntry ==
  \A i \in 2 .. LastEntry - 1 : \E l \in Lids, k \in 0 .. Planes - 1 : i = Entry(l, k)
<1> SUFFICES ASSUME NEW i \in 2 .. LastEntry - 1
             PROVE  \E l \in Lids, k \in 0 .. Planes - 1 : i = Entry(l, k)
  OBVIOUS
<1>1. NumLids \in Nat \ {0} /\ Planes \in Nat \ {0} /\ NumLids * Planes \in Nat
  <2>1. NumLids \in Nat \ {0} /\ Planes \in Nat \ {0}
    BY LayoutAssumption
  <2> QED BY <2>1
<1>2. PICK x \in Nat : x = NumLids * Planes
  BY <1>1
<1>3. i - 2 \in 0 .. x - 1 /\ i \in Int
  <2>1. LastEntry = x + 2
    BY <1>2 DEF LastEntry
  <2> QED BY <1>2, <2>1
<1>4. PICK q \in Int, r \in 0 .. Planes - 1 : i - 2 = q * Planes + r
  <2>1. PICK a \in Int : a = i - 2
    BY <1>3
  <2>2. \E q \in Int, r \in 0 .. Planes - 1 : q = a \div Planes /\ r = a % Planes /\ a = q * Planes + r
    BY <1>1, Divided
  <2> QED BY <2>1, <2>2
<1>5. q >= 0
  <2> SUFFICES ASSUME q < 0 PROVE FALSE
    OBVIOUS
  <2>1. PICK d \in Nat : q = -1 - d
    <3>1. -1 - q \in Nat /\ q = -1 - (-1 - q)
      OBVIOUS
    <3> QED BY <3>1
  <2>2. q * Planes = (-1 * Planes) - d * Planes /\ d * Planes \in Nat
    BY <1>1, <2>1
  <2> QED BY <1>1, <1>3, <1>4, <2>2
<1>6. q < NumLids
  <2> SUFFICES ASSUME q >= NumLids PROVE FALSE
    BY <1>1
  <2>1. PICK d \in Nat : q = NumLids + d
    <3>1. q - NumLids \in Nat /\ q = NumLids + (q - NumLids)
      BY <1>1
    <3> QED BY <3>1
  <2>2. q * Planes = NumLids * Planes + d * Planes /\ d * Planes \in Nat
    BY <1>1, <2>1
  <2> QED BY <1>1, <1>2, <1>3, <1>4, <2>2
<1>7. q \in Lids
  BY <1>1, <1>5, <1>6 DEF Lids
<1>8. i = Entry(q, r)
  <2>1. PICK y \in Int : y = q * Planes
    BY <1>1
  <2>2. i = (2 + y) + r
    BY <1>3, <1>4, <2>1
  <2> QED BY <2>1, <2>2 DEF Entry
<1> QED BY <1>7, <1>8

\* What the size table says of a stream.
IsTableOf(t, s) ==
  /\ IsSizeTable(t)
  /\ t[1] = HeaderSize
  /\ t[LastEntry] = UnpredSize
  /\ \A l \in Lids, k \in 0 .. Planes - 1 : t[Entry(l, k)] = s[l][(Planes - 1) - k]

\* The table that compress() writes says what it wrote.
LEMMA TableEntries ==
  ASSUME NEW s \in [Lids -> [Plane -> Nat]]
  PROVE  IsTableOf(lossless_size(s), s)
<1> DEFINE t == lossless_size(s)
<1>1. t \in Seq(Nat) /\ Len(t) = LastEntry
  BY TableType DEF LastEntry
<1>2. DOMAIN compress = 1 .. LastEntry /\ LastEntry \in Nat /\ LastEntry > 2
  BY CompressEntries, EntryIs
<1>3. \A i \in 1 .. LastEntry :
        t[i] = CASE compress[i] = Header -> HeaderSize
                 [] compress[i] = Unpred -> UnpredSize
                 [] OTHER -> s[compress[i][2]][compress[i][3]]
  BY <1>2 DEF lossless_size
<1> HIDE DEF t
<1>4. Header # Unpred
  BY DEF Header, Unpred
<1>5. t[1] = HeaderSize
  <2>1. 1 \in 1 .. LastEntry /\ compress[1] = Header
    BY <1>2, CompressEntries
  <2> QED BY <1>3, <1>4, <2>1
<1>6. t[LastEntry] = UnpredSize
  <2>1. LastEntry \in 1 .. LastEntry /\ compress[LastEntry] = Unpred
    BY <1>2, CompressEntries
  <2> QED BY <1>3, <1>4, <2>1
<1>7. ASSUME NEW l \in Lids, NEW k \in 0 .. Planes - 1
      PROVE  t[Entry(l, k)] = s[l][(Planes - 1) - k]
  <2>1. PICK e : e = Entry(l, k)
    OBVIOUS
  <2>2. e \in 1 .. LastEntry /\ compress[e] = BitBlock(l, (Planes - 1) - k)
    <3>1. e \in 2 .. LastEntry - 1
      BY <2>1, EntryIs
    <3> QED BY <1>2, <2>1, <3>1, CompressEntries
  <2>3. /\ compress[e] # Header /\ compress[e] # Unpred
        /\ compress[e][2] = l /\ compress[e][3] = (Planes - 1) - k
    BY <2>2 DEF BitBlock, Header, Unpred
  <2> QED BY <1>3, <2>1, <2>2, <2>3
<1> QED BY <1>1, <1>5, <1>6, <1>7 DEF t, IsTableOf, IsSizeTable

\* The blocks that are needed lie at the entries that the selection reads.
LEMMA NeededEntries ==
  ASSUME kept \in [Lids -> 0 .. Planes]
  PROVE  {i \in DOMAIN compress : compress[i] \in Needed} = ReadEntries(kept)
<1>1. /\ Planes \in Nat \ {0} /\ LastEntry \in Nat /\ LastEntry > 2
      /\ DOMAIN compress = 1 .. LastEntry
      /\ compress[1] = Header /\ compress[LastEntry] = Unpred
  BY EntryIs, CompressEntries
<1>2. \A i \in 1 .. LastEntry : i = 1 \/ i = LastEntry \/ \E l \in Lids, k \in 0 .. Planes - 1 : i = Entry(l, k)
  <2>1. \A i \in 1 .. LastEntry : i = 1 \/ i = LastEntry \/ i \in 2 .. LastEntry - 1
    BY <1>1
  <2> QED BY <2>1, EveryEntry
<1>3. \A l \in Lids, k \in 0 .. Planes - 1 :
        Entry(l, k) \in 1 .. LastEntry /\ compress[Entry(l, k)] = BitBlock(l, (Planes - 1) - k)
  <2>1. \A e \in 2 .. LastEntry - 1 : e \in 1 .. LastEntry
    BY <1>1
  <2> QED BY <2>1, EntryIs, CompressEntries
<1>4. /\ Header # Unpred
      /\ \A l, p : BitBlock(l, p) # Header /\ BitBlock(l, p) # Unpred
      /\ \A l, p : BitBlock(l, p)[2] = l /\ BitBlock(l, p)[3] = p
  BY DEF Header, Unpred, BitBlock
<1> DEFINE I == {i \in DOMAIN compress : compress[i] \in Needed}
<1>5. CASE \A l \in Lids : kept[l] = 0
  <2>1. Needed = {Header} /\ ReadEntries(kept) = {1}
    BY <1>5 DEF Needed, ReadEntries
  <2>2. 1 \in I
    BY <1>1, <2>1
  <2>3. ASSUME NEW i \in I PROVE i = 1
    <3>1. i \in 1 .. LastEntry /\ compress[i] = Header
      BY <1>1, <2>1
    <3> QED BY <1>1, <1>2, <1>3, <1>4, <3>1
  <2> QED BY <2>1, <2>2, <2>3
<1>6. CASE ~\A l \in Lids : kept[l] = 0
  <2>1. /\ \A x : x \in Needed <=>
               \/ x = Header \/ x = Unpred
               \/ \E l \in Lids, p \in Plane : p < kept[l] /\ x = BitBlock(l, p)
        /\ ReadEntries(kept) = {1, LastEntry} \cup UNION {KeptEntries(l, kept[l]) : l \in Lids}
    <3>1. Needed = {Header, Unpred} \cup {BitBlock(b[1], b[2]) : b \in {b \in Lids \X Plane : b[2] < kept[b[1]]}}
      BY <1>6 DEF Needed
    <3>2. ASSUME NEW x, x \in Needed
          PROVE  x = Header \/ x = Unpred \/ \E l \in Lids, p \in Plane : p < kept[l] /\ x = BitBlock(l, p)
      <4>1. CASE x \in {Header, Unpred}
        BY <4>1
      <4>2. CASE x \in {BitBlock(b[1], b[2]) : b \in {b \in Lids \X Plane : b[2] < kept[b[1]]}}
        <5>1. PICK b \in Lids \X Plane : b[2] < kept[b[1]] /\ x = BitBlock(b[1], b[2])
          BY <4>2
        <5>2. b[1] \in Lids /\ b[2] \in Plane
          OBVIOUS
        <5> QED BY <5>1, <5>2
      <4> QED BY <3>1, <3>2, <4>1, <4>2
    <3>3. ASSUME NEW l \in Lids, NEW p \in Plane, p < kept[l]
          PROVE  BitBlock(l, p) \in Needed
      <4>1. PICK b \in Lids \X Plane : b[1] = l /\ b[2] = p
        <5>1. <<l, p>> \in Lids \X Plane /\ <<l, p>>[1] = l /\ <<l, p>>[2] = p
          OBVIOUS
        <5> QED BY <5>1
      <4>2. b[2] < kept[b[1]]
        BY <3>3, <4>1
      <4> QED BY <3>1, <4>1, <4>2
    <3>4. Header \in Needed /\ Unpred \in Needed
      BY <3>1
    <3>5. ReadEntries(kept) = {1, LastEntry} \cup UNION {KeptEntries(l, kept[l]) : l \in Lids}
      BY <1>6 DEF ReadEntries
    <3> QED BY <3>2, <3>3, <3>4, <3>5
  <2>2. ASSUME NEW i \in I PROVE i \in ReadEntries(kept)
    <3>1. i \in 1 .. LastEntry /\ compress[i] \in Needed
      BY <1>1
    <3>2. CASE i = 1 \/ i = LastEntry
      BY <2>1, <3>2
    <3>3. CASE \E l \in Lids, k \in 0 .. Planes - 1 : i = Entry(l, k)
      <4>1. PICK l \in Lids, k \in 0 .. Planes - 1 : i = Entry(l, k)
        BY <3>3
      <4>2. compress[i] = BitBlock(l, (Planes - 1) - k)
        BY <1>3, <4>1
      <4>3. PICK m \in Lids, p \in Plane : p < kept[m] /\ BitBlock(l, (Planes - 1) - k) = BitBlock(m, p)
        BY <1>4, <2>1, <3>1, <4>2
      <4>4. l = m /\ (Planes - 1) - k = p
        BY <1>4, <4>3
      <4>5. PICK b : b = Planes - k
        OBVIOUS
      <4>6. b \in 1 .. kept[l] /\ Planes - b = k
        <5>1. kept[l] \in 0 .. Planes
          OBVIOUS
        <5> QED BY <1>1, <4>3, <4>4, <4>5, <5>1
      <4>7. i \in KeptEntries(l, kept[l])
        BY <4>1, <4>6 DEF KeptEntries
      <4> QED BY <2>1, <4>7
    <3> QED BY <1>2, <3>1, <3>2, <3>3
  <2>3. ASSUME NEW i \in ReadEntries(kept) PROVE i \in I
    <3>1. CASE i = 1 \/ i = LastEntry
      BY <1>1, <2>1, <3>1
    <3>2. CASE i \in UNION {KeptEntries(l, kept[l]) : l \in Lids}
      <4>0. PICK l \in Lids : i \in KeptEntries(l, kept[l])
        BY <3>2
      <4>1. PICK b \in 1 .. kept[l] : i = Entry(l, Planes - b)
        BY <4>0 DEF KeptEntries
      <4>2. PICK k : k = Planes - b
        OBVIOUS
      <4>3. kept[l] \in 0 .. Planes
        OBVIOUS
      <4>4. k \in 0 .. Planes - 1 /\ (Planes - 1) - k = b - 1 /\ b - 1 \in 0 .. Planes - 1 /\ b - 1 < kept[l]
        BY <1>1, <4>2, <4>3
      <4>5. i \in 1 .. LastEntry /\ compress[i] = BitBlock(l, b - 1)
        BY <1>3, <4>1, <4>2, <4>4
      <4>6. b - 1 \in Plane
        BY <4>4 DEF Plane
      <4> QED BY <1>1, <2>1, <4>4, <4>5, <4>6
    <3> QED BY <2>1, <2>3, <3>1, <3>2
  <2> QED BY <2>2, <2>3
<1> QED BY <1>5, <1>6

\* What has to be read is what the selection reads.
LEMMA WrittenIs ==
  ASSUME TypeInv
  PROVE  Written(size, Needed) = Extents(lossless_size(size), ReadEntries(kept))
<1>1. {i \in DOMAIN compress : compress[i] \in Needed} = ReadEntries(kept)
  BY NeededEntries DEF TypeInv
<1> QED BY <1>1 DEF Written, Extents, Extent

-----------------------------------------------------------------------------
(* What the drivers copy *)

\* The size of the first k planes that are decoded of stage l.
First(t, l, k) == Sum([i \in 1 .. k |-> t[Entry(l, (Planes - 1) - (i - 1))]])

\* The planes decoded first are the last ones of their stage.
LEMMA FirstIs ==
  ASSUME NEW t, IsSizeTable(t), NEW l \in Lids
  PROVE  /\ \A k \in 0 .. Planes : /\ Entry(l, Planes - k) \in 1 .. Len(t)
                                   /\ Start(t, Entry(l, Planes - k)) \in Nat
                                   /\ First(t, l, k) \in Nat
                                   /\ Start(t, Entry(l, Planes - k)) + First(t, l, k) = Start(t, Entry(l, Planes))
         /\ First(t, l, 0) = 0
         /\ \A k \in 0 .. Planes - 1 : /\ t[Entry(l, (Planes - 1) - k)] \in Nat
                                       /\ First(t, l, k + 1) = First(t, l, k) + t[Entry(l, (Planes - 1) - k)]
<1>1. /\ Planes \in Nat \ {0} /\ LastEntry \in Nat /\ LastEntry > 2
      /\ t \in Seq(Nat) /\ Len(t) = LastEntry
  BY EntryIs DEF IsSizeTable
<1> DEFINE w == [i \in 1 .. Planes |-> t[Entry(l, (Planes - 1) - (i - 1))]]
           W(k) == SumFunctionOnSet(w, 1 .. k)
<1>2. ASSUME NEW k \in 0 .. Planes
      PROVE  Entry(l, Planes - k) \in 1 .. Len(t) /\ Start(t, Entry(l, Planes - k)) \in Nat
  <2>1. Planes - k \in 0 .. Planes
    BY <1>1
  <2>2. Entry(l, Planes - k) \in 2 .. LastEntry
    BY <2>1, EntryIs
  <2>3. Entry(l, Planes - k) \in 1 .. Len(t)
    BY <1>1, <2>2
  <2> QED BY <1>1, <2>3, StartStep
<1>3. ASSUME NEW k \in 0 .. Planes - 1
      PROVE  /\ k + 1 \in 1 .. Planes /\ k \in 0 .. Planes /\ k + 1 \in 0 .. Planes
             /\ w[k + 1] = t[Entry(l, (Planes - 1) - k)]
             /\ t[Entry(l, (Planes - 1) - k)] \in Nat
             /\ Entry(l, (Planes - 1) - k) = Entry(l, Planes - (k + 1))
             /\ Start(t, Entry(l, Planes - k))
                  = Start(t, Entry(l, Planes - (k + 1))) + t[Entry(l, (Planes - 1) - k)]
  <2>1. k + 1 \in 1 .. Planes /\ k \in 0 .. Planes /\ k + 1 \in 0 .. Planes
        /\ (k + 1) - 1 = k /\ Planes - (k + 1) = (Planes - 1) - k
        /\ Planes - k \in 0 .. Planes /\ Planes - (k + 1) \in 0 .. Planes
        /\ Planes - k = (Planes - (k + 1)) + 1
    BY <1>1
  <2>2. w[k + 1] = t[Entry(l, (Planes - 1) - k)]
    BY <2>1
  <2>3. PICK e : e = Entry(l, Planes - (k + 1))
    OBVIOUS
  <2>4. e \in 1 .. Len(t)
    BY <1>2, <2>1, <2>3
  <2>5. Entry(l, Planes - k) = e + 1
    <3>1. /\ Entry(l, Planes - k) = Entry(l, 0) + (Planes - k)
          /\ Entry(l, Planes - (k + 1)) = Entry(l, 0) + (Planes - (k + 1))
      BY <2>1, EntryIs
    <3>2. 0 \in 0 .. Planes
      BY <1>1
    <3>3. Entry(l, 0) \in Int
      BY <3>2, EntryIs
    <3> QED BY <1>1, <2>3, <3>1, <3>3
  <2>6. t[e] \in Nat /\ Start(t, e + 1) = Start(t, e) + t[e]
    BY <1>1, <2>4, StartStep
  <2> QED BY <2>1, <2>2, <2>3, <2>5, <2>6
<1>4. \A i \in 1 .. Planes : w[i] \in Nat
  <2> SUFFICES ASSUME NEW i \in 1 .. Planes PROVE w[i] \in Nat
    OBVIOUS
  <2>1. i - 1 \in 0 .. Planes - 1 /\ (i - 1) + 1 = i
    BY <1>1
  <2> HIDE DEF w
  <2> QED BY <1>3, <2>1
<1>5. ASSUME NEW k \in 0 .. Planes PROVE First(t, l, k) = W(k)
  <2> DEFINE u == [i \in 1 .. k |-> t[Entry(l, (Planes - 1) - (i - 1))]]
  <2>1. \A i \in 1 .. k : i \in 1 .. Planes
    BY <1>1
  <2>2. \A i \in 1 .. k : u[i] = w[i]
    BY <2>1
  <2>3. IsFiniteSet(1 .. k)
    <3>1. 1 \in Int /\ k \in Int
      BY <1>1
    <3> QED BY <3>1, FS_Interval
  <2>4. DOMAIN u = 1 .. k
    OBVIOUS
  <2>5. First(t, l, k) = Sum(u)
    BY DEF First
  <2> HIDE DEF u, w
  <2>6. \A i \in 1 .. k : w[i] \in Int /\ u[i] = w[i]
    BY <1>4, <2>1, <2>2
  <2>7. SumFunctionOnSet(u, 1 .. k) = SumFunctionOnSet(w, 1 .. k)
    BY <2>3, <2>6, SumAlike
  <2> QED BY <2>4, <2>5, <2>7 DEF Sum, SumFunction
<1> HIDE DEF w
<1>6. W(0) = 0
  <2>1. 1 .. 0 = {}
    OBVIOUS
  <2>2. SumFunctionOnSet(w, {}) = 0
    BY FS_EmptySet, SumByChoice
  <2> QED BY <2>1, <2>2
<1>7. ASSUME NEW k \in 0 .. Planes - 1 PROVE W(k + 1) = w[k + 1] + W(k)
  <2>1. k + 1 \notin 1 .. k /\ 1 .. k + 1 = {k + 1} \cup (1 .. k)
    BY <1>1
  <2>2. IsFiniteSet(1 .. k)
    <3>1. 1 \in Int /\ k \in Int
      BY <1>1
    <3> QED BY <3>1, FS_Interval
  <2>3. \A i \in 1 .. k : i \in 1 .. Planes
    BY <1>1
  <2>4. w[k + 1] \in Int /\ \A i \in 1 .. k : w[i] \in Int
    BY <1>3, <1>4, <2>3
  <2> QED BY <2>1, <2>2, <2>4, SumAdd
<1> DEFINE K == {k \in Nat : k <= Planes =>
                   W(k) \in Nat /\ Start(t, Entry(l, Planes - k)) + W(k) = Start(t, Entry(l, Planes))}
<1> HIDE DEF W
<1>8. 0 \in K
  <2>1. Planes - 0 = Planes /\ 0 \in 0 .. Planes
    BY <1>1
  <2>2. PICK a \in Nat : a = Start(t, Entry(l, Planes))
    BY <1>2, <2>1
  <2> QED BY <1>6, <2>1, <2>2
<1>9. ASSUME NEW k \in Nat, k \in K PROVE k + 1 \in K
  <2> SUFFICES ASSUME k + 1 <= Planes
               PROVE  /\ W(k + 1) \in Nat
                      /\ Start(t, Entry(l, Planes - (k + 1))) + W(k + 1) = Start(t, Entry(l, Planes))
    OBVIOUS
  <2>1. k \in 0 .. Planes - 1 /\ k <= Planes
    BY <1>1
  <2>2. PICK a, b, c, d, e : /\ a = W(k) /\ b = w[k + 1] /\ c = Start(t, Entry(l, Planes - k))
                             /\ d = Start(t, Entry(l, Planes - (k + 1))) /\ e = Start(t, Entry(l, Planes))
    OBVIOUS
  <2>3. a \in Nat /\ c + a = e
    BY <1>9, <2>1, <2>2
  <2>4. b \in Nat /\ c = d + b /\ d \in Nat
    <3>1. d \in Nat
      BY <1>2, <1>3, <2>1, <2>2
    <3> QED BY <1>3, <2>1, <2>2, <3>1
  <2>5. W(k + 1) = b + a
    BY <1>7, <2>1, <2>2
  <2>6. b + a \in Nat /\ d + (b + a) = e
    BY <2>3, <2>4
  <2> QED BY <2>2, <2>5, <2>6
<1> HIDE DEF K
<1>10. Nat \subseteq K
  BY <1>8, <1>9, SetInduction
<1>11. ASSUME NEW k \in 0 .. Planes
       PROVE  W(k) \in Nat /\ Start(t, Entry(l, Planes - k)) + W(k) = Start(t, Entry(l, Planes))
  <2>1. k \in K /\ k <= Planes
    BY <1>1, <1>10
  <2> QED BY <2>1 DEF K
<1>12. \A k \in 0 .. Planes : /\ Entry(l, Planes - k) \in 1 .. Len(t)
                              /\ Start(t, Entry(l, Planes - k)) \in Nat
                              /\ First(t, l, k) \in Nat
                              /\ Start(t, Entry(l, Planes - k)) + First(t, l, k) = Start(t, Entry(l, Planes))
  BY <1>2, <1>5, <1>11
<1>13. First(t, l, 0) = 0
  <2>1. 0 \in 0 .. Planes
    BY <1>1
  <2> QED BY <1>5, <1>6, <2>1
<1>14. ASSUME NEW k \in 0 .. Planes - 1
       PROVE  First(t, l, k + 1) = First(t, l, k) + t[Entry(l, (Planes - 1) - k)]
  <2>1. PICK a, b : a = W(k) /\ b = w[k + 1]
    OBVIOUS
  <2>2. a \in Nat /\ b \in Nat /\ a + b = b + a
    <3>1. a \in Nat /\ b \in Nat
      BY <1>3, <1>4, <1>11, <2>1
    <3> QED BY <3>1
  <2>3. First(t, l, k) = a /\ First(t, l, k + 1) = b + a
    BY <1>3, <1>5, <1>7, <2>1
  <2> QED BY <1>3, <2>1, <2>2, <2>3
<1> QED BY <1>3, <1>12, <1>13, <1>14

\* What Bytes() lists.
LEMMA BytesList ==
  ASSUME NEW o \in Nat, NEW n \in Nat
  PROVE  /\ Bytes(o, n) \in Seq(Nat) /\ Len(Bytes(o, n)) = n
         /\ ToSet(Bytes(o, n)) = o + 1 .. o + n
<1> DEFINE s == Bytes(o, n)
<1>1. s \in [1 .. n -> Nat] /\ \A k \in 1 .. n : s[k] = o + k
  BY DEF Bytes
<1> HIDE DEF s
<1>2. s \in Seq(Nat)
  BY <1>1, SeqDef
<1>3. Len(s) = n
  <2>1. DOMAIN s = 1 .. Len(s) /\ Len(s) \in Nat /\ DOMAIN s = 1 .. n
    BY <1>1, <1>2, LenProperties
  <2>2. PICK q \in Nat : q = Len(s) /\ 1 .. q = 1 .. n
    BY <2>1, Zenon
  <2> QED BY <2>2
<1>4. ToSet(s) = o + 1 .. o + n
  <2>1. DOMAIN s = 1 .. n
    BY <1>1
  <2>2. ASSUME NEW x \in ToSet(s) PROVE x \in o + 1 .. o + n
    <3>1. PICK k \in 1 .. n : x = s[k]
      BY <2>1 DEF ToSet
    <3> QED BY <1>1, <3>1
  <2>3. ASSUME NEW x \in o + 1 .. o + n PROVE x \in ToSet(s)
    <3>1. x - o \in 1 .. n /\ o + (x - o) = x
      OBVIOUS
    <3>2. s[x - o] = x
      BY <1>1, <3>1
    <3> QED BY <2>1, <3>1, <3>2 DEF ToSet
  <2> QED BY <2>2, <2>3
<1> QED BY <1>2, <1>3, <1>4 DEF s

\* The planes kept of a stage are the last ones, and the bytes read its last bytes.
LEMMA StageRead ==
  ASSUME NEW t, IsSizeTable(t), NEW l \in Lids, NEW k \in 0 .. Planes
  PROVE  Extents(t, KeptEntries(l, k))
           = Start(t, Entry(l, Planes)) - First(t, l, k) + 1 .. Start(t, Entry(l, Planes))
<1>1. /\ Planes \in Nat \ {0} /\ LastEntry \in Nat /\ LastEntry > 2
      /\ t \in Seq(Nat) /\ Len(t) = LastEntry
  BY EntryIs DEF IsSizeTable
<1>2. \A j \in 0 .. Planes : Start(t, Entry(l, Planes - j)) \in Nat /\ First(t, l, j) \in Nat
  BY FirstIs
<1>3. \A j \in 0 .. Planes : Start(t, Entry(l, Planes - j)) + First(t, l, j) = Start(t, Entry(l, Planes))
  BY FirstIs
<1> DEFINE p == [i \in 1 .. k + 1 |-> Start(t, Entry(l, Planes - ((k + 1) - i)))]
<1>4. ASSUME NEW i \in 1 .. k
      PROVE  /\ p[i] \in Nat /\ p[i + 1] \in Nat /\ p[i] <= p[i + 1]
             /\ p[i] + 1 .. p[i + 1] = Extent(t, Entry(l, Planes - ((k + 1) - i)))
             /\ (k + 1) - i \in 1 .. k
  <2>1. PICK b \in 1 .. k : b = (k + 1) - i /\ b \in 1 .. Planes
    BY <1>1
  <2>2. p[i] = Start(t, Entry(l, Planes - b)) /\ p[i + 1] = Start(t, Entry(l, Planes - (b - 1)))
    <3>1. i \in 1 .. k + 1 /\ i + 1 \in 1 .. k + 1 /\ (k + 1) - (i + 1) = b - 1
      BY <1>1, <2>1
    <3> QED BY <2>1, <3>1
  <2>3. PICK e : e = Entry(l, Planes - b)
    OBVIOUS
  <2>4. e \in 1 .. Len(t) /\ Entry(l, Planes - (b - 1)) = e + 1
    <3>1. Planes - b \in 0 .. Planes /\ Planes - (b - 1) \in 0 .. Planes /\ 0 \in 0 .. Planes
          /\ Planes - (b - 1) = (Planes - b) + 1
      BY <1>1, <2>1
    <3>2. /\ Entry(l, Planes - b) = Entry(l, 0) + (Planes - b)
          /\ Entry(l, Planes - (b - 1)) = Entry(l, 0) + (Planes - (b - 1))
          /\ Entry(l, 0) \in 2 .. LastEntry /\ Entry(l, Planes - b) \in 2 .. LastEntry
      BY <3>1, EntryIs
    <3>3. PICK x \in Int : x = Entry(l, 0)
      BY <3>2
    <3> QED BY <1>1, <2>1, <2>3, <3>1, <3>2, <3>3
  <2>5. Start(t, e) \in Nat /\ Start(t, e + 1) = Start(t, e) + t[e] /\ t[e] \in Nat
    BY <1>1, <2>4, StartStep
  <2>6. PICK x \in Nat, y \in Nat : x = Start(t, e) /\ y = Start(t, e + 1) /\ x <= y
    BY <2>5
  <2>7. p[i] = x /\ p[i + 1] = y
    BY <2>2, <2>3, <2>4, <2>6
  <2>8. Extent(t, e) = x + 1 .. y
    BY <2>6 DEF Extent
  <2> HIDE DEF p
  <2> QED BY <2>1, <2>3, <2>6, <2>7, <2>8
<1>5. \A x : x \in Extents(t, KeptEntries(l, k)) <=> \E i \in 1 .. k : x \in p[i] + 1 .. p[i + 1]
  <2> HIDE DEF p
  <2>1. ASSUME NEW x, NEW b \in 1 .. k, x \in Extent(t, Entry(l, Planes - b))
        PROVE  \E i \in 1 .. k : x \in p[i] + 1 .. p[i + 1]
    <3>1. PICK i \in 1 .. k : b = (k + 1) - i
      <4>1. (k + 1) - b \in 1 .. k /\ b = (k + 1) - ((k + 1) - b)
        BY <1>1
      <4> QED BY <4>1
    <3> QED BY <1>4, <2>1, <3>1
  <2>2. ASSUME NEW x, NEW i \in 1 .. k, x \in p[i] + 1 .. p[i + 1]
        PROVE  \E b \in 1 .. k : x \in Extent(t, Entry(l, Planes - b))
    <3>1. PICK b : b = (k + 1) - i
      OBVIOUS
    <3>2. b \in 1 .. k /\ x \in Extent(t, Entry(l, Planes - b))
      BY <1>4, <2>2, <3>1
    <3> QED BY <3>2
  <2> QED BY <2>1, <2>2 DEF Extents, KeptEntries
<1>6. p[1] = Start(t, Entry(l, Planes - k)) /\ p[k + 1] = Start(t, Entry(l, Planes))
  <2>1. 1 \in 1 .. k + 1 /\ k + 1 \in 1 .. k + 1 /\ (k + 1) - 1 = k /\ Planes - ((k + 1) - (k + 1)) = Planes
    BY <1>1
  <2> QED BY <2>1
<1>7. \A i \in 1 .. k + 1 : p[i] \in Nat
  <2> SUFFICES ASSUME NEW i \in 1 .. k + 1 PROVE p[i] \in Nat
    OBVIOUS
  <2>1. (k + 1) - i \in 0 .. Planes
    BY <1>1
  <2> QED BY <1>2, <2>1
<1> HIDE DEF p
<1>8. MakeOne(k, p)
  <2>1. k \in Nat /\ \A i \in 1 .. k : p[i] <= p[i + 1]
    BY <1>1, <1>4
  <2> QED BY <1>7, <2>1, Contiguous, Zenon
<1>9. Extents(t, KeptEntries(l, k)) = p[1] + 1 .. p[k + 1]
  BY <1>5, <1>8 DEF MakeOne
<1>10. PICK a, b, c : /\ a = p[1] /\ b = First(t, l, k) /\ c = p[k + 1]
                      /\ a \in Nat /\ b \in Nat /\ a + b = c
  BY <1>2, <1>3, <1>6
<1>11. c - b = a
  BY <1>10
<1> QED BY <1>6, <1>9, <1>10, <1>11

\* What the drivers copy of a stage are as many bytes, but its first ones.
LEMMA StageCopied ==
  ASSUME NEW t, IsSizeTable(t), NEW l \in Lids, NEW k \in 0 .. Planes
  PROVE  /\ CopiedStage(t, l, k) \in Seq(Nat)
         /\ Len(CopiedStage(t, l, k)) = First(t, l, k)
         /\ ToSet(CopiedStage(t, l, k))
              = Start(t, Entry(l, 0)) + 1 .. Start(t, Entry(l, 0)) + First(t, l, k)
<1>1. Planes \in Nat \ {0}
  BY EntryIs
<1>2. PICK s \in Nat : s = Start(t, Entry(l, 0))
  <2>1. Planes \in 0 .. Planes /\ Planes - Planes = 0
    BY <1>1
  <2> QED BY <2>1, FirstIs
<1> DEFINE n(j) == t[Entry(l, (Planes - 1) - j)]
           F(j) == First(t, l, j)
           f == [i \in 1 .. Planes |-> IF i - 1 < k THEN Bytes(s + F(i - 1), n(i - 1)) ELSE <<>>]
           c == FlattenSeq([i \in 1 .. Planes |-> f[i]])
           w == [i \in 1 .. Planes |-> Len(f[i])]
           W(m) == SumFunctionOnSet(w, 1 .. m)
<1>3. CopiedStage(t, l, k) = c
  BY <1>2 DEF CopiedStage, First
<1>4. /\ \A j \in 0 .. Planes : F(j) \in Nat
      /\ F(0) = 0
      /\ \A j \in 0 .. Planes - 1 : n(j) \in Nat /\ F(j + 1) = F(j) + n(j)
  BY FirstIs
<1> HIDE DEF F, n
<1>5. ASSUME NEW i \in 1 .. k
      PROVE  /\ i \in 1 .. Planes /\ f[i] \in Seq(Nat) /\ Len(f[i]) = n(i - 1) /\ n(i - 1) \in Nat
             /\ ToSet(f[i]) = (s + F(i - 1)) + 1 .. s + F(i)
             /\ F(i - 1) \in Nat /\ F(i) = F(i - 1) + n(i - 1)
  <2>1. i \in 1 .. Planes /\ i - 1 < k /\ i - 1 \in 0 .. Planes - 1 /\ i - 1 \in 0 .. Planes /\ (i - 1) + 1 = i
    BY <1>1
  <2>2. PICK a \in Nat, b \in Nat : a = F(i - 1) /\ b = n(i - 1) /\ F(i) = a + b
    BY <1>4, <2>1
  <2>3. f[i] = Bytes(s + a, b)
    BY <2>1, <2>2
  <2>4. s + a \in Nat /\ (s + a) + b = s + (a + b)
    OBVIOUS
  <2>5. /\ Bytes(s + a, b) \in Seq(Nat) /\ Len(Bytes(s + a, b)) = b
        /\ ToSet(Bytes(s + a, b)) = (s + a) + 1 .. (s + a) + b
    BY <2>4, BytesList
  <2> HIDE DEF f
  <2> QED BY <2>1, <2>2, <2>3, <2>4, <2>5
<1>6. ASSUME NEW i \in 1 .. Planes, i \notin 1 .. k PROVE f[i] = <<>>
  <2>1. ~(i - 1 < k)
    BY <1>1, <1>6
  <2> QED BY <2>1
<1> HIDE DEF f
<1>7. \A i \in 1 .. Planes : f[i] \in Seq(Nat)
  <2>1. <<>> \in Seq(Nat)
    OBVIOUS
  <2> QED BY <1>5, <1>6, <2>1
<1>8. PutTogether(Nat, Planes, f, c)
  <2>1. Planes \in Nat
    BY <1>1
  <2> QED BY <1>7, <2>1, FlattenGathers, Zenon
<1> HIDE DEF c
<1>9. /\ c \in Seq(Nat)
      /\ \A x : x \in ToSet(c) <=> \E i \in 1 .. Planes : x \in ToSet(f[i])
      /\ Len(c) = W(Planes)
  BY <1>8 DEF PutTogether
<1>10. \A x : x \in ToSet(c) <=> \E i \in 1 .. k : x \in ToSet(f[i])
  <2>1. ToSet(<<>>) = {}
    BY EmptySeq DEF ToSet
  <2>2. \A i \in 1 .. k : i \in 1 .. Planes
    BY <1>1
  <2> QED BY <1>6, <1>9, <2>1, <2>2
<1> DEFINE p == [i \in 1 .. k + 1 |-> s + F(i - 1)]
<1>11. \A i \in 1 .. k : /\ p[i] = s + F(i - 1) /\ p[i + 1] = s + F(i)
                         /\ p[i] \in Nat /\ p[i] <= p[i + 1]
  <2> SUFFICES ASSUME NEW i \in 1 .. k
               PROVE  /\ p[i] = s + F(i - 1) /\ p[i + 1] = s + F(i)
                      /\ p[i] \in Nat /\ p[i] <= p[i + 1]
    OBVIOUS
  <2>1. i \in 1 .. k + 1 /\ i + 1 \in 1 .. k + 1 /\ (i + 1) - 1 = i
    BY <1>1
  <2>2. p[i] = s + F(i - 1) /\ p[i + 1] = s + F(i)
    BY <2>1
  <2>3. PICK a \in Nat, b \in Nat : a = F(i - 1) /\ F(i) = a + b
    BY <1>5
  <2>4. s + a \in Nat /\ s + a <= s + (a + b)
    OBVIOUS
  <2> HIDE DEF p
  <2> QED BY <2>2, <2>3, <2>4
<1>12. p[1] = s /\ p[k + 1] = s + F(k)
  <2>1. 1 \in 1 .. k + 1 /\ k + 1 \in 1 .. k + 1 /\ 1 - 1 = 0 /\ (k + 1) - 1 = k
    BY <1>1
  <2>2. s + 0 = s
    OBVIOUS
  <2> QED BY <1>4, <2>1, <2>2
<1>13. \A i \in 1 .. k + 1 : p[i] \in Nat
  <2> SUFFICES ASSUME NEW i \in 1 .. k + 1 PROVE p[i] \in Nat
    OBVIOUS
  <2>1. i - 1 \in 0 .. Planes
    BY <1>1
  <2>2. F(i - 1) \in Nat
    BY <1>4, <2>1
  <2> QED BY <2>2
<1> HIDE DEF p
<1>14. MakeOne(k, p)
  <2>1. k \in Nat /\ \A i \in 1 .. k : p[i] <= p[i + 1]
    BY <1>1, <1>11
  <2> QED BY <1>13, <2>1, Contiguous, Zenon
<1>15. ToSet(c) = s + 1 .. s + F(k)
  <2>1. \A x : x \in ToSet(c) <=> \E i \in 1 .. k : x \in p[i] + 1 .. p[i + 1]
    <3>1. ASSUME NEW i \in 1 .. k PROVE ToSet(f[i]) = p[i] + 1 .. p[i + 1]
      <4>1. ToSet(f[i]) = (s + F(i - 1)) + 1 .. s + F(i)
        BY <1>5
      <4>2. p[i] = s + F(i - 1) /\ p[i + 1] = s + F(i)
        BY <1>11
      <4> QED BY <4>1, <4>2, Zenon
    <3> QED BY <1>10, <3>1, Zenon
  <2>2. \A x : x \in ToSet(c) <=> x \in p[1] + 1 .. p[k + 1]
    BY <1>14, <2>1 DEF MakeOne
  <2> QED BY <1>12, <2>2
<1>16. Len(c) = F(k)
  <2>1. \A i \in 1 .. Planes : w[i] = Len(f[i]) /\ w[i] \in Int
    BY <1>7, LenProperties
  <2>2. \A i \in 1 .. k : w[i] = n(i - 1)
    BY <1>5, <2>1
  <2>3. \A i \in 1 .. Planes : i \notin 1 .. k => w[i] = 0
    <3>1. Len(<<>>) = 0
      OBVIOUS
    <3> QED BY <1>6, <2>1, <3>1
  <2> DEFINE m(j) == IF j <= k THEN j ELSE k
             M == {j \in Nat : j <= Planes => W(j) = F(m(j))}
  <2> HIDE DEF w
  <2>4. 0 \in M
    <3>1. 1 .. 0 = {} /\ m(0) = 0
      OBVIOUS
    <3>2. SumFunctionOnSet(w, {}) = 0
      BY FS_EmptySet, SumByChoice
    <3> QED BY <1>4, <3>1, <3>2
  <2>5. ASSUME NEW j \in Nat, j \in M PROVE j + 1 \in M
    <3> SUFFICES ASSUME j + 1 <= Planes PROVE W(j + 1) = F(m(j + 1))
      OBVIOUS
    <3>1. W(j + 1) = w[j + 1] + W(j)
      <4>1. j + 1 \notin 1 .. j /\ 1 .. j + 1 = {j + 1} \cup (1 .. j)
        OBVIOUS
      <4>2. IsFiniteSet(1 .. j)
        <5>1. 1 \in Int /\ j \in Int
          OBVIOUS
        <5> QED BY <5>1, FS_Interval
      <4>3. j + 1 \in 1 .. Planes /\ \A i \in 1 .. j : i \in 1 .. Planes
        BY <1>1
      <4>4. w[j + 1] \in Int /\ \A i \in 1 .. j : w[i] \in Int
        BY <2>1, <4>3
      <4> QED BY <4>1, <4>2, <4>4, SumAdd
    <3>2. W(j) = F(m(j))
      BY <1>1, <2>5
    <3> HIDE DEF W, M
    <3>3. CASE j + 1 <= k
      <4>1. j + 1 \in 1 .. k /\ (j + 1) - 1 = j /\ m(j) = j /\ m(j + 1) = j + 1
        BY <1>1, <3>3
      <4>2. w[j + 1] = n(j) /\ n(j) \in Nat /\ F(j) \in Nat /\ F(j + 1) = F(j) + n(j)
        BY <1>5, <2>2, <4>1
      <4>3. PICK a \in Nat, b \in Nat : a = F(j) /\ b = n(j)
        BY <4>2
      <4>4. b + a = a + b
        OBVIOUS
      <4> QED BY <3>1, <3>2, <4>1, <4>2, <4>3, <4>4
    <3>4. CASE ~(j + 1 <= k)
      <4>1. j + 1 \in 1 .. Planes /\ j + 1 \notin 1 .. k /\ m(j) = k /\ m(j + 1) = k
        BY <1>1, <3>4
      <4>2. w[j + 1] = 0
        BY <2>3, <4>1
      <4>3. PICK a \in Nat : a = F(k)
        BY <1>4
      <4>4. 0 + a = a
        OBVIOUS
      <4> QED BY <3>1, <3>2, <4>1, <4>2, <4>3, <4>4
    <3> QED BY <3>3, <3>4
  <2> HIDE DEF M
  <2>6. Nat \subseteq M
    BY <2>4, <2>5, SetInduction
  <2>7. Planes \in M /\ Planes <= Planes
    BY <1>1, <2>6
  <2>8. W(Planes) = F(m(Planes))
    BY <2>7 DEF M
  <2>9. m(Planes) = k
    BY <1>1
  <2> QED BY <1>9, <2>8, <2>9 DEF w
<1> QED BY <1>2, <1>3, <1>9, <1>15, <1>16 DEF F

\* The first and the last bytes of a stage that are as many as the planes kept take.
HeadOf(t, l, k)  == Start(t, Entry(l, 0)) + 1 .. Start(t, Entry(l, 0)) + First(t, l, k)
TailOf(t, l, k)  == Start(t, Entry(l, Planes)) - First(t, l, k) + 1 .. Start(t, Entry(l, Planes))
StageOf(t, l)    == Start(t, Entry(l, 0)) + 1 .. Start(t, Entry(l, Planes))

\* The sizes a stage may have.
StageSizes == [Plane -> Sizes] \cup {Empty}

\* Head and tail of a stage lie in it, and are the same when all of it is kept or
\* nothing, or when there is nothing to keep.
LEMMA HeadAndTail ==
  ASSUME NEW s \in [Lids -> StageSizes], NEW t, IsTableOf(t, s),
         NEW l \in Lids, NEW k \in 0 .. Planes
  PROVE  /\ HeadOf(t, l, k) \subseteq StageOf(t, l)
         /\ TailOf(t, l, k) \subseteq StageOf(t, l)
         /\ HeadOf(t, l, k) = TailOf(t, l, k) <=> k \in {0, Planes} \/ s[l] = Empty
<1>1. /\ Planes \in Nat \ {0} /\ LastEntry \in Nat /\ LastEntry > 2
      /\ IsSizeTable(t) /\ t \in Seq(Nat) /\ Len(t) = LastEntry
  BY EntryIs DEF IsTableOf, IsSizeTable
<1> DEFINE n(j) == t[Entry(l, (Planes - 1) - j)]
           F(j) == First(t, l, j)
<1>2. /\ F(0) = 0
      /\ \A j \in 0 .. Planes : F(j) \in Nat
  BY <1>1, FirstIs
<1>3. \A j \in 0 .. Planes - 1 : n(j) \in Nat /\ F(j + 1) = F(j) + n(j)
  BY <1>1, FirstIs
<1>4. \A j \in 0 .. Planes - 1 : n(j) = s[l][j] /\ j \in Plane
  <2> SUFFICES ASSUME NEW j \in 0 .. Planes - 1 PROVE n(j) = s[l][j] /\ j \in Plane
    OBVIOUS
  <2>1. (Planes - 1) - j \in 0 .. Planes - 1 /\ (Planes - 1) - ((Planes - 1) - j) = j
    BY <1>1
  <2>2. t[Entry(l, (Planes - 1) - j)] = s[l][(Planes - 1) - ((Planes - 1) - j)]
    BY <2>1 DEF IsTableOf
  <2> QED BY <2>1, <2>2 DEF Plane
<1>5. PICK a \in Nat, b \in Nat : /\ a = Start(t, Entry(l, 0)) /\ b = Start(t, Entry(l, Planes))
                                  /\ b = a + F(Planes) /\ a + F(k) <= b
  <2>1. /\ Planes \in 0 .. Planes /\ 0 \in 0 .. Planes /\ Planes - Planes = 0 /\ Planes - 0 = Planes
        /\ Planes - k \in 0 .. Planes
    BY <1>1
  <2>2. \A j \in 0 .. Planes : /\ Entry(l, Planes - j) \in 1 .. Len(t)
                               /\ Start(t, Entry(l, Planes - j)) \in Nat
                               /\ Start(t, Entry(l, Planes - j)) + F(j) = Start(t, Entry(l, Planes))
    BY <1>1, FirstIs
  <2>3. PICK a, b, c : a = Start(t, Entry(l, 0)) /\ b = Start(t, Entry(l, Planes)) /\ c = Start(t, Entry(l, Planes - k))
    OBVIOUS
  <2>4. a \in Nat /\ b \in Nat /\ c \in Nat /\ a + F(Planes) = b /\ c + F(k) = b
    BY <2>1, <2>2, <2>3
  <2>5. a <= c
    <3>1. PICK d, e : d = Entry(l, 0) /\ e = Entry(l, Planes - k)
      OBVIOUS
    <3>2. d \in 1 .. Len(t) /\ e \in 1 .. Len(t)
      BY <2>1, <2>2, <3>1
    <3>3. e = d + (Planes - k)
      BY <2>1, <3>1, EntryIs
    <3>4. d \in 1 .. Len(t) + 1 /\ e \in 1 .. Len(t) + 1 /\ d <= e
      BY <1>1, <2>1, <3>2, <3>3
    <3> QED BY <1>1, <2>3, <3>1, <3>4, StartOrder
  <2>6. F(k) \in Nat
    BY <1>2
  <2> QED BY <2>3, <2>4, <2>5, <2>6
<1> HIDE DEF F, n
<1>6. F(k) = F(Planes) \/ F(k) = 0 <=> k \in {0, Planes} \/ s[l] = Empty
  <2>1. ASSUME s[l] = Empty PROVE F(k) = 0
    <3> DEFINE K == {j \in Nat : j <= Planes => F(j) = 0}
    <3>1. 0 \in K
      BY <1>2
    <3>2. ASSUME NEW j \in Nat, j \in K PROVE j + 1 \in K
      <4> SUFFICES ASSUME j + 1 <= Planes PROVE F(j + 1) = 0
        OBVIOUS
      <4>1. j \in 0 .. Planes - 1 /\ j <= Planes
        BY <1>1
      <4>2. n(j) = 0
        BY <1>4, <2>1, <4>1 DEF Empty
      <4>3. F(j) = 0
        BY <3>2, <4>1
      <4> QED BY <1>3, <4>1, <4>2, <4>3
    <3> HIDE DEF K
    <3>3. Nat \subseteq K
      BY <3>1, <3>2, SetInduction
    <3>4. k \in K /\ k <= Planes
      BY <1>1, <3>3
    <3> QED BY <3>4 DEF K
  <2>2. ASSUME s[l] # Empty, k \notin {0, Planes} PROVE F(k) # 0 /\ F(k) # F(Planes)
    <3>1. \A j \in 0 .. Planes - 1 : n(j) \in Nat \ {0}
      <4>1. s[l] \in [Plane -> Sizes]
        BY <2>2 DEF StageSizes
      <4> QED BY <1>4, <4>1, SizesAssumption
    <3>2. ASSUME NEW i \in 0 .. Planes, NEW d \in Nat, i + d <= Planes PROVE F(i + d) >= F(i) + d
      <4> DEFINE K == {j \in Nat : i + j <= Planes => F(i + j) >= F(i) + j}
      <4>1. 0 \in K
        <5>1. i + 0 = i /\ F(i) \in Nat
          BY <1>2
        <5> QED BY <5>1
      <4>2. ASSUME NEW j \in Nat, j \in K PROVE j + 1 \in K
        <5> SUFFICES ASSUME i + (j + 1) <= Planes PROVE F(i + (j + 1)) >= F(i) + (j + 1)
          OBVIOUS
        <5>1. i + j \in 0 .. Planes - 1 /\ i + j <= Planes /\ i + j \in 0 .. Planes /\ i + (j + 1) = (i + j) + 1
          BY <1>1
        <5>2. PICK x, y, z : x = F(i) /\ y = F(i + j) /\ z = n(i + j)
          OBVIOUS
        <5>3. x \in Nat /\ y \in Nat /\ z \in Nat \ {0}
          BY <1>2, <3>1, <5>1, <5>2
        <5>4. F(i + (j + 1)) = y + z
          BY <1>3, <5>1, <5>2
        <5>5. y >= x + j
          BY <4>2, <5>1, <5>2
        <5>6. y + z >= x + (j + 1)
          BY <5>3, <5>5
        <5> QED BY <5>2, <5>4, <5>6
      <4> HIDE DEF K
      <4>3. Nat \subseteq K
        BY <4>1, <4>2, SetInduction
      <4>4. d \in K
        BY <4>3
      <4> QED BY <3>2, <4>4 DEF K
    <3>3. 0 + k = k /\ k + (Planes - k) = Planes /\ k \in Nat \ {0} /\ Planes - k \in Nat \ {0}
          /\ 0 \in 0 .. Planes /\ 0 + k <= Planes /\ k + (Planes - k) <= Planes
      BY <1>1, <2>2
    <3>4. F(0 + k) >= F(0) + k /\ F(k + (Planes - k)) >= F(k) + (Planes - k)
      BY <3>2, <3>3
    <3>5. F(k) >= 0 + k /\ F(Planes) >= F(k) + (Planes - k)
      BY <1>2, <3>3, <3>4
    <3>6. F(k) \in Nat /\ F(Planes) \in Nat
      BY <1>1, <1>2
    <3> QED BY <3>3, <3>5, <3>6
  <2> QED BY <1>2, <2>1, <2>2
<1>7. PICK f \in Nat, g \in Nat : f = F(k) /\ g = F(Planes) /\ b = a + g /\ a + f <= b
  <2>1. Planes \in 0 .. Planes
    BY <1>1
  <2> QED BY <1>2, <1>5, <2>1
<1>8. /\ HeadOf(t, l, k) = a + 1 .. a + f
      /\ TailOf(t, l, k) = b - f + 1 .. b
      /\ StageOf(t, l) = a + 1 .. b
  BY <1>5, <1>7 DEF HeadOf, TailOf, StageOf, F
<1>9. a + 1 .. a + f \subseteq a + 1 .. b /\ b - f + 1 .. b \subseteq a + 1 .. b
  BY <1>7
<1>10. (a + 1 .. a + f) = (b - f + 1 .. b) <=> f = g \/ f = 0
  <2>1. CASE f = 0
    BY <1>7, <2>1
  <2>2. CASE f = g
    <3>1. a + f = b /\ b - f = a
      BY <1>7, <2>2
    <3> QED BY <2>2, <3>1
  <2>3. CASE f # 0 /\ f # g
    <3>1. a + 1 \in a + 1 .. a + f /\ a + 1 \notin b - f + 1 .. b
      BY <1>7, <2>3
    <3> QED BY <2>3, <3>1
  <2> QED BY <2>1, <2>2, <2>3
<1> QED BY <1>6, <1>7, <1>8, <1>9, <1>10

\* Stages lie apart from one another, and between the header and the last block.
LEMMA StagesApart ==
  ASSUME NEW t, IsSizeTable(t)
  PROVE  /\ \A l \in Lids : /\ StageOf(t, l) \cap Extent(t, 1) = {}
                            /\ StageOf(t, l) \cap Extent(t, LastEntry) = {}
         /\ \A l, m \in Lids : l # m => StageOf(t, l) \cap StageOf(t, m) = {}
<1>1. /\ Planes \in Nat \ {0} /\ LastEntry \in Nat /\ LastEntry > 2
      /\ t \in Seq(Nat) /\ Len(t) = LastEntry
      /\ 0 \in 0 .. Planes /\ Planes \in 0 .. Planes
  BY EntryIs DEF IsSizeTable
<1>2. \A l \in Lids : Entry(l, 0) \in 2 .. LastEntry /\ Entry(l, Planes) \in 2 .. LastEntry
  BY <1>1, EntryIs
<1>3. \A i, j \in 1 .. LastEntry + 1 : i <= j =>
        Start(t, i) \in Nat /\ Start(t, j) \in Nat /\ Start(t, i) <= Start(t, j)
  BY <1>1, StartOrder
<1>4. ASSUME NEW l \in Lids PROVE StageOf(t, l) \cap Extent(t, 1) = {}
  <2>1. /\ 1 + 1 \in 1 .. LastEntry + 1 /\ Entry(l, 0) \in 1 .. LastEntry + 1 /\ 1 + 1 <= Entry(l, 0)
    BY <1>1, <1>2
  <2>2. PICK a \in Nat, b \in Nat : a = Start(t, 1 + 1) /\ b = Start(t, Entry(l, 0)) /\ a <= b
    BY <1>3, <2>1
  <2>3. ASSUME NEW x, x \in StageOf(t, l), x \in Extent(t, 1) PROVE FALSE
    <3>1. x \in Int /\ x >= b + 1 /\ x <= a
      BY <2>2, <2>3 DEF StageOf, Extent
    <3> QED BY <2>2, <3>1
  <2> QED BY <2>3
<1>5. ASSUME NEW l \in Lids PROVE StageOf(t, l) \cap Extent(t, LastEntry) = {}
  <2>1. /\ LastEntry \in 1 .. LastEntry + 1 /\ Entry(l, Planes) \in 1 .. LastEntry + 1
        /\ Entry(l, Planes) <= LastEntry
    BY <1>1, <1>2
  <2>2. PICK a \in Nat, b \in Nat : a = Start(t, Entry(l, Planes)) /\ b = Start(t, LastEntry) /\ a <= b
    BY <1>3, <2>1
  <2>3. ASSUME NEW x, x \in StageOf(t, l), x \in Extent(t, LastEntry) PROVE FALSE
    <3>1. x \in Int /\ x <= a /\ x >= b + 1
      BY <2>2, <2>3 DEF StageOf, Extent
    <3> QED BY <2>2, <3>1
  <2> QED BY <2>3
<1>6. ASSUME NEW l \in Lids, NEW m \in Lids, l < m PROVE StageOf(t, l) \cap StageOf(t, m) = {}
  <2>1. Entry(l, Planes) <= Entry(m, 0)
    BY <1>6, EntryIs
  <2>2. Entry(m, 0) \in 1 .. LastEntry + 1 /\ Entry(l, Planes) \in 1 .. LastEntry + 1
    BY <1>1, <1>2
  <2>3. PICK a \in Nat, b \in Nat : a = Start(t, Entry(l, Planes)) /\ b = Start(t, Entry(m, 0)) /\ a <= b
    BY <1>3, <2>1, <2>2
  <2>4. ASSUME NEW x, x \in StageOf(t, l), x \in StageOf(t, m) PROVE FALSE
    <3>1. x \in Int /\ x <= a /\ x >= b + 1
      BY <2>3, <2>4 DEF StageOf
    <3> QED BY <2>3, <3>1
  <2> QED BY <2>4
<1>7. ASSUME NEW l \in Lids, NEW m \in Lids, l # m PROVE StageOf(t, l) \cap StageOf(t, m) = {}
  <2>1. l < m \/ m < l
    BY <1>7, EntryIs DEF Lids
  <2>2. StageOf(t, l) \cap StageOf(t, m) = StageOf(t, m) \cap StageOf(t, l)
    OBVIOUS
  <2> QED BY <1>6, <2>1, <2>2
<1> QED BY <1>4, <1>5, <1>7

\* The bytes that the drivers copy, for a selection that keeps some plane.
LEMMA FetchedIs ==
  ASSUME NEW t, IsSizeTable(t), NEW k \in [Lids -> 0 .. Planes], ~\A l \in Lids : k[l] = 0
  PROVE  /\ Len(fetched_data(t, k)) = Retrieved(t, k)
         /\ \A x : x \in ToSet(fetched_data(t, k)) <=>
              \/ x \in Extent(t, 1) \/ x \in Extent(t, LastEntry)
              \/ \E l \in Lids : x \in HeadOf(t, l, k[l])
<1> DEFINE f == [i \in 1 .. NumLids |-> CopiedStage(t, i - 1, k[i - 1])]
           c == FlattenSeq([i \in 1 .. NumLids |-> f[i]])
           w == [i \in 1 .. NumLids |-> Len(f[i])]
           h == Bytes(0, t[1])
           u == Bytes(Start(t, Len(t)), t[Len(t)])
<1>1. /\ NumLids \in Nat \ {0} /\ Planes \in Nat \ {0} /\ LastEntry \in Nat /\ LastEntry > 2
      /\ t \in Seq(Nat) /\ Len(t) = LastEntry
  BY EntryIs DEF IsSizeTable
<1>2. /\ \A i \in 1 .. NumLids : i - 1 \in Lids
      /\ \A l \in Lids : l + 1 \in 1 .. NumLids /\ (l + 1) - 1 = l
  BY <1>1 DEF Lids
<1>3. \A i \in 1 .. NumLids : /\ f[i] \in Seq(Nat) /\ Len(f[i]) = First(t, i - 1, k[i - 1])
                              /\ ToSet(f[i]) = HeadOf(t, i - 1, k[i - 1])
  <2> SUFFICES ASSUME NEW i \in 1 .. NumLids
               PROVE  /\ f[i] \in Seq(Nat) /\ Len(f[i]) = First(t, i - 1, k[i - 1])
                      /\ ToSet(f[i]) = HeadOf(t, i - 1, k[i - 1])
    OBVIOUS
  <2>1. PICK l \in Lids : l = i - 1
    BY <1>2
  <2>2. f[i] = CopiedStage(t, l, k[l]) /\ k[l] \in 0 .. Planes
    BY <2>1
  <2> HIDE DEF f
  <2> QED BY <2>1, <2>2, StageCopied DEF HeadOf
<1>4. fetched_data(t, k) = h \o c \o u
  BY Zenon DEF fetched_data
<1> HIDE DEF f
<1>5. PutTogether(Nat, NumLids, f, c)
  <2>1. NumLids \in Nat /\ \A i \in 1 .. NumLids : f[i] \in Seq(Nat)
    BY <1>1, <1>3
  <2> QED BY <2>1, FlattenGathers, Zenon
<1> HIDE DEF c
<1>6. /\ c \in Seq(Nat) /\ Len(c) = SumFunctionOnSet(w, 1 .. NumLids)
      /\ \A x : x \in ToSet(c) <=> \E l \in Lids : x \in HeadOf(t, l, k[l])
  <2>1. /\ c \in Seq(Nat) /\ Len(c) = SumFunctionOnSet(w, 1 .. NumLids)
        /\ \A x : x \in ToSet(c) <=> \E i \in 1 .. NumLids : x \in ToSet(f[i])
    BY <1>5 DEF PutTogether
  <2> HIDE DEF w
  <2> QED BY <1>2, <1>3, <2>1
<1>7. /\ h \in Seq(Nat) /\ Len(h) = t[1] /\ ToSet(h) = Extent(t, 1) /\ t[1] \in Nat
  <2>1. 1 \in 1 .. Len(t)
    BY <1>1
  <2>2. Start(t, 1) = 0 /\ t[1] \in Nat /\ Start(t, 1 + 1) = Start(t, 1) + t[1]
    BY <1>1, <2>1, StartStep
  <2>3. 0 \in Nat
    OBVIOUS
  <2>4. h \in Seq(Nat) /\ Len(h) = t[1] /\ ToSet(h) = 0 + 1 .. 0 + t[1]
    BY <2>2, <2>3, BytesList
  <2> HIDE DEF h
  <2> QED BY <2>2, <2>4 DEF Extent
<1>8. /\ u \in Seq(Nat) /\ Len(u) = t[LastEntry] /\ ToSet(u) = Extent(t, LastEntry) /\ t[LastEntry] \in Nat
  <2>1. LastEntry \in 1 .. Len(t)
    BY <1>1
  <2>2. /\ Start(t, LastEntry) \in Nat /\ t[LastEntry] \in Nat
        /\ Start(t, LastEntry + 1) = Start(t, LastEntry) + t[LastEntry]
    BY <1>1, <2>1, StartStep
  <2>3. u = Bytes(Start(t, LastEntry), t[LastEntry])
    BY <1>1
  <2> HIDE DEF u
  <2>4. /\ u \in Seq(Nat) /\ Len(u) = t[LastEntry]
        /\ ToSet(u) = Start(t, LastEntry) + 1 .. Start(t, LastEntry) + t[LastEntry]
    BY <2>2, <2>3, BytesList
  <2> QED BY <2>2, <2>4 DEF Extent
<1> HIDE DEF h, u
<1>9. PICK p : p = h \o c
  OBVIOUS
<1>10. /\ p \in Seq(Nat) /\ Len(p) = Len(h) + Len(c)
       /\ \A x : x \in ToSet(p) <=> x \in ToSet(h) \/ x \in ToSet(c)
  BY <1>6, <1>7, <1>9, ConcatMembers, ConcatProperties
<1>11. /\ Len(p \o u) = Len(p) + Len(u)
       /\ \A x : x \in ToSet(p \o u) <=> x \in ToSet(p) \/ x \in ToSet(u)
  BY <1>8, <1>10, ConcatMembers, ConcatProperties
<1>12. fetched_data(t, k) = p \o u
  BY <1>4, <1>9
<1>13. \A x : x \in ToSet(fetched_data(t, k)) <=>
         \/ x \in Extent(t, 1) \/ x \in Extent(t, LastEntry)
         \/ \E l \in Lids : x \in HeadOf(t, l, k[l])
  BY <1>6, <1>7, <1>8, <1>10, <1>11, <1>12
<1>14. Retrieved(t, k) = (t[1] + t[LastEntry]) + SumFunctionOnSet(w, 1 .. NumLids)
  <2> DEFINE inner(l) == Sum([b \in 1 .. k[l] |-> data_lb(t, l, b - 1)[2]])
             v == [i \in 1 .. NumLids |-> inner(i - 1)]
  <2>1. ASSUME NEW l \in Lids PROVE inner(l) = First(t, l, k[l])
    <3>1. \A b \in 1 .. k[l] : data_lb(t, l, b - 1)[2] = t[Entry(l, (Planes - 1) - (b - 1))]
      BY DEF data_lb
    <3>2. [b \in 1 .. k[l] |-> data_lb(t, l, b - 1)[2]]
            = [i \in 1 .. k[l] |-> t[Entry(l, (Planes - 1) - (i - 1))]]
      BY <3>1
    <3> QED BY <3>2, Zenon DEF First
  <2>2. Retrieved(t, k) = (t[1] + t[Len(t)]) + Sum(v)
    BY Zenon DEF Retrieved
  <2>3. v = w
    <3> HIDE DEF inner
    <3>1. \A i \in 1 .. NumLids : inner(i - 1) = Len(f[i])
      BY <1>2, <1>3, <2>1
    <3> QED BY <3>1
  <2>4. Sum(w) = SumFunctionOnSet(w, 1 .. NumLids)
    <3>1. DOMAIN w = 1 .. NumLids
      OBVIOUS
    <3> QED BY <3>1 DEF Sum, SumFunction
  <2> HIDE DEF v, w
  <2> QED BY <1>1, <2>2, <2>3, <2>4
<1> HIDE DEF w
<1>15. Len(fetched_data(t, k)) = Retrieved(t, k)
  <2>1. Len(c) \in Nat
    BY <1>6, LenProperties
  <2>2. PICK a \in Nat, b \in Nat, d \in Nat : a = t[1] /\ b = t[LastEntry] /\ d = Len(c)
    BY <1>7, <1>8, <2>1
  <2>3. Len(fetched_data(t, k)) = (a + d) + b
    BY <1>7, <1>8, <1>10, <1>11, <1>12, <2>2
  <2>4. Retrieved(t, k) = (a + b) + d
    BY <1>6, <1>14, <2>2
  <2> QED BY <2>3, <2>4
<1> QED BY <1>13, <1>15

-----------------------------------------------------------------------------
(* Bundles of streams laid out by compress() *)

\* What the first decode of such a stream logs.
FirstLog == Accesses(lossless_size(size), kept)

\* A bundle of such a stream has the bytes of its first log until the second decode.
LayoutInv ==
  codec = "IPComp" =>
    /\ size \in [Lids -> [Plane -> Sizes] \cup {Empty}]
    /\ full_size = Sum(lossless_size(size))
    /\ pc = "logged" => log = FirstLog
    /\ pc \in {"shipped", "rebuilt"} => BytesOf(table) = BytesOf(FirstLog)

\* The first decode is bundled, and the bundle rebuilt.
LEMMA NextLayout == BundleInv /\ LayoutInv /\ [Next]_vars => LayoutInv'
<1> SUFFICES ASSUME BundleInv, LayoutInv, [Next]_vars, codec' = "IPComp" PROVE LayoutInv'
  BY DEF LayoutInv
<1>1. TypeInv
  BY DEF BundleInv
<1>2. UNCHANGED <<codec, size, kept, full_size>>
  BY DEF Next, Retrieve, Rebuild, Reconstruct, vars, bundleVars
<1>3. /\ size \in [Lids -> [Plane -> Sizes] \cup {Empty}]
      /\ full_size = Sum(lossless_size(size))
      /\ pc = "logged" => log = FirstLog
      /\ pc \in {"shipped", "rebuilt"} => BytesOf(table) = BytesOf(FirstLog)
  BY <1>2 DEF LayoutInv
<1>4. FirstLog' = FirstLog
  BY <1>2 DEF FirstLog
<1>5. BytesOf(table)' = BytesOf(table') /\ lossless_size(size)' = lossless_size(size)
  BY <1>2 DEF BytesOf
<1>6. /\ pc' = "logged" => log' = FirstLog
      /\ pc' \in {"shipped", "rebuilt"} => BytesOf(table') = BytesOf(FirstLog)
  <2>1. CASE Retrieve
    <3>1. pc = "logged" /\ pc' \in {"refused", "shipped"} /\ (pc' = "shipped" => table' = merge_ranges(log))
      BY <1>1, <2>1, RetrieveStep DEF Retrieve
    <3>2. BytesOf(merge_ranges(log)) = BytesOf(log)
      BY <1>1, MergeCorrect DEF TypeInv
    <3> QED BY <1>3, <3>1, <3>2
  <2>2. CASE Rebuild
    BY <1>3, <2>2 DEF Rebuild
  <2>3. CASE Reconstruct(SecondLogs)
    BY <2>3 DEF Reconstruct
  <2>4. CASE UNCHANGED vars
    BY <1>3, <2>4 DEF vars, bundleVars
  <2> QED BY <2>1, <2>2, <2>3, <2>4 DEF Next
<1> QED BY <1>2, <1>3, <1>4, <1>5, <1>6 DEF LayoutInv, BytesOf

\* Every bundle of such a stream has the bytes that its first decode read.
THEOREM LayoutInvariant == Spec => []LayoutInv
<1>1. Init => LayoutInv
  BY DEF Init, LoggedInit, LayoutInv, FirstLog
<1>2. BundleInv /\ LayoutInv /\ [Next]_vars => LayoutInv'
  BY NextLayout
<1> QED BY <1>1, <1>2, BundleInvariant, PTL DEF Spec

\* What a first log reads: the header, and nothing outside the stream.
LEMMA FirstReads ==
  ASSUME BundleInv, LayoutInv, codec = "IPComp"
  PROVE  /\ BytesOf(FirstLog) = Extents(lossless_size(size), ReadEntries(kept))
         /\ BytesOf(FirstLog) \subseteq 1 .. full_size
         /\ \A b \in 1 .. HeaderSize : b \in BytesOf(FirstLog)
<1>1. size \in [Lids -> [Plane -> Nat]] /\ kept \in [Lids -> 0 .. Planes]
  BY DEF BundleInv, TypeInv
<1>2. PICK t : t = lossless_size(size)
  OBVIOUS
<1>3. IsTableOf(t, size)
  BY <1>1, <1>2, TableEntries
<1>4. IsSizeTable(t) /\ t \in Seq(Nat) /\ Len(t) = LastEntry /\ t[1] = HeaderSize
  BY <1>3 DEF IsTableOf, IsSizeTable
<1>5. BytesOf(FirstLog) = Extents(t, ReadEntries(kept))
  BY <1>1, <1>2, <1>4, AccessedBytes DEF FirstLog
<1>6. /\ LastEntry \in Nat /\ LastEntry > 2 /\ Planes \in Nat \ {0}
      /\ \A i \in 2 .. LastEntry - 1 : i \in 1 .. LastEntry
  BY EntryIs
<1>7. \A i \in ReadEntries(kept) : i \in 1 .. Len(t)
  <2>1. 1 \in 1 .. Len(t) /\ LastEntry \in 1 .. Len(t)
    BY <1>4, <1>6
  <2>2. ASSUME NEW l \in Lids, NEW b \in 1 .. kept[l] PROVE Entry(l, Planes - b) \in 1 .. Len(t)
    <3>1. kept[l] \in 0 .. Planes
      BY <1>1
    <3>2. Planes - b \in 0 .. Planes - 1
      BY <1>6, <3>1
    <3> QED BY <1>4, <1>6, <3>2, EntryIs
  <2> QED BY <2>1, <2>2 DEF ReadEntries, KeptEntries
<1>8. BytesOf(FirstLog) \subseteq 1 .. full_size
  <2>1. Sum(t) = full_size
    BY <1>2 DEF LayoutInv
  <2>2. \A i \in 1 .. Len(t) : Extent(t, i) \subseteq 1 .. Sum(t)
    BY <1>4, ExtentsApart
  <2> QED BY <1>5, <1>7, <2>1, <2>2 DEF Extents
<1>9. 1 .. HeaderSize \subseteq BytesOf(FirstLog)
  <2>1. 1 \in ReadEntries(kept)
    BY DEF ReadEntries
  <2>2. Extent(t, 1) = 1 .. HeaderSize
    <3>1. 1 \in 1 .. Len(t)
      BY <1>4, <1>6
    <3>2. Start(t, 1) = 0 /\ Start(t, 1 + 1) = Start(t, 1) + t[1]
      BY <1>4, <3>1, StartStep
    <3>3. HeaderSize \in Nat
      BY LayoutAssumption
    <3>4. Start(t, 1 + 1) = HeaderSize
      BY <1>4, <3>2, <3>3
    <3>5. Start(t, 1) + 1 = 1
      BY <3>2
    <3> QED BY <3>4, <3>5 DEF Extent
  <2> QED BY <1>5, <2>1, <2>2 DEF Extents
<1> QED BY <1>2, <1>5, <1>8, <1>9

\* A bundle of such a stream is never refused, and has as many bytes as
\* retrieved_size counts.
THEOREM AccountsAreExact == Spec => AccountsAgree
<1>1. BundleInv /\ LayoutInv /\ [Next]_vars =>
        [codec = "IPComp" /\ pc = "logged" =>
           pc' = "shipped" /\ Len(bytes') = Retrieved(lossless_size(size), kept)]_vars
  <2> SUFFICES ASSUME BundleInv, LayoutInv, Next, codec = "IPComp", pc = "logged"
               PROVE  pc' = "shipped" /\ Len(bytes') = Retrieved(lossless_size(size), kept)
    BY Zenon
  <2>1. TypeInv /\ log \in Seq(AnyRange) /\ full_size \in Nat
    BY DEF BundleInv, TypeInv
  <2>2. Retrieve
    BY DEF Next, Rebuild, Reconstruct
  <2>3. PICK m : m = merge_ranges(log)
    OBVIOUS
  <2>4. m \in Seq(AnyRange) /\ Tidy(m) /\ BytesOf(m) = BytesOf(log)
    BY <2>1, <2>3, MergeCorrect
  <2>5. log = FirstLog
    BY DEF LayoutInv
  <2>6. /\ BytesOf(m) = Extents(lossless_size(size), ReadEntries(kept))
        /\ BytesOf(m) \subseteq 1 .. full_size
        /\ \A b \in 1 .. HeaderSize : b \in BytesOf(m)
    BY <2>4, <2>5, FirstReads
  <2>7. m # <<>>
    <3>1. 1 \in BytesOf(m)
      <4>1. 1 \in 1 .. HeaderSize
        BY LayoutAssumption
      <4> QED BY <2>6, <4>1
    <3>2. \E k \in 1 .. Len(m) : 1 \in Span(m[k])
      BY <2>4, <3>1, BytesAre
    <3>3. m = <<>> => Len(m) = 0
      OBVIOUS
    <3> QED BY <3>2, <3>3
  <2>8. ASSUME NEW r \in ToSet(m) PROVE ~(End(r) > full_size)
    <3>1. PICK k \in 1 .. Len(m) : r = m[k]
      BY <2>4, LenProperties DEF ToSet
    <3>2. m[k][1] \in Nat /\ m[k][2] \in Nat \ {0} /\ End(m[k]) = m[k][1] + m[k][2]
      BY <2>4, TidyOrdered
    <3>a. PICK x, y, e : x = m[k][1] /\ y = m[k][2] /\ e = End(m[k])
      OBVIOUS
    <3>b. x \in Nat /\ y \in Nat \ {0} /\ e = x + y
      BY <3>2, <3>a, Zenon
    <3>c. e \in Nat /\ e \in x + 1 .. e
      BY <3>b
    <3>3. x = m[k][1] /\ e = End(m[k]) /\ e \in Nat /\ e \in x + 1 .. e
      BY <3>a, <3>c
    <3>4. e \in Span(m[k])
      BY <3>3 DEF Span
    <3>5. e \in BytesOf(m)
      BY <2>4, <3>4, BytesAre
    <3>6. e \in 1 .. full_size
      BY <2>6, <3>5
    <3> QED BY <2>1, <3>1, <3>3, <3>6
  <2>9. pc' = "shipped" /\ bytes' = Packed(m)
    BY <2>2, <2>3, <2>7, <2>8, Zenon DEF Retrieve
  <2>10. InStream(m)
    BY <2>1, <2>2, <2>3, <2>9, RetrieveStep DEF InStream
  <2>11. Cardinality(BytesOf(m)) = Len(Packed(m))
    BY <2>1, <2>4, <2>10, PackedIs
  <2>12. Retrieved(lossless_size(size), kept) = Cardinality(BytesOf(m))
    <3>1. IsTableOf(lossless_size(size), size)
      BY <2>1, TableEntries DEF TypeInv
    <3>2. IsSizeTable(lossless_size(size))
      BY <3>1 DEF IsTableOf
    <3>3. kept \in [Lids -> 0 .. Planes]
      BY <2>1 DEF TypeInv
    <3>4. Retrieved(lossless_size(size), kept) = Cardinality(Extents(lossless_size(size), ReadEntries(kept)))
      BY <3>2, <3>3, RetrievedIs
    <3> QED BY <2>6, <3>4
  <2> QED BY <2>9, <2>11, <2>12
<1> QED BY <1>1, BundleInvariant, LayoutInvariant, PTL DEF Spec, AccountsAgree

\* The reconstruct stage finds the header it needs for the same selection, accepts
\* the frame, and has read just what compress() wrote for the blocks needed.
THEOREM SameBlocksRead == Spec => LandsOnTheSameBlocks
<1>1. BundleInv /\ LayoutInv /\ [Next]_vars =>
        [codec = "IPComp" /\ pc = "rebuilt" =>
           /\ pc' = "accepted"
           /\ BytesOf(log') = Written(size, Needed)]_vars
  <2> SUFFICES ASSUME BundleInv, LayoutInv, Next, codec = "IPComp", pc = "rebuilt"
               PROVE  /\ pc' = "accepted"
                      /\ BytesOf(log') = Written(size, Needed)
    BY Zenon
  <2>1. TypeInv /\ Bundled /\ Restored /\ full_size \in Nat
    BY DEF BundleInv, TypeInv
  <2>2. Reconstruct(SecondLogs)
    BY DEF Next, Retrieve, Rebuild
  <2>3. BytesOf(table) = BytesOf(FirstLog)
    BY DEF LayoutInv
  <2>4. /\ BytesOf(FirstLog) = Extents(lossless_size(size), ReadEntries(kept))
        /\ \A b \in 1 .. HeaderSize : b \in BytesOf(FirstLog)
    BY FirstReads
  <2>5. \A b \in 1 .. HeaderSize : rebuilt[b] = Stream[b]
    BY <2>1, <2>3, <2>4 DEF Restored, Stream
  <2>6. log' = FirstLog
    BY <2>2, <2>5 DEF SecondLogs, Reconstruct, FirstLog
  <2>7. FirstLog \in Seq(AnyRange) /\ table \in Seq(AnyRange) /\ Tidy(table)
    BY <2>1, AccessesType DEF TypeInv, FirstLog, Bundled
  <2>8. \A r \in ToSet(merge_ranges(FirstLog)) : ranges_cover(table, r)
    BY <2>3, <2>7, Verdict
  <2>9. pc' = "accepted"
    BY <2>2, <2>6, <2>8 DEF Reconstruct
  <2>10. Written(size, Needed) = Extents(lossless_size(size), ReadEntries(kept))
    BY <2>1, WrittenIs
  <2> QED BY <2>4, <2>6, <2>9, <2>10
<1> QED BY <1>1, BundleInvariant, LayoutInvariant, PTL DEF Spec, LandsOnTheSameBlocks

\* The drivers' buffer of retrieved_size bytes is filled exactly, but with the bytes
\* that were read only when every stage was read as a whole or not at all.
THEOREM BuffersFill == Spec => []FetchedFillsItsBuffer
<1>1. BundleInv /\ LayoutInv => FetchedFillsItsBuffer
  <2> SUFFICES ASSUME BundleInv, LayoutInv, codec = "IPComp", pc = "logged"
               PROVE  /\ Len(fetched_data(lossless_size(size), kept)) = Retrieved(lossless_size(size), kept)
                      /\ ToSet(fetched_data(lossless_size(size), kept)) = BytesOf(log)
                           <=> \A l \in Lids : Whole(l)
    BY Zenon DEF FetchedFillsItsBuffer
  <2>1. /\ size \in [Lids -> [Plane -> Nat]] /\ kept \in [Lids -> 0 .. Planes]
        /\ size \in [Lids -> StageSizes] /\ log = FirstLog
    BY DEF BundleInv, TypeInv, LayoutInv, StageSizes
  <2>2. PICK t : t = lossless_size(size)
    OBVIOUS
  <2>3. IsTableOf(t, size) /\ IsSizeTable(t)
    <3>1. IsTableOf(t, size)
      BY <2>1, <2>2, TableEntries
    <3> QED BY <3>1 DEF IsTableOf
  <2>4. BytesOf(log) = Extents(t, ReadEntries(kept))
    BY <2>1, <2>2, FirstReads
  <2>5. CASE \A l \in Lids : kept[l] = 0
    <3>1. fetched_data(t, kept) = Bytes(0, t[1]) /\ Retrieved(t, kept) = t[1] /\ ReadEntries(kept) = {1}
      BY <2>5 DEF fetched_data, Retrieved, ReadEntries
    <3>2. t \in Seq(Nat) /\ 1 \in 1 .. Len(t)
      BY <2>3, EntryIs DEF IsSizeTable
    <3>3. Start(t, 1) = 0 /\ t[1] \in Nat /\ Start(t, 1 + 1) = Start(t, 1) + t[1]
      BY <3>2, StartStep
    <3>4. Len(Bytes(0, t[1])) = t[1] /\ ToSet(Bytes(0, t[1])) = 0 + 1 .. 0 + t[1]
      <4>1. 0 \in Nat
        OBVIOUS
      <4> QED BY <3>3, <4>1, BytesList
    <3>5. Extents(t, {1}) = 0 + 1 .. 0 + t[1]
      BY <3>3 DEF Extents, Extent
    <3>6. \A l \in Lids : Whole(l)
      BY <2>5 DEF Whole
    <3> QED BY <2>2, <2>4, <3>1, <3>4, <3>5, <3>6
  <2>6. CASE ~\A l \in Lids : kept[l] = 0
    <3>1. Len(fetched_data(t, kept)) = Retrieved(t, kept)
      BY <2>1, <2>3, <2>6, FetchedIs
    <3>2. PICK A : /\ A = ToSet(fetched_data(t, kept))
                   /\ \A x : x \in A <=> \/ x \in Extent(t, 1) \/ x \in Extent(t, LastEntry)
                                         \/ \E l \in Lids : x \in HeadOf(t, l, kept[l])
      BY <2>1, <2>3, <2>6, FetchedIs
    <3>3. \A x : x \in BytesOf(log) <=> \/ x \in Extent(t, 1) \/ x \in Extent(t, LastEntry)
                                        \/ \E l \in Lids : x \in TailOf(t, l, kept[l])
      <4>1. ReadEntries(kept) = {1, LastEntry} \cup UNION {KeptEntries(l, kept[l]) : l \in Lids}
        BY <2>6 DEF ReadEntries
      <4>2. \A l \in Lids : Extents(t, KeptEntries(l, kept[l])) = TailOf(t, l, kept[l])
        BY <2>1, <2>3, StageRead DEF TailOf
      <4>3. \A x : x \in Extents(t, ReadEntries(kept)) <=>
                     \/ x \in Extent(t, 1) \/ x \in Extent(t, LastEntry)
                     \/ \E l \in Lids : x \in Extents(t, KeptEntries(l, kept[l]))
        BY <4>1 DEF Extents
      <4> QED BY <2>4, <4>2, <4>3
    <3>4. \A l \in Lids : /\ HeadOf(t, l, kept[l]) \subseteq StageOf(t, l)
                          /\ TailOf(t, l, kept[l]) \subseteq StageOf(t, l)
                          /\ HeadOf(t, l, kept[l]) = TailOf(t, l, kept[l]) <=> Whole(l)
      BY <2>1, <2>3, HeadAndTail DEF Whole
    <3>5. /\ \A l \in Lids : /\ StageOf(t, l) \cap Extent(t, 1) = {}
                             /\ StageOf(t, l) \cap Extent(t, LastEntry) = {}
          /\ \A l, m \in Lids : l # m => StageOf(t, l) \cap StageOf(t, m) = {}
      BY <2>3, StagesApart
    <3>6. ASSUME A = BytesOf(log), NEW l \in Lids PROVE HeadOf(t, l, kept[l]) = TailOf(t, l, kept[l])
      <4>1. ASSUME NEW x, x \in StageOf(t, l)
            PROVE  /\ x \in A <=> x \in HeadOf(t, l, kept[l])
                   /\ x \in BytesOf(log) <=> x \in TailOf(t, l, kept[l])
        <5>1. x \notin Extent(t, 1) /\ x \notin Extent(t, LastEntry)
              /\ \A m \in Lids : m # l => x \notin StageOf(t, m)
          BY <3>5, <4>1
        <5>2. \A m \in Lids : m # l => x \notin HeadOf(t, m, kept[m]) /\ x \notin TailOf(t, m, kept[m])
          BY <3>4, <5>1
        <5> QED BY <3>2, <3>3, <5>1, <5>2
      <4>2. \A x \in HeadOf(t, l, kept[l]) : x \in TailOf(t, l, kept[l])
        BY <3>4, <3>6, <4>1
      <4>3. \A x \in TailOf(t, l, kept[l]) : x \in HeadOf(t, l, kept[l])
        BY <3>4, <3>6, <4>1
      <4> QED BY <4>2, <4>3
    <3>7. ASSUME \A l \in Lids : HeadOf(t, l, kept[l]) = TailOf(t, l, kept[l]) PROVE A = BytesOf(log)
      BY <3>2, <3>3, <3>7
    <3>8. A = BytesOf(log) <=> \A l \in Lids : Whole(l)
      BY <3>4, <3>6, <3>7
    <3> QED BY <2>2, <3>1, <3>2, <3>8
  <2> QED BY <2>5, <2>6
<1> QED BY <1>1, BundleInvariant, LayoutInvariant, PTL
=============================================================================
