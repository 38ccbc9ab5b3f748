--------------------------- MODULE CompressorProofs ---------------------------
(***************************************************************************)
(* Proofs about the two halves of the compressor.  The walk of the         *)
(* interpolation predictor: for every shape of one to four dimensions,     *)
(* every order of the directions and both interpolators.  The bitplane     *)
(* codec: for every width and every value, alone and in a stage of bytes.  *)
(***************************************************************************)
EXTENDS Interpolation, StageBytes, OperatorLemmas

-----------------------------------------------------------------------------
(* Arithmetic *)

\* A quotient is the largest number of times the divisor fits.
LEMMA DivFits ==
  ASSUME NEW a \in Nat, NEW s \in Nat \ {0}
  PROVE  /\ a \div s \in Nat
         /\ a % s = 0 => a = (a \div s) * s
         /\ \A i \in Nat : i <= a \div s <=> i * s <= a
<1>1. PICK k \in Int, r \in Int : k = a \div s /\ r = a % s
  BY DivMod
<1>2. r \in 0 .. s - 1 /\ a = k * s + r /\ k * s \in Int
  <2>1. a \in Int /\ a % s \in 0 .. s - 1 /\ a = (a \div s) * s + (a % s)
    BY DivMod
  <2>2. k * s \in Int
    OBVIOUS
  <2> QED BY <1>1, <2>1, <2>2
<1>3. ~(k <= -1)
  <2> SUFFICES ASSUME k <= -1 PROVE FALSE
    OBVIOUS
  <2>1. k * s <= -s
    BY MultipleAtLeast
  <2> QED BY <1>2, <2>1
<1>4. ASSUME NEW i \in Nat PROVE i <= k <=> i * s <= a
  <2>1. (i - k) * s = i * s - k * s /\ i * s \in Int /\ (i - k) * s \in Int
    OBVIOUS
  <2>2. (i - k >= 1 => (i - k) * s >= s) /\ (i - k <= -1 => (i - k) * s <= -s)
    BY MultipleAtLeast
  <2>3. i - k = 0 => i * s = k * s
    OBVIOUS
  <2> QED BY <1>2, <2>1, <2>2, <2>3
<1>5. k \in Nat
  BY <1>3
<1>6. r = 0 => a = k * s
  BY <1>2
<1> QED BY <1>1, <1>4, <1>5, <1>6

\* A multiple of a stride is a multiple of twice the stride when it is an even one.
LEMMA EvenMultiple ==
  ASSUME NEW i \in Nat, NEW s \in Nat \ {0}
  PROVE  /\ (i * s) \div s = i /\ (i * s) % s = 0
         /\ (i * s) % (s * 2) = 0 <=> i % 2 = 0
<1>1. (i * s) \div s = i /\ (i * s) % s = 0
  <2>1. i * s + 0 = i * s
    OBVIOUS
  <2> QED BY <2>1, DivUnique
<1>2. PICK m \in Nat : i = 2 * m \/ i = 2 * m + 1
  <2>1. i \div 2 \in Nat /\ (i = 2 * (i \div 2) \/ i = 2 * (i \div 2) + 1)
    OBVIOUS
  <2> QED BY <2>1
<1>3. s * 2 \in Nat \ {0}
  OBVIOUS
<1>4. CASE i = 2 * m
  <2>1. i * s = m * (s * 2) + 0
    BY <1>4
  <2>2. (i * s) % (s * 2) = 0
    BY <1>3, <2>1, DivUnique
  <2> QED BY <1>1, <1>4, <2>2
<1>5. CASE i = 2 * m + 1
  <2>1. i * s = m * (s * 2) + s
    BY <1>5
  <2>2. (m * (s * 2) + s) % (s * 2) = s
    <3>1. ASSUME NEW t \in Nat \ {0}, s \in 0 .. t - 1 PROVE (m * t + s) % t = s
      BY <3>1, DivUnique
    <3>2. s \in 0 .. s * 2 - 1
      OBVIOUS
    <3> QED BY <1>3, <3>1, <3>2
  <2> QED BY <1>1, <1>5, <2>1, <2>2
<1> QED BY <1>2, <1>4, <1>5

\* Stage after stage, the direction advances and then wraps.
LEMMA NextStage ==
  ASSUME NEW n \in 1 .. 4, NEW l \in Nat
  PROVE  /\ l % n \in 0 .. n - 1 /\ l \div n \in Nat
         /\ l % n < n - 1 => (l + 1) % n = (l % n) + 1 /\ (l + 1) \div n = l \div n
         /\ l % n = n - 1 => (l + 1) % n = 0 /\ (l + 1) \div n = l \div n + 1
         /\ \A k \in Nat : (l < k * n <=> l \div n < k) /\ (l = k * n - 1 => l \div n = k - 1 /\ l % n = n - 1)
<1>1. CASE n = 1
  BY <1>1
<1>2. CASE n = 2
  BY <1>2
<1>3. CASE n = 3
  BY <1>3
<1>4. CASE n = 4
  BY <1>4
<1> QED BY <1>1, <1>2, <1>3, <1>4
-----------------------------------------------------------------------------
(* Shapes, levels and stages *)

\* A shape has a largest extent, and its levels cover every extent.
LEMMA LevelsCover ==
  ASSUME NEW s \in Shapes
  PROVE  /\ s \in [1 .. Len(s) -> Nat \ {0}] /\ DOMAIN s = 1 .. Len(s) /\ Len(s) \in 1 .. 4
         /\ Max(Range(s)) \in Nat /\ \A i \in DOMAIN s : s[i] <= Max(Range(s))
         /\ Levels(s) \in Nat \ {0}
         /\ \A i \in DOMAIN s : s[i] <= Power(2, Levels(s))
<1> DEFINE n == Len(s)
           R == Range(s)
<1>1. s \in [1 .. n -> Nat \ {0}] /\ DOMAIN s = 1 .. n /\ n \in 1 .. 4 /\ \E i \in DOMAIN s : s[i] > 1
  BY ShapesAssumption, LenProperties
<1> HIDE DEF n
<1>2. PICK m \in Nat : (\E i \in 1 .. n : s[i] = m) /\ \A i \in 1 .. n : s[i] <= m
  <2> DEFINE B == {m \in Nat : \A i \in 1 .. n : s[i] <= m}
  <2>1. B # {}
    <3>1. CASE n = 1
      BY <1>1, <3>1
    <3>2. CASE n = 2
      <4>1. s[1] + s[2] \in B
        BY <1>1, <3>2
      <4> QED BY <4>1
    <3>3. CASE n = 3
      <4>1. s[1] + s[2] + s[3] \in B
        BY <1>1, <3>3
      <4> QED BY <4>1
    <3>4. CASE n = 4
      <4>1. s[1] + s[2] + s[3] + s[4] \in B
        BY <1>1, <3>4
      <4> QED BY <4>1
    <3>5. n = 1 \/ n = 2 \/ n = 3 \/ n = 4
      BY <1>1
    <3> HIDE DEF B
    <3> QED BY <3>1, <3>2, <3>3, <3>4, <3>5
  <2>2. PICK m \in B : \A k \in B : m <= k
    <3>1. B \subseteq Nat
      OBVIOUS
    <3> HIDE DEF B
    <3> QED BY <2>1, <3>1, LeastExists
  <2>3. \E i \in 1 .. n : s[i] = m
    <3> SUFFICES ASSUME \A i \in 1 .. n : s[i] # m PROVE FALSE
      OBVIOUS
    <3>1. m - 1 \in B
      BY <1>1
    <3> QED BY <2>2, <3>1
  <2> QED BY <2>2, <2>3
<1>3. R = {s[i] : i \in 1 .. n}
  BY <1>1 DEF Range
<1>4. Max(R) \in R /\ \A y \in R : Max(R) >= y
  <2>1. m \in R /\ \A y \in R : m >= y
    BY <1>1, <1>2, <1>3
  <2> QED BY <2>1, Zenon DEF Max
<1>5. Max(R) \in Nat /\ \A i \in 1 .. n : s[i] <= Max(R)
  BY <1>1, <1>3, <1>4
<1> HIDE DEF R
<1> DEFINE K == {l \in 0 .. Max(R) : \A i \in 1 .. n : s[i] <= Power(2, l)}
<1>6. Levels(s) = Min(K)
  BY <1>1, Zenon DEF Levels, R
<1>7. K \subseteq Nat /\ Max(R) \in K
  <2>1. Max(R) < Power(2, Max(R)) /\ Power(2, Max(R)) \in Nat
    BY <1>5, PowerPositive, PowerStep
  <2> QED BY <1>1, <1>5, <2>1
<1>8. Min(K) \in K
  <2> HIDE DEF K
  <2>1. \E x \in K : \A y \in K : x <= y
    BY <1>7, LeastExists
  <2> QED BY <2>1, Zenon DEF Min
<1>9. Power(2, 0) = 1
  BY PowerStep
<1>10. Levels(s) \in Nat \ {0} /\ \A i \in 1 .. n : s[i] <= Power(2, Levels(s))
  BY <1>1, <1>6, <1>8, <1>9
<1> QED BY <1>1, <1>5, <1>10 DEF n, R

\* What one call of the walk fixes.
Params ==
  /\ shape \in Shapes /\ interp \in Interpolators
  /\ base \in [Dims -> Dims] /\ IsInjective(base)
  /\ lost \in Stages(shape)

\* Every dimension has a place in the order of the directions.
LEMMA BaseCovers ==
  ASSUME Params
  PROVE  \A d \in Dims : \E j \in Dims : base[j] = d
<1>1. Dims = 1 .. Len(shape) /\ Len(shape) \in 1 .. 4
  BY LevelsCover DEF Params, Dims
<1>2. IsFiniteSet(Dims)
  BY <1>1, FS_Interval
<1>3. base \in Injection(Dims, Dims)
  BY DEF Params, Injection
<1>4. base \in Surjection(Dims, Dims)
  BY <1>2, <1>3, FS_Injection
<1> QED BY <1>4 DEF Surjection

\* The strides halve each time the directions have been walked through, down to 1.
LEMMA StageFacts ==
  ASSUME Params, NEW l \in Stages(shape)
  PROVE  /\ l \in Nat /\ l <= LastStage /\ LastStage \in Nat
         /\ Direct(l) \in Dims /\ Stride(l) \in Nat \ {0}
         /\ Direct(l) < Len(shape) =>
              l < LastStage /\ Direct(l + 1) = Direct(l) + 1 /\ Stride(l + 1) = Stride(l)
         /\ Direct(l) = Len(shape) /\ l < LastStage =>
              Direct(l + 1) = 1 /\ Stride(l) = Stride(l + 1) * 2
         /\ l = LastStage => Direct(l) = Len(shape) /\ Stride(l) = 1
         /\ Direct(0) = 1 /\ \A i \in Dims : shape[i] <= Stride(0) * 2
<1> DEFINE n == Len(shape)
           k == Levels(shape)
<1>1. Dims = 1 .. n /\ n \in 1 .. 4 /\ k \in Nat \ {0} /\ \A i \in Dims : shape[i] <= Power(2, k)
  BY LevelsCover DEF Params, Dims
<1>2. l \in 0 .. k * n - 1 /\ LastStage = k * n - 1
  BY DEF Stages, LastStage
<1>3. Direct(l) = (l % n) + 1 /\ Direct(l + 1) = ((l + 1) % n) + 1 /\ Direct(0) = (0 % n) + 1
  BY DEF Direct
<1>4. /\ Stride(l) = Power(2, k - 1 - (l \div n))
      /\ Stride(l + 1) = Power(2, k - 1 - ((l + 1) \div n))
      /\ Stride(0) = Power(2, k - 1 - (0 \div n))
  BY DEF Stride
<1> HIDE DEF n, k
<1>5. k * n \in Nat \ {0}
  BY <1>1
<1>6. l \in Nat /\ l <= LastStage /\ LastStage \in Nat /\ l < k * n
  BY <1>1, <1>2, <1>5
<1>7. l \div n < k /\ l % n \in 0 .. n - 1 /\ l \div n \in Nat
  BY <1>1, <1>6, NextStage
<1>8. Direct(l) \in Dims
  BY <1>1, <1>3, <1>7
<1>9. Stride(l) \in Nat \ {0}
  BY <1>1, <1>4, <1>7, PowerPositive
<1>10. ASSUME Direct(l) < n
       PROVE  l < LastStage /\ Direct(l + 1) = Direct(l) + 1 /\ Stride(l + 1) = Stride(l)
  <2>1. l % n < n - 1
    BY <1>1, <1>3, <1>7, <1>10
  <2>2. (l + 1) % n = (l % n) + 1 /\ (l + 1) \div n = l \div n
    BY <1>1, <1>6, <2>1, NextStage
  <2>3. l # k * n - 1
    <3>1. l = k * n - 1 => l % n = n - 1
      BY <1>1, <1>6, NextStage, Zenon
    <3> QED BY <1>1, <2>1, <3>1
  <2> QED BY <1>2, <1>3, <1>4, <1>6, <2>2, <2>3
<1>11. ASSUME Direct(l) = n, l < LastStage
       PROVE  Direct(l + 1) = 1 /\ Stride(l) = Stride(l + 1) * 2
  <2>1. l % n = n - 1
    BY <1>1, <1>3, <1>7, <1>11
  <2>2. (l + 1) % n = 0 /\ (l + 1) \div n = l \div n + 1
    BY <1>1, <1>6, <2>1, NextStage
  <2>3. l + 1 < k * n /\ l + 1 \in Nat
    BY <1>2, <1>5, <1>6, <1>11
  <2>4. (l + 1) \div n < k
    BY <1>1, <2>3, NextStage
  <2> DEFINE m == k - 1 - ((l + 1) \div n)
  <2>5. m \in Nat /\ k - 1 - (l \div n) = m + 1
    BY <1>1, <1>7, <2>2, <2>4
  <2>6. Power(2, m + 1) = 2 * Power(2, m) /\ Power(2, m) \in Nat
    BY <2>5, PowerStep
  <2> HIDE DEF m
  <2>7. Stride(l + 1) = Power(2, m) /\ Stride(l) = Power(2, m + 1)
    BY <1>4, <2>5 DEF m
  <2> QED BY <1>3, <2>2, <2>6, <2>7
<1>12. ASSUME l = LastStage PROVE Direct(l) = n /\ Stride(l) = 1
  <2>1. l \div n = k - 1 /\ l % n = n - 1
    BY <1>1, <1>2, <1>6, <1>12, NextStage
  <2>2. k - 1 - (l \div n) = 0 /\ Power(2, 0) = 1
    BY <1>1, <2>1, PowerStep
  <2> QED BY <1>1, <1>3, <1>4, <2>1, <2>2
<1>13. Direct(0) = 1 /\ \A i \in Dims : shape[i] <= Stride(0) * 2
  <2>1. 0 % n = 0 /\ 0 \div n = 0
    BY <1>1
  <2>2. k - 1 \in Nat /\ (k - 1) + 1 = k /\ k - 1 - 0 = k - 1
    BY <1>1
  <2>3. Power(2, (k - 1) + 1) = 2 * Power(2, k - 1) /\ Power(2, k - 1) \in Nat
    BY <2>2, PowerStep
  <2>4. Stride(0) = Power(2, k - 1)
    BY <1>4, <2>1, <2>2
  <2> QED BY <1>1, <1>3, <2>1, <2>2, <2>3, <2>4
<1> QED BY <1>6, <1>8, <1>9, <1>10, <1>11, <1>12, <1>13 DEF n
-----------------------------------------------------------------------------
(* Elements and lines *)

\* The elements are the places within the shape.
LEMMA ElementsAre ==
  ASSUME Params
  PROVE  \A p : p \in Elements <=> p \in [Dims -> Nat] /\ \A i \in Dims : p[i] < shape[i]
<1>1. /\ Max(Range(shape)) \in Nat /\ \A i \in Dims : shape[i] <= Max(Range(shape))
      /\ shape \in [Dims -> Nat \ {0}]
  BY LevelsCover DEF Params, Dims
<1> DEFINE m == Max(Range(shape))
<1>2. Elements = {p \in [Dims -> 0 .. m - 1] : \A i \in Dims : p[i] < shape[i]}
  BY DEF Elements
<1>3. m \in Nat /\ \A i \in Dims : shape[i] <= m
  BY <1>1
<1> HIDE DEF m
<1>4. ASSUME NEW p \in [Dims -> Nat], \A i \in Dims : p[i] < shape[i]
      PROVE  p \in [Dims -> 0 .. m - 1]
  <2>1. ASSUME NEW i \in Dims PROVE p[i] \in 0 .. m - 1
    <3>1. p[i] \in Nat /\ shape[i] \in Nat /\ shape[i] <= m /\ p[i] < shape[i]
      BY <1>1, <1>3, <1>4
    <3> QED BY <1>3, <3>1
  <2> QED BY <1>4, <2>1
<1>5. ASSUME NEW p \in [Dims -> 0 .. m - 1] PROVE p \in [Dims -> Nat]
  BY <1>5
<1> QED BY <1>2, <1>4, <1>5

\* An element of a line differs from the others along the line only.
LEMMA AtFacts ==
  ASSUME Params, NEW l \in Stages(shape), NEW p \in Elements, NEW i \in 0 .. Places(l) - 1
  PROVE  /\ At(p, l, i) \in Elements
         /\ At(p, l, i)[base[Direct(l)]] = i * Stride(l)
         /\ \A j \in Dims \ {Direct(l)} : At(p, l, i)[base[j]] = p[base[j]]
         /\ Places(l) \in Nat \ {0}
<1> DEFINE d == base[Direct(l)]
           s == Stride(l)
           e == shape[d]
           q == At(p, l, i)
<1>1. d \in Dims /\ s \in Nat \ {0} /\ e \in Nat \ {0}
  BY StageFacts, LevelsCover DEF Params, Dims
<1>2. Places(l) = (e - 1) \div s + 1
  BY DEF Places
<1>3. p \in [Dims -> Nat] /\ \A k \in Dims : p[k] < shape[k]
  BY ElementsAre
<1>4. q = [p EXCEPT ![d] = i * s]
  BY DEF At
<1>5. \A j \in Dims \ {Direct(l)} : base[j] # d /\ base[j] \in Dims
  BY StageFacts DEF Params, IsInjective
<1>6. e = shape[d]
  OBVIOUS
<1> HIDE DEF d, s, e, q
<1>7. e - 1 \in Nat /\ (e - 1) \div s \in Nat
  BY <1>1, DivFits
<1>8. i \in Nat /\ i <= (e - 1) \div s /\ Places(l) \in Nat \ {0}
  BY <1>2, <1>7
<1>9. i * s \in Nat /\ i * s <= e - 1
  BY <1>1, <1>7, <1>8, DivFits
<1>10. q \in [Dims -> Nat] /\ q[d] = i * s /\ \A k \in Dims \ {d} : q[k] = p[k]
  BY <1>1, <1>3, <1>4, <1>9
<1>11. \A k \in Dims : q[k] < shape[k]
  BY <1>1, <1>3, <1>6, <1>9, <1>10
<1>12. q \in Elements
  BY <1>10, <1>11, ElementsAre
<1> QED BY <1>1, <1>5, <1>8, <1>10, <1>12 DEF d, s, q

\* p lies on the grid of stage l in the direction at place j.
Aligned(p, l, j) == p[base[j]] % (Stride(l) * StrideMultiplication(l, j)) = 0

\* The elements that are final when stage l begins.
Done(l) == {p \in Elements : l <= LastStage => \A j \in Dims : Aligned(p, l, j)}

\* What stage l visits, and what was final before it, are the odd and the even places
\* of the lines on its grid.
OnLine(l) == {q \in Elements : /\ \A j \in Dims \ {Direct(l)} : Aligned(q, l, j)
                               /\ q[base[Direct(l)]] % Stride(l) = 0}

\* A stage visits the odd places of the lines it goes along.
LEMMA VisitedIs ==
  ASSUME Params, NEW l \in Stages(shape)
  PROVE  /\ Visited(l) = {q \in OnLine(l) : Place(q, l) % 2 = 1}
         /\ \A q \in OnLine(l) : Place(q, l) \in 0 .. Places(l) - 1
<1> DEFINE d == base[Direct(l)]
           s == Stride(l)
           e == shape[d]
<1>1. d \in Dims /\ s \in Nat \ {0} /\ e \in Nat \ {0} /\ Direct(l) \in Dims
  BY StageFacts, LevelsCover DEF Params, Dims
<1>2. \A p : p \in Elements <=> p \in [Dims -> Nat] /\ \A k \in Dims : p[k] < shape[k]
  BY ElementsAre
<1>3. \A j \in Dims \ {Direct(l)} : base[j] # d /\ base[j] \in Dims
  BY StageFacts DEF Params, IsInjective
<1>4. ASSUME NEW p \in Begins(l), NEW i \in 1 .. Places(l) - 1, i % 2 = 1
      PROVE  At(p, l, i) \in {q \in OnLine(l) : Place(q, l) % 2 = 1}
  <2>1. p \in Elements /\ \A j \in Dims \ {Direct(l)} : Aligned(p, l, j)
    BY DEF Begins, Aligned
  <2>2. i \in 0 .. Places(l) - 1 /\ i \in Nat
    OBVIOUS
  <2> DEFINE q == At(p, l, i)
  <2>3. q \in Elements /\ q[d] = i * s /\ \A j \in Dims \ {Direct(l)} : q[base[j]] = p[base[j]]
    BY <2>1, <2>2, AtFacts
  <2> HIDE DEF q
  <2>4. \A j \in Dims \ {Direct(l)} : Aligned(q, l, j)
    BY <2>1, <2>3 DEF Aligned
  <2>5. (i * s) \div s = i /\ (i * s) % s = 0
    BY <1>1, <2>2, EvenMultiple
  <2>6. q[d] % s = 0 /\ Place(q, l) = i
    BY <2>3, <2>5 DEF Place
  <2> QED BY <1>4, <2>3, <2>4, <2>6 DEF OnLine, q
<1>5. ASSUME NEW q \in OnLine(l)
      PROVE  /\ Place(q, l) \in 0 .. Places(l) - 1
             /\ Place(q, l) % 2 = 1 => q \in Visited(l)
  <2> DEFINE i == Place(q, l)
             p == [q EXCEPT ![d] = 0]
  <2>1. q \in [Dims -> Nat] /\ (\A k \in Dims : q[k] < shape[k]) /\ q[d] % s = 0
        /\ \A j \in Dims \ {Direct(l)} : Aligned(q, l, j)
    BY <1>2 DEF OnLine
  <2>2. i = q[d] \div s /\ Places(l) = (e - 1) \div s + 1
    BY DEF Place, Places
  <2>3. q[d] \in Nat /\ q[d] <= e - 1
    BY <1>1, <2>1
  <2> HIDE DEF i
  <2>4. i \in Nat /\ q[d] = i * s
    BY <1>1, <2>1, <2>2, <2>3, DivFits
  <2>5. e - 1 \in Nat /\ (e - 1) \div s \in Nat /\ i <= (e - 1) \div s
    BY <1>1, <2>3, <2>4, DivFits
  <2>6. i \in 0 .. Places(l) - 1
    BY <2>2, <2>4, <2>5
  <2>7. ASSUME i % 2 = 1 PROVE q \in Visited(l)
    <3>1. p \in Elements
      <4>1. p \in [Dims -> Nat] /\ p[d] = 0 /\ \A k \in Dims \ {d} : p[k] = q[k]
        BY <1>1, <2>1
      <4>2. 0 < shape[d]
        BY <1>1
      <4> HIDE DEF p, d
      <4>3. \A k \in Dims : p[k] < shape[k]
        BY <2>1, <4>1, <4>2
      <4> QED BY <1>2, <4>1, <4>3
    <3>2. p \in Begins(l)
      <4>1. p[d] = 0 /\ \A j \in Dims \ {Direct(l)} : p[base[j]] = q[base[j]]
        BY <1>1, <1>3, <2>1
      <4> HIDE DEF p
      <4>2. \A j \in Dims \ {Direct(l)} :
              p[base[j]] % (Stride(l) * StrideMultiplication(l, j)) = 0
        BY <2>1, <4>1 DEF Aligned
      <4> QED BY <1>1, <3>1, <4>1, <4>2 DEF Begins
    <3>3. At(p, l, i) = q
      <4>1. At(p, l, i) = [p EXCEPT ![d] = i * s]
        BY DEF At
      <4>2. q \in [Dims -> Nat] /\ q[d] = i * s
        BY <2>1, <2>4
      <4>3. PICK x : x = d
        OBVIOUS
      <4>4. PICK y : y = i * s
        OBVIOUS
      <4>5. At(p, l, i) = [[q EXCEPT ![x] = 0] EXCEPT ![x] = y] /\ q[x] = y
        BY <4>1, <4>2, <4>3, <4>4
      <4> QED BY <4>2, <4>5
    <3>4. i \in {j \in 1 .. Places(l) - 1 : j % 2 = 1}
      <4>1. i # 0
        BY <2>7
      <4> QED BY <2>4, <2>6, <2>7, <4>1
    <3> HIDE DEF p
    <3> QED BY <3>2, <3>3, <3>4 DEF Visited
  <2> QED BY <2>6, <2>7 DEF i
<1>6. Visited(l) \subseteq {q \in OnLine(l) : Place(q, l) % 2 = 1}
  BY <1>4 DEF Visited
<1>7. {q \in OnLine(l) : Place(q, l) % 2 = 1} \subseteq Visited(l)
  BY <1>5
<1> QED BY <1>5, <1>6, <1>7
\* Stage l adds what it visits, and nothing of that was final before.
LEMMA DoneSplits ==
  ASSUME Params, NEW l \in Stages(shape)
  PROVE  /\ Done(l) = {q \in OnLine(l) : Place(q, l) % 2 = 0}
         /\ Done(l + 1) = OnLine(l)
         /\ Visited(l) = OnLine(l) \ Done(l)
         /\ OnLine(l) \subseteq Elements
<1> DEFINE d == Direct(l)
           s == Stride(l)
           n == Len(shape)
<1>1. /\ l \in Nat /\ l <= LastStage /\ LastStage \in Nat /\ d \in Dims /\ s \in Nat \ {0}
      /\ Dims = 1 .. n /\ n \in Nat /\ base \in [Dims -> Dims]
  BY StageFacts, LevelsCover DEF Params, Dims
<1>2. \A q \in Elements, j \in Dims : q[base[j]] \in Nat
  BY <1>1, ElementsAre
<1>3. ASSUME NEW q \in Elements, q[base[d]] % s = 0
      PROVE  Place(q, l) \in Nat /\ (Aligned(q, l, d) <=> Place(q, l) % 2 = 0)
  <2> DEFINE a == q[base[d]]
             i == a \div s
  <2>1. a \in Nat
    BY <1>1, <1>2
  <2>2. Place(q, l) = i
    BY DEF Place
  <2>3. Aligned(q, l, d) <=> a % (s * 2) = 0
    BY <1>1 DEF Aligned, StrideMultiplication, Dims
  <2>4. a % s = 0
    BY <1>3
  <2> HIDE DEF a
  <2>5. i \in Nat /\ a = i * s
    BY <1>1, <2>1, <2>4, DivFits
  <2> HIDE DEF i
  <2>6. (i * s) % (s * 2) = 0 <=> i % 2 = 0
    BY <1>1, <2>5, EvenMultiple
  <2> QED BY <2>2, <2>3, <2>5, <2>6
<1>4. ASSUME NEW q \in Elements, Aligned(q, l, d) PROVE q[base[d]] % s = 0
  <2> DEFINE a == q[base[d]]
             k == a \div (s * 2)
  <2>1. a \in Nat
    BY <1>1, <1>2
  <2>2. a % (s * 2) = 0
    BY <1>1, <1>4 DEF Aligned, StrideMultiplication, Dims
  <2> HIDE DEF a
  <2>3. k \in Nat /\ a = k * (s * 2)
    <3>1. ASSUME NEW t \in Nat \ {0}, a % t = 0 PROVE a \div t \in Nat /\ a = (a \div t) * t
      BY <2>1, <3>1, DivFits
    <3>2. s * 2 \in Nat \ {0}
      BY <1>1
    <3> QED BY <2>2, <3>1, <3>2
  <2> HIDE DEF k
  <2>4. a = (2 * k) * s /\ 2 * k \in Nat
    BY <1>1, <2>3
  <2>5. ASSUME NEW i \in Nat PROVE (i * s) % s = 0
    BY <1>1, EvenMultiple
  <2>6. a % s = 0
    BY <2>4, <2>5
  <2> QED BY <2>6 DEF a
<1>5. Done(l) = {q \in Elements : \A j \in Dims : Aligned(q, l, j)}
  BY <1>1 DEF Done
<1>6. OnLine(l) = {q \in Elements : /\ \A j \in Dims \ {d} : Aligned(q, l, j)
                                    /\ q[base[d]] % s = 0}
  BY DEF OnLine
<1>7. Visited(l) = {q \in OnLine(l) : Place(q, l) % 2 = 1}
  BY VisitedIs
<1>8. Done(l) = {q \in OnLine(l) : Place(q, l) % 2 = 0}
  <2> HIDE DEF d, s
  <2> QED BY <1>1, <1>3, <1>4, <1>5, <1>6
<1>9. Visited(l) = OnLine(l) \ Done(l)
  <2>1. ASSUME NEW q \in OnLine(l) PROVE Place(q, l) % 2 = 1 <=> ~(Place(q, l) % 2 = 0)
    <3>1. Place(q, l) \in Nat
      BY <1>3, <1>6
    <3> QED BY <3>1
  <2> QED BY <1>7, <1>8, <2>1
<1>10. ASSUME NEW q \in Elements, l < LastStage
       PROVE  (\A j \in Dims : Aligned(q, l + 1, j)) <=> q \in OnLine(l)
  <2>1. CASE d < n
    <3>1. Direct(l + 1) = d + 1 /\ Stride(l + 1) = s
      BY <2>1, StageFacts
    <3>2. \A j \in Dims \ {d} : Aligned(q, l + 1, j) <=> Aligned(q, l, j)
      BY <1>1, <3>1 DEF Aligned, StrideMultiplication
    <3>3. Aligned(q, l + 1, d) <=> q[base[d]] % s = 0
      <4>1. s * 1 = s
        BY <1>1
      <4>2. StrideMultiplication(l + 1, d) = 1
        BY <1>1, <3>1 DEF StrideMultiplication
      <4> QED BY <3>1, <4>1, <4>2 DEF Aligned
    <3> HIDE DEF d, s
    <3> QED BY <1>1, <1>6, <3>2, <3>3
  <2>2. CASE d = n
    <3>1. Direct(l + 1) = 1 /\ s = Stride(l + 1) * 2
      BY <1>10, <2>2, StageFacts
    <3>2. ASSUME NEW j \in Dims PROVE Aligned(q, l + 1, j) <=> q[base[j]] % s = 0
      BY <1>1, <3>1 DEF Aligned, StrideMultiplication
    <3>3. ASSUME NEW j \in Dims \ {d} PROVE Aligned(q, l, j) <=> q[base[j]] % s = 0
      <4>1. s * 1 = s
        BY <1>1
      <4>2. StrideMultiplication(l, j) = 1
        BY <1>1, <2>2 DEF StrideMultiplication
      <4> QED BY <4>1, <4>2 DEF Aligned
    <3> HIDE DEF s
    <3> QED BY <1>1, <1>6, <3>2, <3>3
  <2> QED BY <1>1, <2>1, <2>2
<1>11. ASSUME NEW q \in Elements, l = LastStage PROVE q \in OnLine(l)
  <2>1. d = n /\ s = 1
    BY <1>11, StageFacts
  <2>2. ASSUME NEW j \in Dims PROVE q[base[j]] % 1 = 0
    BY <1>2
  <2>3. ASSUME NEW j \in Dims \ {d} PROVE Aligned(q, l, j)
    <3>1. StrideMultiplication(l, j) = 1
      BY <1>1, <2>1 DEF StrideMultiplication
    <3>2. 1 * 1 = 1
      OBVIOUS
    <3> QED BY <2>1, <2>2, <3>1, <3>2 DEF Aligned
  <2>4. q[base[d]] % s = 0
    BY <1>1, <2>1, <2>2
  <2> HIDE DEF d, s
  <2> QED BY <1>6, <2>3, <2>4
<1>12. Done(l + 1) = OnLine(l)
  <2>1. CASE l < LastStage
    <3>1. Done(l + 1) = {q \in Elements : \A j \in Dims : Aligned(q, l + 1, j)}
      BY <1>1, <2>1 DEF Done
    <3> QED BY <1>6, <1>10, <2>1, <3>1
  <2>2. CASE l = LastStage
    <3>1. Done(l + 1) = Elements
      BY <1>1, <2>2 DEF Done
    <3> QED BY <1>6, <1>11, <2>2, <3>1
  <2> QED BY <1>1, <2>1, <2>2
<1> QED BY <1>6, <1>8, <1>9, <1>12

\* Before the first stage only the anchor is final, and after the last every element.
LEMMA DoneEnds ==
  ASSUME Params
  PROVE  Done(0) = {Anchor} /\ Done(LastStage + 1) = Elements /\ 0 \in Stages(shape)
<1>1. 0 \in Stages(shape)
  <2>1. Levels(shape) \in Nat \ {0} /\ Len(shape) \in 1 .. 4
    BY LevelsCover DEF Params
  <2>2. \A x, y \in Nat \ {0} : x * y \in Nat \ {0}
    OBVIOUS
  <2>3. Levels(shape) * Len(shape) \in Nat \ {0}
    <3>1. \A n \in 1 .. 4 : n \in Nat \ {0}
      OBVIOUS
    <3> QED BY <2>1, <2>2, <3>1, Zenon
  <2> QED BY <2>3 DEF Stages
<1>2. /\ LastStage \in Nat /\ Direct(0) = 1 /\ Stride(0) \in Nat \ {0}
      /\ \A i \in Dims : shape[i] <= Stride(0) * 2
  BY <1>1, StageFacts
<1>3. Dims = 1 .. Len(shape) /\ shape \in [Dims -> Nat \ {0}] /\ base \in [Dims -> Dims]
  BY LevelsCover DEF Params, Dims
<1>4. Done(LastStage + 1) = Elements
  BY <1>2 DEF Done
<1>5. Done(0) = {q \in Elements : \A j \in Dims : q[base[j]] % (Stride(0) * 2) = 0}
  BY <1>2, <1>3 DEF Done, Aligned, StrideMultiplication
<1> DEFINE t == Stride(0) * 2
<1>6. t \in Nat \ {0} /\ \A i \in Dims : shape[i] <= t
  BY <1>2
<1>7. Done(0) = {q \in Elements : \A j \in Dims : q[base[j]] % t = 0}
  BY <1>5
<1> HIDE DEF t
<1>8. Anchor \in Done(0)
  <2>1. Anchor \in [Dims -> Nat] /\ \A i \in Dims : Anchor[i] = 0
    BY DEF Anchor
  <2>2. Anchor \in Elements
    <3>1. \A i \in Dims : Anchor[i] < shape[i]
      BY <1>3, <2>1
    <3> QED BY <2>1, <3>1, ElementsAre
  <2>3. 0 % t = 0
    <3>1. 0 * t + 0 = 0 /\ 0 \in 0 .. t - 1
      BY <1>6
    <3> QED BY <1>6, <3>1, DivUnique
  <2> QED BY <1>3, <1>7, <2>1, <2>2, <2>3
<1>9. ASSUME NEW q \in Done(0) PROVE q = Anchor
  <2>1. q \in [Dims -> Nat] /\ \A i \in Dims : q[i] < shape[i]
    BY <1>7, ElementsAre
  <2>2. ASSUME NEW i \in Dims PROVE q[i] = 0
    <3>1. PICK j \in Dims : base[j] = i
      BY BaseCovers
    <3>2. q[i] % t = 0 /\ q[i] \in Nat
      BY <1>7, <2>1, <3>1
    <3>3. PICK x : x = q[i]
      OBVIOUS
    <3>4. x < t
      <4>1. x \in Nat /\ shape[i] \in Nat /\ x < shape[i] /\ shape[i] <= t /\ t \in Nat
        BY <1>3, <1>6, <2>1, <3>3
      <4> QED BY <4>1
    <3>5. x \in Nat /\ 0 * t + x = x /\ x \in 0 .. t - 1
      BY <1>6, <3>2, <3>3, <3>4
    <3>6. x % t = x
      BY <1>6, <3>5, DivUnique
    <3> QED BY <3>2, <3>3, <3>6
  <2> QED BY <2>1, <2>2 DEF Anchor
<1> QED BY <1>1, <1>4, <1>8, <1>9
\* Every formula for an odd place of a line takes even places of that line.
LEMMA WeightsAreOf ==
  ASSUME NEW f, NEW n \in Nat, NEW i \in 0 .. n - 1, i % 2 = 1
  PROVE  \A w \in Weights(f, i, n) : w[1] \in 0 .. n - 1 /\ w[1] % 2 = 0 /\ w[2] \in Nat
<1>1. /\ i - 1 \in 0 .. n - 1 /\ (i - 1) % 2 = 0
      /\ i + 1 < n => i + 1 \in 0 .. n - 1 /\ (i + 1) % 2 = 0
      /\ i # 1 => i - 3 \in 0 .. n - 1 /\ (i - 3) % 2 = 0
      /\ i # 1 /\ i # 3 => i - 5 \in 0 .. n - 1 /\ (i - 5) % 2 = 0
      /\ i + 3 < n => i + 3 \in 0 .. n - 1 /\ (i + 3) % 2 = 0
  OBVIOUS
<1>2. CASE f = "linear" \/ n < 5
  <2>1. Weights(f, i, n) = IF i + 1 < n THEN {<<i - 1, 8>>, <<i + 1, 8>>} ELSE {<<i - 1, 16>>}
    BY <1>2 DEF Weights
  <2> QED BY <1>1, <2>1
<1>3. CASE ~(f = "linear" \/ n < 5)
  <2>1. CASE i + 1 = n
    <3>1. i # 1 /\ i # 3 /\ ~FullCubic(i, n)
      BY <1>3, <2>1 DEF FullCubic
    <3>2. Weights(f, i, n) = {<<i - 5, 6>>, <<i - 3, 12>>, <<i - 1, 2>>}
      BY <1>3, <2>1, <3>1 DEF Weights
    <3> QED BY <1>1, <3>1, <3>2
  <2>2. CASE i + 1 # n /\ i = 1
    <3>1. Weights(f, i, n) = {<<0, 6>>, <<2, 12>>, <<4, 2>>}
      BY <1>3, <2>2 DEF Weights, FullCubic
    <3> QED BY <1>3, <3>1
  <2>3. CASE i + 1 # n /\ i # 1 /\ FullCubic(i, n)
    <3>1. Weights(f, i, n) = {<<i - 3, 1>>, <<i - 1, 9>>, <<i + 1, 9>>, <<i + 3, 1>>}
      BY <1>3, <2>3 DEF Weights
    <3>2. i + 3 < n /\ i + 1 < n
      BY <2>3 DEF FullCubic
    <3> QED BY <1>1, <2>3, <3>1, <3>2
  <2>4. CASE i + 1 # n /\ i # 1 /\ ~FullCubic(i, n)
    <3>1. Weights(f, i, n) = {<<i - 3, 2>>, <<i - 1, 12>>, <<i + 1, 6>>}
      BY <1>3, <2>4 DEF Weights
    <3>2. i + 1 < n
      BY <2>4
    <3> QED BY <1>1, <2>4, <3>1, <3>2
  <2> QED BY <2>1, <2>2, <2>3, <2>4
<1> QED BY <1>2, <1>3

\* What an element is predicted from was final before the stage.
LEMMA PredictorsDone ==
  ASSUME Params, NEW l \in Stages(shape), NEW p \in Visited(l)
  PROVE  Predictors(p, l) \subseteq Done(l)
<1> DEFINE n == Places(l)
           i == Place(p, l)
<1>1. p \in OnLine(l) /\ p \in Elements /\ i \in 0 .. n - 1 /\ i % 2 = 1
  BY VisitedIs, DoneSplits
<1>2. n \in Nat
  BY <1>1, AtFacts
<1> SUFFICES ASSUME NEW w \in Weights(interp, i, n) PROVE At(p, l, w[1]) \in Done(l)
  BY DEF Predictors, WeightsAt
<1> HIDE DEF n, i
<1> DEFINE k == w[1]
<1>3. k \in 0 .. n - 1 /\ k % 2 = 0 /\ k \in Nat
  BY <1>1, <1>2, WeightsAreOf
<1> HIDE DEF k
<1> DEFINE q == At(p, l, k)
           s == Stride(l)
<1>4. /\ q \in Elements /\ q[base[Direct(l)]] = k * s
      /\ \A j \in Dims \ {Direct(l)} : q[base[j]] = p[base[j]]
  BY <1>1, <1>3, AtFacts DEF n
<1>5. s \in Nat \ {0}
  BY StageFacts
<1> HIDE DEF q, s
<1>6. (k * s) % s = 0 /\ (k * s) \div s = k
  BY <1>3, <1>5, EvenMultiple
<1>7. q \in OnLine(l)
  BY <1>1, <1>4, <1>6 DEF OnLine, Aligned, s
<1>8. Place(q, l) = k
  BY <1>4, <1>6 DEF Place, s
<1> QED BY <1>3, <1>7, <1>8, DoneSplits DEF q, k
-----------------------------------------------------------------------------
(* The walk *)

\* Exactly the elements that are final have been quantised, and once each.
WalkInv ==
  /\ Params
  /\ lid \in 0 .. LastStage + 1
  /\ written = [p \in Elements |-> IF p \in Done(lid) THEN 1 ELSE 0]

\* Nothing is written before the first stage.
LEMMA WalkBegins == WalkInit => WalkInv
<1> SUFFICES ASSUME WalkInit PROVE WalkInv
  OBVIOUS
<1>1. Params
  BY DEF WalkInit, Params
<1>2. lid = 0 /\ LastStage \in Nat /\ 0 \in 0 .. LastStage + 1
  BY <1>1, DoneEnds, StageFacts DEF WalkInit
<1>3. written = [p \in Elements |-> IF p = Anchor THEN 1 ELSE 0]
  BY DEF WalkInit
<1>4. Done(lid) = {Anchor}
  BY <1>1, <1>2, DoneEnds
<1> QED BY <1>1, <1>2, <1>3, <1>4 DEF WalkInv

\* What the shape and the directions fix stays fixed.
LEMMA WalkFixed ==
  ASSUME UNCHANGED <<shape, base, interp, lost>>
  PROVE  Params' = Params /\ LastStage' = LastStage /\ Elements' = Elements
BY DEF Params, Dims, Stages, Levels, LastStage, Elements

\* Each stage writes its elements, which no stage before it has written.
LEMMA WalkStep == WalkInv /\ [WalkNext]_walk_vars => WalkInv'
<1> SUFFICES ASSUME WalkInv, [WalkNext]_walk_vars PROVE WalkInv'
  OBVIOUS
<1>1. UNCHANGED <<shape, base, interp, lost>>
  BY DEF WalkNext, Interpolate, walk_vars
<1>2. Params' = Params /\ LastStage' = LastStage /\ Elements' = Elements
  BY <1>1, WalkFixed
<1>3. CASE Interpolate
  <2>1. lid \in Stages(shape) /\ lid' = lid + 1 /\ Params
    BY <1>3 DEF Interpolate, WalkInv
  <2>2. lid \in Nat /\ lid <= LastStage /\ LastStage \in Nat
    BY <2>1, StageFacts
  <2>3. lid' \in 0 .. LastStage + 1
    BY <2>1, <2>2
  <2>4. written' = [p \in Elements |-> IF p \in Visited(lid) THEN written[p] + 1 ELSE written[p]]
    BY <1>3 DEF Interpolate
  <2>5. /\ Visited(lid) = OnLine(lid) \ Done(lid) /\ Done(lid + 1) = OnLine(lid)
        /\ Done(lid) \subseteq OnLine(lid)
    BY <2>1, DoneSplits
  <2>6. written' = [p \in Elements |-> IF p \in Done(lid + 1) THEN 1 ELSE 0]
    <3>1. \A p \in Elements : written[p] = IF p \in Done(lid) THEN 1 ELSE 0
      BY DEF WalkInv
    <3> QED BY <2>4, <2>5, <3>1
  <2>7. Done(lid)' = Done(lid + 1)
    BY <1>1, <2>1 DEF Done, Aligned, Dims, Elements, LastStage, Levels, Stride,
                      StrideMultiplication, Direct
  <2> QED BY <1>2, <2>1, <2>3, <2>6, <2>7 DEF WalkInv
<1>4. CASE UNCHANGED walk_vars
  <2>1. Done(lid)' = Done(lid)
    BY <1>4 DEF walk_vars, Done, Aligned, Dims, Elements, LastStage, Levels, Stride,
                StrideMultiplication, Direct
  <2> QED BY <1>2, <1>4, <2>1 DEF walk_vars, WalkInv
<1> QED BY <1>3, <1>4 DEF WalkNext

\* At every point of the walk the elements that have been quantised are those on the
\* grid the stages have reached.
THEOREM WalkInvariant == WalkSpec => []WalkInv
BY WalkBegins, WalkStep, PTL DEF WalkSpec

\* No element is quantised twice and in the end each has been, for every shape and
\* every order of the directions (the assertion at the end of compress()).
THEOREM VisitsCorrect == WalkSpec => []EachElementOnce
<1>1. WalkInv => EachElementOnce
  <2> SUFFICES ASSUME WalkInv, NEW p \in Elements
               PROVE  written[p] <= 1 /\ (lid > LastStage => written[p] = 1)
    BY DEF EachElementOnce
  <2>1. written[p] = IF p \in Done(lid) THEN 1 ELSE 0
    BY DEF WalkInv
  <2>2. ASSUME lid > LastStage PROVE Done(lid) = Elements
    <3>1. LastStage \in Nat /\ lid \in 0 .. LastStage + 1
      BY DoneEnds, StageFacts DEF WalkInv
    <3>2. lid = LastStage + 1
      BY <2>2, <3>1
    <3> QED BY <3>2, DoneEnds DEF WalkInv
  <2> QED BY <2>1, <2>2
<1> QED BY <1>1, WalkInvariant, PTL

\* What a stage predicts from lies in the array and is final before the stage begins,
\* so that the decoder predicts what the encoder did.
THEOREM PredictionsCorrect == WalkSpec => PredictorsAreFinal
<1>1. WalkInv /\ [WalkNext]_walk_vars =>
        [\A p \in Visited(lid) : \A q \in Predictors(p, lid) :
           q \in Elements /\ written[q] = 1]_walk_vars
  <2> SUFFICES ASSUME WalkInv, Interpolate, NEW p \in Visited(lid), NEW q \in Predictors(p, lid)
               PROVE  q \in Elements /\ written[q] = 1
    BY DEF WalkNext
  <2>1. lid \in Stages(shape) /\ Params
    BY DEF Interpolate, WalkInv
  <2>2. q \in Done(lid)
    BY <2>1, PredictorsDone
  <2>3. Done(lid) \subseteq Elements
    BY DEF Done
  <2> QED BY <2>2, <2>3 DEF WalkInv
<1> QED BY <1>1, WalkInvariant, PTL DEF WalkSpec, PredictorsAreFinal
-----------------------------------------------------------------------------
(* How far a loss spreads *)

\* What the taps of one formula weigh in all, in sixteenths.
TapSum(f, n) == IF f = "linear" \/ n < 5 THEN 16 ELSE 20

\* A sum of three terms, each at most so many times B.
LEMMA ThreeTaps ==
  ASSUME NEW w, NEW a, NEW b, NEW c, a # b, a # c, b # c, NEW B \in Nat,
         NEW s \in Nat, NEW t \in Nat, NEW y \in Nat,
         w[a] \in 0 .. s * B, w[b] \in 0 .. t * B, w[c] \in 0 .. y * B
  PROVE  SumFunctionOnSet(w, {a, b, c}) \in 0 .. (s + (t + y)) * B
<1>1. w[a] \in Int /\ w[b] \in Int /\ w[c] \in Int
  OBVIOUS
<1>2. SumFunctionOnSet(w, {a, b, c}) = w[a] + (w[b] + w[c]) /\ IsFiniteSet({a, b, c})
  BY <1>1, SumOfThree, Zenon
<1>3. s * B \in Int /\ t * B \in Int /\ y * B \in Int
  OBVIOUS
<1>4. (s + (t + y)) * B = s * B + (t * B + y * B)
  OBVIOUS
<1>5. w[a] + (w[b] + w[c]) \in 0 .. s * B + (t * B + y * B)
  BY <1>3
<1> QED BY <1>2, <1>4, <1>5

\* The same for the four terms of the cubic formula.
LEMMA FourTaps ==
  ASSUME NEW w, NEW a, NEW b, NEW c, NEW d,
         a # b, a # c, a # d, b # c, b # d, c # d, NEW B \in Nat,
         w[a] \in 0 .. 1 * B, w[b] \in 0 .. 9 * B, w[c] \in 0 .. 9 * B, w[d] \in 0 .. 1 * B
  PROVE  SumFunctionOnSet(w, {a, b, c, d}) \in 0 .. 20 * B
<1>1. w[a] \in Int /\ w[b] \in Int /\ w[c] \in Int /\ w[d] \in Int
  OBVIOUS
<1>2. /\ SumFunctionOnSet(w, {a, b, c, d}) = w[a] + (w[b] + (w[c] + w[d]))
      /\ IsFiniteSet({a, b, c, d})
  BY <1>1, SumOfFour, Zenon
<1> QED BY <1>2

\* Errors of at most B at the places of a formula give at most B times its taps.
LEMMA WeighedSum ==
  ASSUME NEW f, NEW n \in Nat, NEW i \in 0 .. n - 1, i % 2 = 1, NEW B \in Nat,
         NEW r, \A w \in Weights(f, i, n) : r[w] \in 0 .. B
  PROVE  SumFunction([w \in Weights(f, i, n) |-> w[2] * r[w]]) \in 0 .. TapSum(f, n) * B
<1> DEFINE T == Weights(f, i, n)
           F == [w \in T |-> w[2] * r[w]]
<1>1. SumFunction(F) = SumFunctionOnSet(F, T)
  BY Zenon DEF SumFunction
<1>2. ASSUME NEW k, NEW x \in Nat, <<k, x>> \in T PROVE F[<<k, x>>] \in 0 .. x * B
  <2>1. PICK e \in 0 .. B : e = r[<<k, x>>]
    BY <1>2
  <2>2. F[<<k, x>>] = x * e
    BY <1>2, <2>1
  <2>3. x * (B - e) >= 0 /\ x * (B - e) = x * B - x * e /\ x * e >= 0
    OBVIOUS
  <2>4. x * e \in Int /\ x * B \in Int
    OBVIOUS
  <2>5. x * e \in 0 .. x * B
    BY <2>3, <2>4
  <2> QED BY <2>2, <2>5
<1> SUFFICES SumFunctionOnSet(F, T) \in 0 .. TapSum(f, n) * B
  BY <1>1
<1>3. T = Weights(f, i, n)
  OBVIOUS
<1> HIDE DEF T, F
<1>4. CASE f = "linear" \/ n < 5
  <2>1. TapSum(f, n) = 16
    BY <1>4 DEF TapSum
  <2>2. CASE i + 1 < n
    <3>1. T = {<<i - 1, 8>>, <<i + 1, 8>>}
      BY <1>3, <1>4, <2>2 DEF Weights
    <3>2. F[<<i - 1, 8>>] \in 0 .. 8 * B /\ F[<<i + 1, 8>>] \in 0 .. 8 * B
      BY <1>2, <3>1
    <3>3. F[<<i - 1, 8>>] \in Int /\ F[<<i + 1, 8>>] \in Int /\ <<i - 1, 8>> # <<i + 1, 8>>
      BY <3>2
    <3>4. SumFunctionOnSet(F, {<<i - 1, 8>>, <<i + 1, 8>>}) = F[<<i - 1, 8>>] + F[<<i + 1, 8>>]
      BY <3>3, SumOfTwo, Zenon
    <3>5. F[<<i - 1, 8>>] + F[<<i + 1, 8>>] \in 0 .. 16 * B
      BY <3>2
    <3> QED BY <2>1, <3>1, <3>4, <3>5
  <2>3. CASE ~(i + 1 < n)
    <3>1. T = {<<i - 1, 16>>}
      BY <1>3, <1>4, <2>3 DEF Weights
    <3>2. F[<<i - 1, 16>>] \in 0 .. 16 * B
      BY <1>2, <3>1
    <3>3. F[<<i - 1, 16>>] \in Int
      BY <3>2
    <3>4. SumFunctionOnSet(F, {<<i - 1, 16>>}) = F[<<i - 1, 16>>]
      BY <3>3, SumOfOne, Zenon
    <3> QED BY <2>1, <3>1, <3>2, <3>4
  <2> QED BY <2>2, <2>3
<1>5. ASSUME NEW u \in Int, NEW v \in Int, NEW z \in Int, u < v, v < z,
             NEW s \in Nat, NEW t \in Nat, NEW y \in Nat, s + (t + y) = 20,
             T = {<<u, s>>, <<v, t>>, <<z, y>>}
      PROVE  SumFunctionOnSet(F, T) \in 0 .. 20 * B
  <2>1. /\ <<u, s>> # <<v, t>> /\ <<u, s>> # <<z, y>> /\ <<v, t>> # <<z, y>>
    BY <1>5
  <2>2. F[<<u, s>>] \in 0 .. s * B /\ F[<<v, t>>] \in 0 .. t * B /\ F[<<z, y>>] \in 0 .. y * B
    BY <1>2, <1>5
  <2>3. SumFunctionOnSet(F, {<<u, s>>, <<v, t>>, <<z, y>>}) \in 0 .. (s + (t + y)) * B
    BY <2>1, <2>2, ThreeTaps, Zenon
  <2> QED BY <1>5, <2>3
<1>6. CASE ~(f = "linear" \/ n < 5)
  <2>1. TapSum(f, n) = 20 /\ i \in Int
    BY <1>6 DEF TapSum
  <2>2. CASE i + 1 = n
    <3>1. ~FullCubic(i, n) /\ i # 1
      BY <1>6, <2>2 DEF FullCubic
    <3>2. T = {<<i - 5, 6>>, <<i - 3, 12>>, <<i - 1, 2>>}
      BY <1>3, <1>6, <2>2, <3>1 DEF Weights
    <3>3. i - 5 \in Int /\ i - 3 \in Int /\ i - 1 \in Int
      BY <2>1
    <3>a. i - 5 < i - 3 /\ i - 3 < i - 1
      BY <2>1
    <3>b. 6 \in Nat /\ 12 \in Nat /\ 2 \in Nat /\ 6 + (12 + 2) = 20
      OBVIOUS
    <3>4. SumFunctionOnSet(F, T) \in 0 .. 20 * B
      BY <1>5, <3>2, <3>3, <3>a, <3>b, Zenon
    <3> QED BY <2>1, <3>4
  <2>3. CASE i + 1 # n /\ i = 1
    <3>1. T = {<<0, 6>>, <<2, 12>>, <<4, 2>>}
      BY <1>3, <1>6, <2>3 DEF Weights, FullCubic
    <3>2. 0 \in Int /\ 2 \in Int /\ 4 \in Int /\ 0 < 2 /\ 2 < 4
      OBVIOUS
    <3>3. 6 \in Nat /\ 12 \in Nat /\ 2 \in Nat /\ 6 + (12 + 2) = 20
      OBVIOUS
    <3>4. SumFunctionOnSet(F, T) \in 0 .. 20 * B
      BY <1>5, <3>1, <3>2, <3>3, Zenon
    <3> QED BY <2>1, <3>4
  <2>4. CASE i + 1 # n /\ i # 1 /\ FullCubic(i, n)
    <3>1. T = {<<i - 3, 1>>, <<i - 1, 9>>, <<i + 1, 9>>, <<i + 3, 1>>}
      BY <1>3, <1>6, <2>4 DEF Weights
    <3>2. /\ F[<<i - 3, 1>>] \in 0 .. 1 * B /\ F[<<i - 1, 9>>] \in 0 .. 9 * B
          /\ F[<<i + 1, 9>>] \in 0 .. 9 * B /\ F[<<i + 3, 1>>] \in 0 .. 1 * B
      BY <1>2, <3>1
    <3>3. /\ <<i - 3, 1>> # <<i - 1, 9>> /\ <<i - 3, 1>> # <<i + 1, 9>> /\ <<i - 3, 1>> # <<i + 3, 1>>
          /\ <<i - 1, 9>> # <<i + 1, 9>> /\ <<i - 1, 9>> # <<i + 3, 1>> /\ <<i + 1, 9>> # <<i + 3, 1>>
      OBVIOUS
    <3>4. SumFunctionOnSet(F, {<<i - 3, 1>>, <<i - 1, 9>>, <<i + 1, 9>>, <<i + 3, 1>>}) \in 0 .. 20 * B
      BY <3>2, <3>3, FourTaps, Zenon
    <3> QED BY <2>1, <3>1, <3>4
  <2>5. CASE i + 1 # n /\ i # 1 /\ ~FullCubic(i, n)
    <3>1. T = {<<i - 3, 2>>, <<i - 1, 12>>, <<i + 1, 6>>}
      BY <1>3, <1>6, <2>5 DEF Weights
    <3>2. /\ i - 3 \in Int /\ i - 1 \in Int /\ i + 1 \in Int /\ i - 3 < i - 1 /\ i - 1 < i + 1
          /\ 2 \in Nat /\ 12 \in Nat /\ 6 \in Nat /\ 2 + (12 + 6) = 20
      OBVIOUS
    <3>3. SumFunctionOnSet(F, T) \in 0 .. 20 * B
      BY <1>5, <3>1, <3>2, Zenon
    <3> QED BY <2>1, <3>3
  <2> QED BY <2>2, <2>3, <2>4, <2>5
<1> QED BY <1>4, <1>6

\* What one stage multiplies an error by, in sixteenths.
Growth == IF interp = "cubic" THEN 20 ELSE 16

\* What an index that is off by one has cost when stage l begins: every stage behind
\* the one that lost it has multiplied the error by Growth, and one sixteenth is lost
\* from the unit.
Gain(l) == Power(Growth, l - 1 - lost) * Power(16, LastStage + 1 - l)

\* The anchor and the elements predicted from it are both indices of stage 0.
Twice == IF lost = 0 THEN 2 ELSE 1

\* The cost grows from Unit, stage after stage, and never beyond the charge.
LEMMA GainFacts ==
  ASSUME Params
  PROVE  /\ lost \in Nat /\ lost <= LastStage /\ LastStage \in Nat
         /\ Unit \in Nat /\ Gain(lost + 1) = Unit
         /\ \A l \in lost + 1 .. LastStage + 1 : Gain(l) \in Nat /\ Gain(l) <= Cost(lost)
         /\ \A l \in lost + 1 .. LastStage : 16 * Gain(l + 1) = Growth * Gain(l)
<1>1. lost \in Nat /\ lost <= LastStage /\ LastStage \in Nat
  BY StageFacts DEF Params
<1> DEFINE g == Growth
           z == LastStage
<1>2. g \in Nat /\ 16 <= g /\ 16 \in Nat
  BY DEF Growth
<1>3. Unit = Power(16, z - lost) /\ Cost(lost) = Power(g, z - lost)
  BY DEF Unit, Cost, Growth
<1>4. \A l : Gain(l) = Power(g, l - 1 - lost) * Power(16, z + 1 - l)
  BY DEF Gain
<1>5. lost \in Nat /\ z \in Nat /\ lost <= z
  BY <1>1
<1> HIDE DEF g, z
<1>6. Unit \in Nat /\ Gain(lost + 1) = Unit
  <2>1. z - lost \in Nat /\ z + 1 - (lost + 1) = z - lost /\ (lost + 1) - 1 - lost = 0
    BY <1>5
  <2>2. Power(16, z - lost) \in Nat /\ Power(g, 0) = 1
    BY <1>2, <2>1, PowerStep
  <2> QED BY <1>3, <1>4, <2>1, <2>2
<1>7. ASSUME NEW l \in lost + 1 .. z + 1 PROVE Gain(l) \in Nat /\ Gain(l) <= Cost(lost)
  <2> DEFINE m == l - 1 - lost
             n == z + 1 - l
  <2>1. m \in Nat /\ n \in Nat /\ m + n = z - lost
    BY <1>5
  <2>2. Gain(l) = Power(g, m) * Power(16, n)
    BY <1>4
  <2> HIDE DEF m, n
  <2>3. Power(g, m) \in Nat /\ Power(16, n) \in Nat
    BY <1>2, <2>1, PowerStep
  <2>4. Power(g, m) * Power(16, n) <= Power(g, m + n)
    BY <1>2, <2>1, PowerProduct
  <2>5. \A x, y \in Nat : x * y \in Nat
    OBVIOUS
  <2>6. Gain(l) \in Nat
    BY <2>2, <2>3, <2>5
  <2> QED BY <1>3, <2>1, <2>2, <2>4, <2>6
<1>8. ASSUME NEW l \in lost + 1 .. z PROVE 16 * Gain(l + 1) = g * Gain(l)
  <2> DEFINE m == l - 1 - lost
             n == z - l
  <2>1. m \in Nat /\ n \in Nat /\ (l + 1) - 1 - lost = m + 1 /\ z + 1 - (l + 1) = n /\ z + 1 - l = n + 1
    BY <1>5
  <2>2. Gain(l + 1) = Power(g, m + 1) * Power(16, n) /\ Gain(l) = Power(g, m) * Power(16, n + 1)
    <3>1. Gain(l + 1) = Power(g, m + 1) * Power(16, n)
      <4>1. \A k : k - 1 - lost = m + 1 /\ z + 1 - k = n => Gain(k) = Power(g, m + 1) * Power(16, n)
        BY <1>4
      <4>2. (l + 1) - 1 - lost = m + 1 /\ z + 1 - (l + 1) = n
        BY <2>1
      <4> HIDE DEF m, n
      <4> QED BY <4>1, <4>2
    <3>2. Gain(l) = Power(g, m) * Power(16, z + 1 - l)
      BY <1>4
    <3> HIDE DEF m, n
    <3> QED BY <2>1, <3>1, <3>2
  <2> HIDE DEF m, n
  <2>3. PICK x \in Nat, y \in Nat : x = Power(g, m) /\ y = Power(16, n)
    BY <1>2, <2>1, PowerStep
  <2>4. Power(g, m + 1) = g * x /\ Power(16, n + 1) = 16 * y
    BY <1>2, <2>1, <2>3, PowerStep
  <2>5. 16 * ((g * x) * y) = g * (x * (16 * y))
    BY <1>2
  <2> QED BY <2>2, <2>3, <2>4, <2>5
<1> QED BY <1>1, <1>6, <1>7, <1>8 DEF g, z

\* No element has lost more than its share of the cost so far, and before the stage
\* that loses its indices only the anchor, an index of stage 0, can be off.
ReachInv ==
  /\ WalkInv
  /\ reach \in [Elements -> Nat]
  /\ lid <= lost =>
       \A p \in Elements : reach[p] <= IF p = Anchor /\ lost = 0 THEN Unit ELSE 0
  /\ lid > lost => \A p \in Elements : reach[p] <= Twice * Gain(lid)

\* An element gets from what it is predicted from at most Growth sixteenths of the
\* largest error there, and in stage 0, whose lines have two places, no more than it.
LEMMA SpreadBound ==
  ASSUME WalkInv, reach \in [Elements -> Nat], lid \in Stages(shape), NEW p \in Visited(lid),
         NEW B \in Nat, \A q \in Elements : reach[q] <= B
  PROVE  /\ Spread(p, lid) \in Nat
         /\ 16 * Spread(p, lid) <= Growth * B
         /\ lid = 0 => Spread(p, lid) <= B
<1> DEFINE n == Places(lid)
           i == Place(p, lid)
           T == Weights(interp, i, n)
           r == [w \in T |-> reach[At(p, lid, w[1])]]
           S == SumFunction([w \in T |-> w[2] * r[w]])
<1>1. p \in Elements /\ i \in 0 .. n - 1 /\ i % 2 = 1
  BY VisitedIs, DoneSplits DEF WalkInv
<1>2. n \in Nat \ {0}
  BY <1>1, AtFacts DEF WalkInv
<1>3. \A w \in T : r[w] \in 0 .. B
  <2> SUFFICES ASSUME NEW w \in T PROVE reach[At(p, lid, w[1])] \in 0 .. B
    OBVIOUS
  <2> HIDE DEF n, i
  <2>1. w[1] \in 0 .. n - 1
    BY <1>1, <1>2, WeightsAreOf
  <2>2. At(p, lid, w[1]) \in Elements
    BY <1>1, <2>1, AtFacts DEF WalkInv, n
  <2> QED BY <2>2
<1>4. Spread(p, lid) = S \div 16
  <2>1. [w \in T |-> w[2] * r[w]] = [w \in T |-> w[2] * reach[At(p, lid, w[1])]]
    OBVIOUS
  <2> QED BY <2>1, Zenon DEF Spread, WeightsAt
<1>5. S \in 0 .. TapSum(interp, n) * B
  <2> HIDE DEF n, i, r
  <2> QED BY <1>1, <1>2, <1>3, WeighedSum, Zenon
<1>6. TapSum(interp, n) \in {16, 20} /\ TapSum(interp, n) <= Growth /\ Growth \in {16, 20}
  BY InterpolatorsAssumption DEF TapSum, Growth, WalkInv, Params
<1>7. lid = 0 => TapSum(interp, n) = 16
  <2> SUFFICES ASSUME lid = 0 PROVE n < 5
    BY DEF TapSum
  <2>1. PICK e \in Nat \ {0} : e = shape[base[Direct(lid)]]
    BY StageFacts, LevelsCover DEF WalkInv, Params, Dims
  <2>2. Stride(lid) \in Nat \ {0} /\ e <= Stride(lid) * 2
    BY <2>1, StageFacts DEF WalkInv, Params
  <2>3. n = (e - 1) \div Stride(lid) + 1
    BY <2>1 DEF Places
  <2>4. PICK s \in Nat \ {0} : s = Stride(lid)
    BY <2>2
  <2>5. ~(2 <= (e - 1) \div s)
    <3>1. e - 1 \in Nat /\ 2 \in Nat /\ ~(2 * s <= e - 1)
      BY <2>2, <2>4
    <3> QED BY <3>1, DivFits
  <2>6. (e - 1) \div s \in Nat
    <3>1. e - 1 \in Nat
      OBVIOUS
    <3> QED BY <3>1, DivFits
  <2> QED BY <2>3, <2>4, <2>5, <2>6
<1> HIDE DEF n, i, T, r, S
<1>8. PICK t \in {16, 20}, g \in {16, 20} : t = TapSum(interp, n) /\ g = Growth /\ t <= g
  BY <1>6
<1>9. S \in 0 .. t * B
  BY <1>5, <1>8
<1>10. S \div 16 \in Nat /\ 16 * (S \div 16) <= S
  BY <1>9
<1>11. t * B <= g * B
  BY <1>8
<1>12. t = 16 => S \div 16 <= B
  BY <1>9
<1> QED BY <1>4, <1>7, <1>8, <1>9, <1>10, <1>11, <1>12

\* At first only an error of the anchor has reached an element, the anchor.
LEMMA ReachInit == WalkInit => ReachInv
<1> SUFFICES ASSUME WalkInit PROVE ReachInv
  OBVIOUS
<1>1. WalkInv /\ Params /\ lid = 0
  BY WalkBegins DEF WalkInv, WalkInit
<1>2. reach = [p \in Elements |-> IF p = Anchor /\ lost = 0 THEN Unit ELSE 0]
  BY DEF WalkInit
<1>3. Unit \in Nat /\ lost \in Nat
  BY <1>1, GainFacts
<1>4. reach \in [Elements -> Nat]
  BY <1>2, <1>3
<1>5. \A p \in Elements : reach[p] <= IF p = Anchor /\ lost = 0 THEN Unit ELSE 0
  <2> SUFFICES ASSUME NEW p \in Elements
               PROVE  reach[p] <= IF p = Anchor /\ lost = 0 THEN Unit ELSE 0
    OBVIOUS
  <2>1. reach[p] = IF p = Anchor /\ lost = 0 THEN Unit ELSE 0
    BY <1>2
  <2> QED BY <1>3, <2>1
<1> QED BY <1>1, <1>3, <1>4, <1>5 DEF ReachInv

\* A stage takes errors no further than the costs of the stages allow.
LEMMA ReachStep == ReachInv /\ [WalkNext]_walk_vars => ReachInv'
<1> SUFFICES ASSUME ReachInv, [WalkNext]_walk_vars PROVE ReachInv'
  OBVIOUS
<1>1. WalkInv /\ WalkInv' /\ Params
  BY WalkStep DEF ReachInv, WalkInv
<1>2. UNCHANGED <<shape, base, interp, lost>>
  BY DEF WalkNext, Interpolate, walk_vars
<1>3. /\ Elements' = Elements /\ LastStage' = LastStage /\ Anchor' = Anchor /\ Unit' = Unit
      /\ Growth' = Growth /\ Twice' = Twice
  BY <1>2, WalkFixed DEF Anchor, Dims, Unit, Growth, Twice
<1>4. \A l : Gain(l)' = Gain(l)
  BY <1>2, <1>3 DEF Gain
<1>5. CASE UNCHANGED walk_vars
  <2>1. Gain(lid)' = Gain(lid)
    BY <1>3, <1>5 DEF walk_vars, Gain
  <2> QED BY <1>1, <1>2, <1>3, <1>5, <2>1 DEF ReachInv, walk_vars
<1>6. CASE Interpolate
  <2>1. lid \in Stages(shape) /\ lid' = lid + 1 /\ lid \in Nat /\ lid <= LastStage
    BY <1>1, <1>6, StageFacts DEF Interpolate
  <2>2. reach \in [Elements -> Nat]
    BY DEF ReachInv
  <2>3. reach' = [p \in Elements |->
                    IF p \in Visited(lid) THEN Spread(p, lid) + (IF lid = lost THEN Unit ELSE 0)
                    ELSE reach[p]]
    BY <1>6 DEF Interpolate
  <2>4. /\ lost \in Nat /\ lost <= LastStage /\ LastStage \in Nat
        /\ Unit \in Nat /\ Gain(lost + 1) = Unit
        /\ \A l \in lost + 1 .. LastStage + 1 : Gain(l) \in Nat /\ Gain(l) <= Cost(lost)
        /\ \A l \in lost + 1 .. LastStage : 16 * Gain(l + 1) = Growth * Gain(l)
    BY <1>1, GainFacts
  <2>5. \A p \in Visited(lid) : Spread(p, lid) \in Nat
    <3>1. ASSUME NEW p \in Visited(lid) PROVE Spread(p, lid) \in Nat
      <4>1. PICK B \in Nat : \A q \in Elements : reach[q] <= B
        <5>1. CASE lid <= lost
          <6>1. \A q \in Elements : reach[q] <= Unit
            BY <2>2, <2>4, <5>1 DEF ReachInv
          <6> QED BY <2>4, <6>1
        <5>2. CASE lid > lost
          <6>1. Gain(lid) \in Nat
            BY <2>1, <2>4, <5>2
          <6>2. Twice * Gain(lid) \in Nat
            BY <6>1 DEF Twice
          <6> QED BY <5>2, <6>2 DEF ReachInv
        <5> QED BY <2>1, <2>4, <5>1, <5>2
      <4> QED BY <1>1, <2>1, <2>2, <4>1, SpreadBound
    <3> QED BY <3>1
  <2>6. reach' \in [Elements -> Nat]
    BY <2>2, <2>3, <2>4, <2>5
  <2>7. CASE lid < lost
    <3>1. \A q \in Elements : reach[q] <= 0
      <4>1. lid <= lost /\ lost # 0
        BY <2>1, <2>4, <2>7
      <4> QED BY <4>1 DEF ReachInv
    <3>2. ASSUME NEW p \in Elements PROVE reach'[p] <= 0
      <4>1. CASE p \in Visited(lid)
        <5>1. 16 * Spread(p, lid) <= Growth * 0
          BY <1>1, <2>1, <2>2, <3>1, <4>1, SpreadBound
        <5>2. Spread(p, lid) <= 0
          BY <2>5, <4>1, <5>1 DEF Growth
        <5>3. reach'[p] = Spread(p, lid) + 0
          BY <2>3, <2>7, <2>4, <2>1, <4>1
        <5> QED BY <2>5, <4>1, <5>2, <5>3
      <4> QED BY <2>3, <3>1, <4>1
    <3>3. lost # 0 /\ lid' <= lost
      BY <2>1, <2>4, <2>7
    <3> QED BY <1>1, <1>2, <1>3, <2>1, <2>4, <2>6, <3>2, <3>3 DEF ReachInv
  <2>8. CASE lid = lost
    <3>1. ASSUME NEW p \in Elements PROVE reach'[p] <= Twice * Unit
      <4>1. \A q \in Elements : reach[q] <= IF lost = 0 THEN Unit ELSE 0
        BY <2>2, <2>4, <2>8 DEF ReachInv
      <4>2. CASE p \notin Visited(lid)
        BY <2>2, <2>3, <2>4, <4>1, <4>2 DEF Twice
      <4>3. CASE p \in Visited(lid)
        <5>1. reach'[p] = Spread(p, lid) + Unit
          BY <2>3, <2>8, <4>3
        <5>2. CASE lost = 0
          <6>1. Spread(p, lid) <= Unit
            BY <1>1, <2>1, <2>2, <2>4, <2>8, <4>1, <4>3, <5>2, SpreadBound
          <6> QED BY <2>4, <2>5, <4>3, <5>1, <5>2, <6>1 DEF Twice
        <5>3. CASE lost # 0
          <6>1. 16 * Spread(p, lid) <= Growth * 0
            BY <1>1, <2>1, <2>2, <4>1, <4>3, <5>3, SpreadBound
          <6>2. Spread(p, lid) = 0
            BY <2>5, <4>3, <6>1 DEF Growth
          <6> QED BY <2>4, <5>1, <5>3, <6>2 DEF Twice
        <5> QED BY <5>2, <5>3
      <4> QED BY <4>2, <4>3
    <3>2. lid' > lost /\ Gain(lid)' = Unit
      <4>1. lid' = lost + 1
        BY <2>1, <2>8
      <4> QED BY <1>2, <1>3, <2>4, <4>1 DEF Gain
    <3> QED BY <1>1, <1>2, <1>3, <2>1, <2>4, <2>6, <3>1, <3>2 DEF ReachInv
  <2>9. CASE lid > lost
    <3>1. lid \in lost + 1 .. LastStage /\ lid \in lost + 1 .. LastStage + 1
          /\ lid + 1 \in lost + 1 .. LastStage + 1
      BY <2>1, <2>4, <2>9
    <3>2. PICK x \in Nat, y \in Nat : x = Gain(lid) /\ y = Gain(lid + 1) /\ 16 * y = Growth * x
      BY <2>4, <3>1
    <3>3. PICK k \in {1, 2} : k = Twice
      BY DEF Twice
    <3>4. \A q \in Elements : reach[q] <= k * x
      BY <2>9, <3>2, <3>3 DEF ReachInv
    <3>5. Growth \in {16, 20} /\ k * x \in Nat
      BY <3>2, <3>3 DEF Growth
    <3>6. ASSUME NEW p \in Elements PROVE reach'[p] <= k * y
      <4>1. CASE p \in Visited(lid)
        <5>1. 16 * Spread(p, lid) <= Growth * (k * x) /\ Spread(p, lid) \in Nat
          BY <1>1, <2>1, <2>2, <3>4, <3>5, <4>1, SpreadBound
        <5>2. reach'[p] = Spread(p, lid)
          BY <2>3, <2>4, <2>9, <4>1, <5>1
        <5> QED BY <3>2, <3>3, <3>5, <5>1, <5>2
      <4>2. CASE p \notin Visited(lid)
        <5>1. reach'[p] = reach[p] /\ reach[p] \in Nat /\ reach[p] <= k * x
          BY <2>2, <2>3, <3>4, <4>2
        <5> QED BY <3>2, <3>3, <3>5, <5>1
      <4> QED BY <4>1, <4>2
    <3>7. lid' > lost /\ Gain(lid)' = y
      BY <1>2, <1>3, <2>1, <2>4, <2>9, <3>2 DEF Gain
    <3> QED BY <1>1, <1>2, <1>3, <2>1, <2>4, <2>6, <3>3, <3>6, <3>7 DEF ReachInv
  <2> QED BY <2>1, <2>4, <2>7, <2>8, <2>9
<1> QED BY <1>5, <1>6 DEF WalkNext

\* However far the prediction carries the error of planes left out in one stage, it
\* costs no element more than calcUncerntaintyBitGroup() charges for them, and twice
\* that for stage 0: for every shape, every order of the directions and every stage.
THEOREM CostsCorrect == WalkSpec => []CostCoversLoss
<1>1. ReachInv => CostCoversLoss
  <2> SUFFICES ASSUME ReachInv, NEW p \in Elements PROVE reach[p] <= Twice * Cost(lost)
    BY DEF CostCoversLoss, Twice
  <2>1. Params /\ reach[p] \in Nat /\ lid \in 0 .. LastStage + 1
    BY DEF ReachInv, WalkInv
  <2>2. /\ lost \in Nat /\ lost <= LastStage /\ LastStage \in Nat
        /\ Unit \in Nat /\ Gain(lost + 1) = Unit
        /\ \A l \in lost + 1 .. LastStage + 1 : Gain(l) \in Nat /\ Gain(l) <= Cost(lost)
    BY <2>1, GainFacts
  <2>3. Cost(lost) \in Nat
    <3>1. LastStage - lost \in Nat /\ 16 \in Nat /\ 20 \in Nat
      BY <2>2
    <3>2. Power(16, LastStage - lost) \in Nat /\ Power(20, LastStage - lost) \in Nat
      BY <3>1, PowerStep
    <3> QED BY <3>2 DEF Cost
  <2>4. Twice \in {1, 2}
    BY DEF Twice
  <2>5. CASE lid <= lost
    <3>1. Unit <= Cost(lost)
      <4>1. lost + 1 \in lost + 1 .. LastStage + 1
        BY <2>2
      <4> QED BY <2>2, <4>1
    <3>2. reach[p] <= IF p = Anchor /\ lost = 0 THEN Unit ELSE 0
      BY <2>5 DEF ReachInv
    <3>3. reach[p] <= Unit
      BY <2>1, <2>2, <3>2
    <3> QED BY <2>1, <2>2, <2>3, <2>4, <3>1, <3>3
  <2>6. CASE lid > lost
    <3>1. lid \in lost + 1 .. LastStage + 1
      BY <2>1, <2>2, <2>6
    <3>2. Gain(lid) \in Nat /\ Gain(lid) <= Cost(lost)
      BY <2>2, <3>1
    <3>3. reach[p] <= Twice * Gain(lid)
      BY <2>6 DEF ReachInv
    <3> QED BY <2>1, <2>3, <2>4, <3>2, <3>3
  <2> QED BY <2>1, <2>2, <2>5, <2>6
<1> QED BY <1>1, ReachInit, ReachStep, PTL DEF WalkSpec
-----------------------------------------------------------------------------
(* How many elements a stage has *)

\* There are finitely many elements.
LEMMA ElementsFinite ==
  ASSUME Params
  PROVE  IsFiniteSet(Elements)
<1> DEFINE R == 0 .. Max(Range(shape)) - 1
           G == [p \in Elements |-> {<<i, p[i]>> : i \in Dims}]
<1>1. IsFiniteSet(Dims) /\ IsFiniteSet(R)
  BY LevelsCover, FS_Interval DEF Params, Dims
<1>2. IsFiniteSet(SUBSET (Dims \X R))
  BY <1>1, FS_Product, FS_SUBSET
<1>3. \A p \in Elements : p \in [Dims -> R]
  BY DEF Elements
<1> HIDE DEF R
<1>4. G \in [Elements -> SUBSET (Dims \X R)]
  BY <1>3
<1>5. ASSUME NEW p \in Elements, NEW q \in Elements, G[p] = G[q] PROVE p = q
  <2>1. ASSUME NEW i \in Dims PROVE p[i] = q[i]
    <3>1. <<i, p[i]>> \in {<<k, q[k]>> : k \in Dims}
      BY <1>5
    <3> QED BY <3>1
  <2> QED BY <1>3, <2>1
<1> HIDE DEF G
<1>6. G \in Injection(Elements, SUBSET (Dims \X R))
  BY <1>4, <1>5 DEF Injection, IsInjective
<1> QED BY <1>2, <1>6, FS_Injection

\* Each element a stage visits stands next to one that was final before, so a stage
\* has at most half of the elements, and stage 0 at most one beside the anchor.
LEMMA VisitedHalf ==
  ASSUME Params, NEW l \in Stages(shape)
  PROVE  /\ Cardinality(Visited(l)) \in Nat /\ Cardinality(Elements) \in Nat
         /\ 2 * Cardinality(Visited(l)) <= Cardinality(Elements)
         /\ l = 0 => Cardinality(Visited(l)) <= 1
<1> DEFINE V == Visited(l)
           D == Done(l)
           N(q) == At(q, l, Place(q, l) - 1)
           F == [q \in V |-> N(q)]
           d == base[Direct(l)]
           s == Stride(l)
<1>1. /\ V = OnLine(l) \ D /\ D \subseteq OnLine(l) /\ OnLine(l) \subseteq Elements
      /\ D = {q \in OnLine(l) : Place(q, l) % 2 = 0}
      /\ V = {q \in OnLine(l) : Place(q, l) % 2 = 1}
      /\ \A q \in OnLine(l) : Place(q, l) \in 0 .. Places(l) - 1
  BY DoneSplits, VisitedIs
<1>2. d \in Dims /\ s \in Nat \ {0} /\ \A q \in Elements : q \in [Dims -> Nat]
  BY StageFacts, ElementsAre DEF Params
<1>3. ASSUME NEW q \in V
      PROVE  /\ N(q) \in D /\ q[d] = N(q)[d] + s
             /\ \A i \in Dims \ {d} : N(q)[i] = q[i]
  <2>1. PICK k \in Nat : k = Place(q, l) /\ k - 1 \in 0 .. Places(l) - 1 /\ (k - 1) % 2 = 0
    <3>1. Place(q, l) \in 0 .. Places(l) - 1 /\ Place(q, l) % 2 = 1 /\ Places(l) \in Nat
      <4>1. Place(q, l) \in 0 .. Places(l) - 1 /\ Place(q, l) % 2 = 1 /\ q \in Elements
        BY <1>1
      <4> QED BY <4>1, AtFacts
    <3> QED BY <3>1
  <2> DEFINE r == At(q, l, k - 1)
  <2>2. /\ r \in Elements /\ r[d] = (k - 1) * s
        /\ \A j \in Dims \ {Direct(l)} : r[base[j]] = q[base[j]]
    BY <1>1, <2>1, AtFacts
  <2>3. \A i \in Dims \ {d} : r[i] = q[i]
    <3>1. ASSUME NEW i \in Dims, i # d PROVE r[i] = q[i]
      <4>1. PICK j \in Dims : base[j] = i
        BY BaseCovers
      <4>2. j # Direct(l)
        BY <3>1, <4>1
      <4> QED BY <2>2, <4>1, <4>2
    <3> QED BY <3>1
  <2> HIDE DEF r
  <2>4. ((k - 1) * s) \div s = k - 1 /\ ((k - 1) * s) % s = 0
    <3>1. k - 1 \in Nat
      BY <2>1
    <3> QED BY <1>2, <3>1, EvenMultiple
  <2>5. q[d] = k * s
    <3>1. q[d] \in Nat /\ q[d] % s = 0 /\ k = q[d] \div s
      BY <1>1, <1>2, <2>1 DEF OnLine, Place
    <3> QED BY <1>2, <3>1, DivFits
  <2>6. r \in OnLine(l) /\ Place(r, l) = k - 1
    BY <1>1, <2>2, <2>4 DEF OnLine, Aligned, Place
  <2>7. r \in D
    BY <1>1, <2>1, <2>6
  <2>8. k * s = (k - 1) * s + s
    BY <1>2
  <2> QED BY <2>1, <2>2, <2>3, <2>5, <2>7, <2>8 DEF r
<1> HIDE DEF N, V, D, d, s
<1>4. F \in Injection(V, D)
  <2>1. ASSUME NEW p \in V, NEW q \in V, N(p) = N(q) PROVE p = q
    <3>1. p[d] = q[d] /\ \A i \in Dims \ {d} : p[i] = q[i]
      BY <1>3, <2>1
    <3> QED BY <1>1, <1>2, <3>1
  <2> QED BY <1>3, <2>1 DEF Injection, IsInjective
<1>5. IsFiniteSet(V) /\ IsFiniteSet(D) /\ IsFiniteSet(Elements)
  BY <1>1, ElementsFinite, FS_Subset
<1>6. Cardinality(V) <= Cardinality(D) /\ Cardinality(V) \in Nat /\ Cardinality(D) \in Nat
  BY <1>4, <1>5, FS_Injection, FS_CardinalityType
<1>7. Cardinality(V) + Cardinality(D) <= Cardinality(Elements) /\ Cardinality(Elements) \in Nat
  <2>1. V \cap D = {} /\ V \cup D \in SUBSET Elements
    BY <1>1
  <2>2. Cardinality(V \cup D) = Cardinality(V) + Cardinality(D) - Cardinality(V \cap D)
    BY <1>5, FS_Union
  <2>3. Cardinality(V \cup D) <= Cardinality(Elements)
    BY <1>5, <2>1, FS_Subset
  <2>4. Cardinality(V \cap D) = 0
    BY <2>1, FS_EmptySet
  <2>5. Cardinality(Elements) \in Nat
    BY <1>5, FS_CardinalityType
  <2> QED BY <1>6, <2>2, <2>3, <2>4, <2>5
<1>8. l = 0 => Cardinality(D) <= 1
  <2>1. l = 0 => D = {Anchor}
    BY DoneEnds DEF D
  <2> QED BY <2>1, FS_Singleton
<1> QED BY <1>6, <1>7, <1>8 DEF V

\* Padding the indices of a stage in place to whole bytes of planes stays within the
\* num_elements slots of quant_inds, for every field of eight elements or more.
THEOREM PaddingCorrect == WalkSpec => []PaddingFits
<1>1. WalkInv => PaddingFits
  <2> SUFFICES ASSUME WalkInv, lid <= LastStage, Cardinality(Elements) >= 8
               PROVE  PaddedSize(lid) <= Cardinality(Elements)
    BY DEF PaddingFits
  <2>1. lid \in Stages(shape) /\ Params
    BY DoneEnds, StageFacts DEF WalkInv, Stages, LastStage
  <2>2. PICK v \in Nat, n \in Nat : v = Cardinality(Visited(lid)) /\ n = Cardinality(Elements)
                                   /\ 2 * v <= n /\ (lid = 0 => v <= 1)
    BY <2>1, VisitedHalf
  <2>3. PaddedSize(lid) = ((v + (IF lid = 0 THEN 1 ELSE 0) + 7) \div 8) * 8
    BY <2>2 DEF PaddedSize, quant_inds_size
  <2>4. CASE lid = 0
    <3>1. PaddedSize(lid) = ((v + 8) \div 8) * 8 /\ v <= 1
      BY <2>2, <2>3, <2>4
    <3> QED BY <2>2, <3>1
  <2>5. CASE lid # 0
    <3>1. PaddedSize(lid) = ((v + 7) \div 8) * 8
      BY <2>3, <2>5
    <3> QED BY <2>2, <3>1
  <2> QED BY <2>4, <2>5
<1> QED BY <1>1, WalkInvariant, PTL

-----------------------------------------------------------------------------
(* The bitplane codec *)

\* Undoing two XORs with the same contexts gives the bit back.
LEMMA XorTwice ==
  ASSUME NEW a \in Bit, NEW b \in Bit, NEW c \in Bit
  PROVE  /\ xor(xor(a, xor(b, c)), xor(c, b)) = a
         /\ xor(a, b) \in Bit
         /\ xor(a, 0) = a
BY DEF Bit, xor

\* What the decoder has of a word whose top plane is clear: all planes before
\* bit, the last two of them in the contexts.
CodecInv ==
  /\ word \in [Plane -> Bit]
  /\ stored = convert_table(word)
  /\ bit \in 0 .. W
  /\ loaded_bits \in [Plane -> Bit]
  /\ last_bit \in Bit /\ second_last_bit \in Bit
  /\ word[0] = 0 =>
       /\ \A p \in Plane : p < bit => loaded_bits[p] = word[p]
       /\ bit >= 1 => last_bit = word[bit - 1]
       /\ bit >= 2 => second_last_bit = word[bit - 2]

\* What is stored of a word are planes of bits.
LEMMA StoredPlanes ==
  ASSUME NEW bits \in [Plane -> Bit]
  PROVE  convert_table(bits) \in [Plane -> Bit]
<1> SUFFICES ASSUME NEW p \in Plane PROVE convert_table(bits)[p] \in Bit
  BY DEF convert_table
<1>1. 0 \in Plane /\ bits[0] \in Bit
  <2>1. 0 \in Plane
    BY WidthAssumption DEF Plane
  <2> QED BY <2>1
<1>2. CASE p = 0
  BY <1>1, <1>2 DEF convert_table
<1>3. CASE p # 0
  BY <1>3 DEF convert_table, xor, Bit
<1> QED BY <1>2, <1>3

\* It holds before anything is decoded.
LEMMA CodecStarts == Init => CodecInv
  <1> SUFFICES ASSUME Init PROVE CodecInv
    OBVIOUS
  <1>1. word \in [Plane -> Bit]
    BY DEF Init, Negabinary, Bit
  <1>2. loaded_bits \in [Plane -> Bit] /\ last_bit \in Bit /\ second_last_bit \in Bit
    BY DEF Init, Bit
  <1>3. bit = 0 /\ \A p \in Plane : ~(p < 0)
    BY DEF Init, Plane
  <1> QED BY <1>1, <1>2, <1>3, WidthAssumption DEF Init, CodecInv

\* Every step keeps it.
LEMMA CodecSteps == CodecInv /\ [Next]_vars => CodecInv'
  <1> SUFFICES ASSUME CodecInv, [Next]_vars PROVE CodecInv'
    OBVIOUS
  <1>1. ASSUME invert_table PROVE CodecInv'
    <2> DEFINE decoded == IF bit > 1 THEN xor(stored[bit], xor(second_last_bit, last_bit))
                          ELSE stored[bit]
    <2>1. /\ bit \in Plane /\ bit' = bit + 1 /\ bit + 1 \in 0 .. W
          /\ loaded_bits' = [loaded_bits EXCEPT ![bit] = decoded]
          /\ last_bit' = decoded
          /\ second_last_bit' = IF bit = 0 THEN second_last_bit ELSE last_bit
          /\ UNCHANGED <<word, stored>>
      BY <1>1, WidthAssumption DEF invert_table, CodecInv, Plane
    <2>2. 0 \in Plane /\ (bit >= 1 => bit - 1 \in Plane) /\ (bit >= 2 => bit - 2 \in Plane)
      BY <2>1, WidthAssumption DEF Plane
    <2>3. stored[bit] = IF bit = 0 THEN word[0]
                        ELSE IF bit = 1 THEN xor(word[1], word[0])
                        ELSE xor(word[bit], xor(word[bit - 1], word[bit - 2]))
      BY <2>1 DEF CodecInv, convert_table
    <2>4. word[bit] \in Bit /\ word[0] \in Bit
          /\ (bit >= 1 => word[bit - 1] \in Bit) /\ (bit >= 2 => word[bit - 2] \in Bit)
      BY <2>1, <2>2 DEF CodecInv
    <2>5. decoded \in Bit
      <3>1. stored[bit] \in Bit
        <4>1. CASE bit = 0
          BY <4>1, <2>3, <2>4
        <4>2. CASE bit = 1
          BY <4>2, <2>3 DEF xor, Bit
        <4>3. CASE bit > 1
          BY <4>3, <2>1, <2>3 DEF xor, Bit, Plane
        <4> QED BY <4>1, <4>2, <4>3, <2>1 DEF Plane
      <3>2. xor(second_last_bit, last_bit) \in Bit
        BY XorTwice DEF CodecInv
      <3> QED BY <3>1, <3>2, XorTwice
    <2>6. word[0] = 0 => decoded = word[bit]
      <3> SUFFICES ASSUME word[0] = 0 PROVE decoded = word[bit]
        OBVIOUS
      <3>1. CASE bit = 0
        BY <3>1, <2>3
      <3>2. CASE bit = 1
        BY <3>2, <2>3, <2>4, XorTwice
      <3>3. CASE bit > 1
        <4>1. last_bit = word[bit - 1] /\ second_last_bit = word[bit - 2]
          BY <3>3, <2>1 DEF CodecInv, Plane
        <4>2. decoded = xor(xor(word[bit], xor(word[bit - 1], word[bit - 2])),
                            xor(word[bit - 2], word[bit - 1]))
          BY <3>3, <4>1, <2>1, <2>3 DEF Plane
        <4>3. word[bit] \in Bit /\ word[bit - 1] \in Bit /\ word[bit - 2] \in Bit
          BY <3>3, <2>1, <2>4 DEF Plane
        <4> QED BY <4>2, <4>3, XorTwice
      <3> QED BY <3>1, <3>2, <3>3, <2>1 DEF Plane
    <2>7. loaded_bits' \in [Plane -> Bit]
      BY <2>1, <2>5 DEF CodecInv
    <2>8. last_bit' \in Bit /\ second_last_bit' \in Bit
      BY <2>1, <2>5 DEF CodecInv
    <2> HIDE DEF decoded
    <2>9. ASSUME word[0] = 0
          PROVE  /\ \A p \in Plane : p < bit + 1 => loaded_bits'[p] = word[p]
                 /\ bit + 1 >= 1 => last_bit' = word[(bit + 1) - 1]
                 /\ bit + 1 >= 2 => second_last_bit' = word[(bit + 1) - 2]
      <3>1. \A p \in Plane : p < bit + 1 => loaded_bits'[p] = word[p]
        BY <2>9, <2>1, <2>6 DEF CodecInv, Plane
      <3>2. (bit + 1) - 1 = bit /\ (bit + 1) - 2 = bit - 1 /\ (bit + 1 >= 2 => bit >= 1)
        BY <2>1 DEF Plane
      <3>3. bit + 1 >= 2 => second_last_bit' = word[bit - 1]
        BY <2>9, <2>1, <3>2 DEF CodecInv, Plane
      <3> QED BY <2>9, <2>1, <2>6, <3>1, <3>2, <3>3
    <2> QED BY <2>1, <2>7, <2>8, <2>9 DEF CodecInv
  <1>2. CASE add_to_quant
    BY <1>2 DEF add_to_quant, CodecInv
  <1>3. CASE UNCHANGED vars
    BY <1>3 DEF vars, CodecInv
  <1> QED BY <1>1, <1>2, <1>3 DEF Next

\* invert_table() undoes convert_table() for every word whose top plane is
\* clear, although it does not XOR plane 1 with plane 0.
THEOREM DecodingInvertsPrediction == Spec => []PlanesRecovered
<1>1. CodecInv => PlanesRecovered
  BY DEF CodecInv, PlanesRecovered
<1> QED BY <1>1, CodecStarts, CodecSteps, PTL DEF Spec

-----------------------------------------------------------------------------
(* Words *)

Half  == Power(2, W - 1)
Whole == Power(2, W)

\* The sizes of a word and of its planes.
LEMMA WordFacts ==
  /\ Half \in Nat \ {0} /\ Whole = 2 * Half
  /\ OddBits \in 0 .. Whole - 1
  /\ \A p \in Plane : Weight(p) \in Nat \ {0}
<1>1. W \in Nat /\ W - 1 \in Nat /\ (W - 1) + 1 = W
  BY WidthAssumption
<1>2. Half \in Nat \ {0} /\ Whole = 2 * Half
  <2>1. Power(2, W - 1) \in Nat \ {0}
    BY <1>1, PowerPositive
  <2>2. Power(2, (W - 1) + 1) = 2 * Power(2, W - 1)
    BY <1>1, PowerStep
  <2> QED BY <1>1, <2>1, <2>2 DEF Half, Whole
<1>3. OddBits \in 0 .. Whole - 1
  <2>1. PICK m \in Nat \ {0} : m = Whole
    BY <1>2
  <2>2. PICK k \in Int : k = (m - 1) \div 3 /\ 0 <= k /\ k * 3 <= m - 1
    <3>1. m - 1 \in Nat
      BY <2>1
    <3>2. (m - 1) \div 3 \in Int /\ (m - 1) % 3 \in 0 .. 2
          /\ m - 1 = ((m - 1) \div 3) * 3 + ((m - 1) % 3)
      BY <3>1, DivMod
    <3>3. PICK k \in Int, r \in 0 .. 2 : k = (m - 1) \div 3 /\ m - 1 = k * 3 + r
      BY <3>2
    <3>4. 0 <= k /\ k * 3 <= m - 1
      BY <3>1, <3>3
    <3> QED BY <3>3, <3>4
  <2>3. OddBits = 2 * k
    BY <2>1, <2>2 DEF OddBits, Whole
  <2>4. 2 * k \in 0 .. m - 1
    BY <2>1, <2>2
  <2> QED BY <2>1, <2>3, <2>4
<1>4. ASSUME NEW p \in Plane PROVE Weight(p) \in Nat \ {0}
  <2>1. W - 1 - p \in Nat
    BY <1>1 DEF Plane
  <2> QED BY <2>1, PowerPositive DEF Weight
<1> QED BY <1>2, <1>3, <1>4

\* A signed word is in range, and differs from the number by whole words.
LEMMA SignedFacts ==
  ASSUME NEW a \in Int
  PROVE  /\ Signed(a) \in -Half .. Half - 1
         /\ \E k \in Int : Signed(a) = a + k * Whole
<1>1. PICK h \in Nat \ {0}, m \in Nat \ {0} : h = Half /\ m = Whole /\ m = 2 * h
  BY WordFacts
<1>2. Signed(a) = ((a + h) % m) - h
  BY <1>1 DEF Signed, Half, Whole
<1>3. /\ (a + h) \div m \in Int /\ (a + h) % m \in 0 .. m - 1
      /\ a + h = ((a + h) \div m) * m + ((a + h) % m)
  <2>1. PICK x \in Int : x = a + h
    OBVIOUS
  <2>2. x \div m \in Int /\ x % m \in 0 .. m - 1 /\ x = (x \div m) * m + (x % m)
    BY DivMod, Zenon
  <2> QED BY <2>1, <2>2, Zenon
<1>4. PICK k \in Int, r \in 0 .. m - 1 : r = (a + h) % m /\ a + h = k * m + r
  BY <1>3
<1>5. Signed(a) = r - h
  BY <1>2, <1>4
<1>6. r - h \in -h .. h - 1
  BY <1>1
<1>7. r - h = a + (-k) * m /\ -k \in Int
  <2>1. (-k) * m = -(k * m) /\ k * m \in Int
    OBVIOUS
  <2> QED BY <1>4, <2>1
<1> QED BY <1>1, <1>5, <1>6, <1>7, Zenon

\* Whole words make no difference to the signed word.
LEMMA SignedWraps ==
  ASSUME NEW a \in Int, NEW k \in Int
  PROVE  Signed(a + k * Whole) = Signed(a)
<1>1. PICK h \in Nat \ {0}, m \in Nat \ {0} : h = Half /\ m = Whole
  BY WordFacts
<1>2. \A x : Signed(x) = ((x + h) % m) - h
  BY <1>1 DEF Signed, Half, Whole
<1>3. /\ (a + h) \div m \in Int /\ (a + h) % m \in 0 .. m - 1
      /\ a + h = ((a + h) \div m) * m + ((a + h) % m)
  <2>1. PICK x \in Int : x = a + h
    OBVIOUS
  <2>2. x \div m \in Int /\ x % m \in 0 .. m - 1 /\ x = (x \div m) * m + (x % m)
    BY DivMod, Zenon
  <2> QED BY <2>1, <2>2, Zenon
<1>4. PICK q \in Int, r \in 0 .. m - 1 : r = (a + h) % m /\ a + h = q * m + r
  BY <1>3
<1>5. (a + k * m) + h = (q + k) * m + r
  <2>1. (q + k) * m = q * m + k * m /\ q * m \in Int /\ k * m \in Int
    OBVIOUS
  <2>2. PICK y \in Int, z \in Int : y = q * m /\ z = k * m
    BY <2>1
  <2>3. a + h = y + r
    BY <1>4, <2>2, Zenon
  <2>4. (a + z) + h = (y + z) + r
    BY <2>3
  <2> QED BY <2>1, <2>2, <2>4, Zenon
<1>6. ((q + k) * m + r) % m = r
  BY DivUnique
<1> QED BY <1>1, <1>2, <1>4, <1>5, <1>6

\* Signed words add up modulo a whole word.
LEMMA SignedAdds ==
  ASSUME NEW a \in Int, NEW b \in Int
  PROVE  Signed(Signed(a) + Signed(b)) = Signed(a + b)
<1>1. PICK j \in Int : Signed(a) = a + j * Whole
  BY SignedFacts
<1>2. PICK k \in Int : Signed(b) = b + k * Whole
  BY SignedFacts
<1>3. (a + j * Whole) + (b + k * Whole) = (a + b) + (j + k) * Whole
  <2>1. PICK m \in Int : m = Whole
    BY WordFacts
  <2>2. (j + k) * m = j * m + k * m /\ j * m \in Int /\ k * m \in Int
    OBVIOUS
  <2>3. (a + j * m) + (b + k * m) = (a + b) + (j + k) * m
    BY <2>2
  <2> QED BY <2>1, <2>3, Zenon
<1>4. Signed((a + b) + (j + k) * Whole) = Signed(a + b)
  BY SignedWraps
<1> QED BY <1>1, <1>2, <1>3, <1>4

\* A bit is 0 or 1.
LEMMA BitsAre ==
  ASSUME NEW n \in Int, NEW p \in Plane
  PROVE  BitOf(n, p) \in Bit
<1>1. PICK m \in Nat \ {0} : m = Weight(p)
  BY WordFacts
<1>2. PICK q \in Int : q = n \div m
  BY DivMod, Zenon
<1>3. q % 2 \in 0 .. 2 - 1
  <2>1. 2 \in Nat \ {0}
    OBVIOUS
  <2> QED BY <2>1, DivMod, Zenon
<1>4. BitOf(n, p) = q % 2
  BY <1>1, <1>2, Zenon DEF BitOf
<1> QED BY <1>3, <1>4 DEF Bit

\* The bits from plane b on, each at its weight, add up to the last W - b bits.
LEMMA LowBitsAddUp ==
  ASSUME NEW n \in Nat, NEW b \in 0 .. W,
         NEW w, \A p \in b .. W - 1 : w[p] = BitOf(n, p) * Weight(p)
  PROVE  SumFunctionOnSet(w, b .. W - 1) = n % Power(2, W - b)
<1> DEFINE m == W - b
           e == [j \in 0 .. m - 1 |-> W - 1 - j]
<1>1. W \in Nat /\ m \in Nat /\ 2 \in Nat \ {0}
  BY WidthAssumption
<1>2. \A j, k \in 0 .. m - 1 : e[j] = e[k] => j = k
  BY <1>1
<1>3. /\ \A j \in 0 .. m - 1 : e[j] \in b .. W - 1
      /\ \A p \in b .. W - 1 : \E j \in 0 .. m - 1 : p = e[j]
  <2>1. \A j \in 0 .. m - 1 : e[j] \in b .. W - 1
    BY <1>1
  <2>2. \A p \in b .. W - 1 : W - 1 - p \in 0 .. m - 1 /\ e[W - 1 - p] = p
    BY <1>1
  <2> QED BY <2>1, <2>2
<1>4. ASSUME NEW j \in 0 .. m - 1
      PROVE  w[e[j]] = ((n \div Power(2, j)) % 2) * Power(2, j)
  <2>1. PICK p \in b .. W - 1 : p = W - 1 - j /\ W - 1 - p = j /\ e[j] = p
    BY <1>1
  <2>2. Weight(p) = Power(2, j)
    BY <2>1 DEF Weight
  <2>3. w[p] = ((n \div Weight(p)) % 2) * Weight(p)
    BY DEF BitOf
  <2> QED BY <2>1, <2>2, <2>3, Zenon
<1> HIDE DEF e, m
<1>5. Digits(2, n, m, b .. W - 1, e, w)
  <2>1. \A j \in 0 .. m - 1 : w[e[j]] = ((n \div Power(2, j)) % 2) * Power(2, j)
    BY <1>4
  <2> QED BY <1>2, <1>3, <2>1 DEF Digits
<1>6. SumFunctionOnSet(w, b .. W - 1) = n % Power(2, m)
  <2>1. PICK I : I = b .. W - 1
    OBVIOUS
  <2>a. PICK B \in Nat \ {0} : B = 2
    OBVIOUS
  <2>2. Digits(B, n, m, I, e, w)
    BY <1>5, <2>1, <2>a, Zenon
  <2>3. m \in Nat
    BY <1>1
  <2>4. SumFunctionOnSet(w, I) = n % Power(B, m) /\ IsFiniteSet(I)
    BY <2>2, <2>3, DigitsAddUp
  <2> QED BY <2>1, <2>a, <2>4, Zenon
<1> QED BY <1>6 DEF m

\* All bits add up to the word.
LEMMA BitsAddUp ==
  ASSUME NEW n \in 0 .. Whole - 1, NEW w, \A p \in Plane : w[p] = BitOf(n, p) * Weight(p)
  PROVE  SumFunctionOnSet(w, Plane) = n
<1>1. W \in Nat /\ 0 \in 0 .. W /\ W - 0 = W /\ n \in Nat
  BY WordFacts, WidthAssumption
<1>2. SumFunctionOnSet(w, 0 .. W - 1) = n % Power(2, W - 0)
  BY <1>1, LowBitsAddUp DEF Plane
<1>3. n % Whole = n
  <2>1. PICK m \in Nat \ {0} : m = Whole
    BY WordFacts
  <2>2. 0 * m + n = n /\ n \in 0 .. m - 1
    BY <1>1, <2>1
  <2> QED BY <2>1, <2>2, DivUnique
<1> QED BY <1>1, <1>2, <1>3 DEF Whole, Plane

-----------------------------------------------------------------------------
(* What planes are worth *)

\* What ValueOf() adds up, plane by plane.
Adder(bits, ps) ==
  [p \in Plane |-> IF p \notin ps THEN BitOf(OddBits, p) * Weight(p)
                   ELSE IF bits[p] = BitOf(OddBits, p) THEN 0 ELSE Weight(p)]
Added(bits, ps) == SumFunctionOnSet(Adder(bits, ps), Plane)

\* A value is the signed word of what its planes add up to, less the odd bits.
LEMMA ValueFacts ==
  ASSUME NEW bits, NEW ps
  PROVE  /\ \A p \in Plane : Adder(bits, ps)[p] \in Nat
         /\ Added(bits, ps) \in Int
         /\ ValueOf(bits, ps) = Signed(Added(bits, ps) - OddBits)
<1> DEFINE f == Adder(bits, ps)
<1>1. ASSUME NEW p \in Plane
      PROVE  BitOf(OddBits, p) * Weight(p) \in Nat /\ Weight(p) \in Nat
  <2>1. Weight(p) \in Nat \ {0} /\ OddBits \in Int
    BY WordFacts
  <2>2. PICK m \in Nat \ {0}, n \in Int : m = Weight(p) /\ n = OddBits
    BY <2>1
  <2>3. PICK r \in Nat : r = BitOf(OddBits, p)
    BY <2>1, BitsAre DEF Bit
  <2>4. r * m \in Nat
    OBVIOUS
  <2> QED BY <2>2, <2>3, <2>4
<1>2. \A p \in Plane : f[p] \in Nat
  BY <1>1 DEF Adder
<1>3. Added(bits, ps) \in Int
  <2>1. IsFiniteSet(Plane)
    BY WidthAssumption, FS_Interval DEF Plane
  <2>2. SumFunctionOnSet(f, Plane) \in Nat
    <3> HIDE DEF f
    <3> QED BY <1>2, <2>1, SumNatural
  <2> QED BY <2>2 DEF Added
<1>4. ValueOf(bits, ps) = Signed(Added(bits, ps) - OddBits)
  <2>1. SumFunction(f) = SumFunctionOnSet(f, Plane)
    BY DEF SumFunction, Adder
  <2>2. ValueOf(bits, ps) = Signed(SumFunction(f) - OddBits)
    BY Zenon DEF ValueOf, Adder
  <2> QED BY <2>1, <2>2, Zenon DEF Added
<1> QED BY <1>2, <1>3, <1>4

\* Only the planes asked for count.
LEMMA ValueOfSame ==
  ASSUME NEW a, NEW b, NEW ps, \A p \in Plane : p \in ps => a[p] = b[p]
  PROVE  ValueOf(a, ps) = ValueOf(b, ps)
<1>1. Adder(a, ps) = Adder(b, ps)
  BY DEF Adder
<1>2. Added(a, ps) = Added(b, ps)
  BY <1>1 DEF Added
<1> QED BY <1>2, ValueFacts

\* Without a plane the odd bits are what is added up, and the value is 0.
LEMMA ValueOfNone ==
  ASSUME NEW bits
  PROVE  Added(bits, {}) = OddBits /\ ValueOf(bits, {}) = 0
<1>1. Added(bits, {}) = OddBits
  <2>1. \A p \in Plane : Adder(bits, {})[p] = BitOf(OddBits, p) * Weight(p)
    BY DEF Adder
  <2>2. OddBits \in 0 .. Whole - 1
    BY WordFacts
  <2> QED BY <2>1, <2>2, BitsAddUp DEF Added
<1>2. Signed(0) = 0
  <2>1. PICK h \in Nat \ {0}, m \in Nat \ {0} : h = Half /\ m = Whole /\ m = 2 * h
    BY WordFacts
  <2>2. h \in 0 .. m - 1 /\ 0 * m + h = h /\ 0 + h = h /\ h - h = 0 /\ 0 \in Int
    BY <2>1
  <2>3. (0 * m + h) % m = h
    BY <2>2, DivUnique
  <2>4. Signed(0) = ((0 + h) % m) - h
    BY <2>1 DEF Signed, Half, Whole
  <2> QED BY <2>2, <2>3, <2>4, Zenon
<1>3. OddBits - OddBits = 0
  BY WordFacts
<1> QED BY <1>1, <1>2, <1>3, ValueFacts

\* The values of two sets of planes add up to the value of both.
LEMMA ValueOfUnion ==
  ASSUME NEW bits, NEW ps, NEW qs, ps \cap qs = {}
  PROVE  Signed(ValueOf(bits, ps) + ValueOf(bits, qs)) = ValueOf(bits, ps \cup qs)
<1> DEFINE a == Adder(bits, ps)
           b == Adder(bits, qs)
           c == Adder(bits, ps \cup qs)
           o == Adder(bits, {})
           v == [p \in Plane |-> a[p] + b[p]]
<1>1. /\ \A p \in Plane : a[p] \in Int /\ b[p] \in Int /\ c[p] \in Int /\ o[p] \in Int
      /\ IsFiniteSet(Plane)
  <2>1. IsFiniteSet(Plane)
    BY WidthAssumption, FS_Interval DEF Plane
  <2>2. \A p \in Plane : a[p] \in Nat /\ b[p] \in Nat /\ c[p] \in Nat /\ o[p] \in Nat
    <3> HIDE DEF a, b, c, o
    <3>1. \A p \in Plane : Adder(bits, ps)[p] \in Nat
      BY ValueFacts, Zenon
    <3>2. \A p \in Plane : Adder(bits, qs)[p] \in Nat
      BY ValueFacts, Zenon
    <3>3. \A p \in Plane : Adder(bits, ps \cup qs)[p] \in Nat
      BY ValueFacts, Zenon
    <3>4. \A p \in Plane : Adder(bits, {})[p] \in Nat
      BY ValueFacts, Zenon
    <3> QED BY <3>1, <3>2, <3>3, <3>4, Zenon DEF a, b, c, o
  <2> HIDE DEF a, b, c, o
  <2>3. \A p \in Plane : a[p] \in Int /\ b[p] \in Int /\ c[p] \in Int /\ o[p] \in Int
    BY <2>2
  <2> QED BY <2>1, <2>3, Zenon
<1>2. ASSUME NEW p \in Plane PROVE a[p] + b[p] = c[p] + o[p]
  <2>1. CASE p \in ps
    <3>1. p \notin qs /\ p \in ps \cup qs
      BY <2>1
    <3>2. b[p] = o[p] /\ a[p] = c[p]
      BY <2>1, <3>1 DEF Adder
    <3> HIDE DEF a, b, c, o
    <3> QED BY <3>2, <1>1
  <2>2. CASE p \in qs
    <3>1. p \notin ps /\ p \in ps \cup qs
      BY <2>2
    <3>2. a[p] = o[p] /\ b[p] = c[p]
      BY <2>2, <3>1 DEF Adder
    <3> HIDE DEF a, b, c, o
    <3> QED BY <3>2, <1>1
  <2>3. CASE p \notin ps /\ p \notin qs
    <3>1. p \notin ps \cup qs
      BY <2>3
    <3>2. a[p] = o[p] /\ b[p] = c[p]
      BY <2>3, <3>1 DEF Adder
    <3> HIDE DEF a, b, c, o
    <3> QED BY <3>2, <1>1
  <2> QED BY <2>1, <2>2, <2>3
<1>3. \A p \in Plane : v[p] = a[p] + b[p] /\ v[p] = c[p] + o[p]
  BY <1>2
<1> HIDE DEF a, b, c, o, v
<1>4. SumFunctionOnSet(v, Plane) = SumFunctionOnSet(a, Plane) + SumFunctionOnSet(b, Plane)
  BY <1>1, <1>3, SumPointwise
<1>5. SumFunctionOnSet(v, Plane) = SumFunctionOnSet(c, Plane) + SumFunctionOnSet(o, Plane)
  BY <1>1, <1>3, SumPointwise
<1>6. /\ SumFunctionOnSet(a, Plane) = Added(bits, ps)
      /\ SumFunctionOnSet(b, Plane) = Added(bits, qs)
      /\ SumFunctionOnSet(c, Plane) = Added(bits, ps \cup qs)
      /\ SumFunctionOnSet(o, Plane) = OddBits
  <2>1. Added(bits, {}) = OddBits
    BY ValueOfNone, Zenon
  <2> QED BY <2>1, Zenon DEF Added, a, b, c, o
<1>7. PICK x \in Int, y \in Int, z \in Int, n \in Int :
        /\ x = Added(bits, ps) /\ y = Added(bits, qs)
        /\ z = Added(bits, ps \cup qs) /\ n = OddBits
  BY ValueFacts, WordFacts
<1>8. x + y = z + n
  BY <1>4, <1>5, <1>6, <1>7, Zenon
<1>9. (x - n) + (y - n) = z - n /\ x - n \in Int /\ y - n \in Int
  BY <1>8
<1>10. /\ ValueOf(bits, ps) = Signed(x - n) /\ ValueOf(bits, qs) = Signed(y - n)
       /\ ValueOf(bits, ps \cup qs) = Signed(z - n)
  BY <1>7, ValueFacts, Zenon
<1>11. Signed(Signed(x - n) + Signed(y - n)) = Signed((x - n) + (y - n))
  BY <1>9, SignedAdds, Zenon
<1> QED BY <1>9, <1>10, <1>11, Zenon

\* With the planes recovered, what the updates have added: the value of the planes
\* merged, in the range of an index.
QuantInv ==
  /\ CodecInv
  /\ diff \in Diffs /\ word = Negabinary(Index(diff))
  /\ stored \in [Plane -> Bit]
  /\ bsum \in 0 .. bit
  /\ quant = ValueOf(loaded_bits, 0 .. bsum - 1)

\* The invariant holds of every execution: a plane loaded later does not change
\* what was added, and the planes of two updates do not overlap.
THEOREM QuantInvariant == Spec => []QuantInv
<1>1. Init => QuantInv
  <2> SUFFICES ASSUME Init PROVE QuantInv
    OBVIOUS
  <2>1. CodecInv
    BY CodecStarts
  <2>2. stored \in [Plane -> Bit]
    BY <2>1, StoredPlanes DEF CodecInv
  <2>3. bsum = 0 /\ 0 .. bsum - 1 = {} /\ bsum \in 0 .. bit /\ quant = 0
        /\ diff \in Diffs /\ word = Negabinary(Index(diff))
    BY DEF Init
  <2>4. ValueOf(loaded_bits, {}) = 0
    BY ValueOfNone, Zenon
  <2> QED BY <2>1, <2>2, <2>3, <2>4 DEF QuantInv
<1>2. QuantInv /\ [Next]_vars => QuantInv'
  <2> SUFFICES ASSUME QuantInv, [Next]_vars PROVE QuantInv'
    OBVIOUS
  <2>0. CodecInv'
    BY CodecSteps DEF QuantInv
  <2>1. CASE invert_table
    <3>1. /\ UNCHANGED <<diff, word, stored, bsum, quant>> /\ bit' = bit + 1
          /\ \E b : loaded_bits' = [loaded_bits EXCEPT ![bit] = b]
      BY <2>1 DEF invert_table
    <3>2. bit \in 0 .. W /\ loaded_bits \in [Plane -> Bit] /\ bsum \in 0 .. bit
      BY DEF QuantInv, CodecInv
    <3>3. \A p \in Plane : p \in 0 .. bsum - 1 => loaded_bits[p] = loaded_bits'[p]
      <4>1. \A p \in Plane : p \in 0 .. bsum - 1 => p # bit
        BY <3>2, WidthAssumption DEF Plane
      <4> QED BY <3>1, <3>2, <4>1
    <3>4. ValueOf(loaded_bits, 0 .. bsum - 1) = ValueOf(loaded_bits', 0 .. bsum - 1)
      BY <3>3, ValueOfSame, Zenon
    <3>5. bsum' \in 0 .. bit'
      BY <3>1, <3>2, WidthAssumption
    <3>6. ValueOf(loaded_bits', 0 .. bsum' - 1) = quant'
      BY <3>1, <3>4, Zenon DEF QuantInv
    <3> QED BY <2>0, <3>1, <3>5, <3>6 DEF QuantInv
  <2>2. CASE add_to_quant
    <3>1. /\ UNCHANGED <<diff, word, stored, bit, loaded_bits>> /\ bsum' = bit /\ bsum < bit
          /\ quant' = Signed(quant + ValueOf(loaded_bits, bsum .. bit - 1))
      BY <2>2 DEF add_to_quant
    <3>2. bit \in 0 .. W /\ bsum \in 0 .. bit /\ quant = ValueOf(loaded_bits, 0 .. bsum - 1)
      BY DEF QuantInv, CodecInv
    <3>3. PICK ps, qs : ps = 0 .. bsum - 1 /\ qs = bsum .. bit - 1
      OBVIOUS
    <3>4. ps \cap qs = {} /\ ps \cup qs = 0 .. bit - 1
      BY <3>1, <3>2, <3>3, WidthAssumption
    <3>5. Signed(ValueOf(loaded_bits, ps) + ValueOf(loaded_bits, qs))
            = ValueOf(loaded_bits, ps \cup qs)
      BY <3>4, ValueOfUnion
    <3>6. quant' = ValueOf(loaded_bits, 0 .. bit - 1)
      BY <3>1, <3>2, <3>3, <3>4, <3>5, Zenon
    <3>7. quant' = ValueOf(loaded_bits', 0 .. bsum' - 1)
      BY <3>1, <3>6, Zenon
    <3>8. bsum' \in 0 .. bit'
      BY <3>1, <3>2, WidthAssumption
    <3> QED BY <2>0, <3>1, <3>7, <3>8 DEF QuantInv
  <2>3. CASE UNCHANGED vars
    <3>1. UNCHANGED <<diff, word, stored, bit, loaded_bits, bsum, quant>>
      BY <2>3 DEF vars
    <3> QED BY <2>0, <3>1 DEF QuantInv
  <2> QED BY <2>1, <2>2, <2>3 DEF Next
<1> QED BY <1>1, <1>2, PTL DEF Spec

\* Every execution keeps the types: above all, the sum stays an index.
THEOREM CodecTypes == Spec => []TypeOK
<1>1. QuantInv => TypeOK
  <2> SUFFICES ASSUME QuantInv PROVE TypeOK
    OBVIOUS
  <2>1. quant \in -Half .. Half - 1
    <3>1. PICK n \in Int : quant = Signed(n)
      <4>1. Added(loaded_bits, 0 .. bsum - 1) - OddBits \in Int
        BY ValueFacts, WordFacts
      <4> QED BY <4>1, ValueFacts, Zenon DEF QuantInv
    <3> QED BY <3>1, SignedFacts
  <2>2. bsum \in 0 .. W
    BY WidthAssumption DEF QuantInv, CodecInv
  <2> QED BY <2>1, <2>2 DEF QuantInv, CodecInv, TypeOK, Half
<1> QED BY <1>1, QuantInvariant, PTL

\* What the updates have added is what the planes merged are worth, however many
\* updates it took to add them.
THEOREM SplitsAreCorrect == Spec => []SplitsAddUp
<1>1. QuantInv => SplitsAddUp
  BY DEF QuantInv, SplitsAddUp
<1> QED BY <1>1, QuantInvariant, PTL

-----------------------------------------------------------------------------
(* How far off a value is *)

\* The differences whose index fits the planes with the top plane clear.
Representable == -(4 * (OddBits - Half) + 1) .. 2 * Half - 3

\* Every second bit: two thirds of a full word.
LEMMA OddFacts ==
  /\ 3 * OddBits = 2 * (Whole - 1)
  /\ Half >= 2
<1> DEFINE N == {n \in Nat : \E c \in Nat : Power(2, 2 * n) = 3 * c + 1}
<1>1. 0 \in N
  <2>1. Power(2, 2 * 0) = 1
    BY PowerStep
  <2>2. 1 = 3 * 0 + 1
    OBVIOUS
  <2> QED BY <2>1, <2>2
<1>2. ASSUME NEW n \in Nat, n \in N PROVE n + 1 \in N
  <2>1. PICK c \in Nat : Power(2, 2 * n) = 3 * c + 1
    BY <1>2
  <2>2. Power(2, (2 * n) + 1) = 2 * Power(2, 2 * n)
    BY PowerStep
  <2>3. Power(2, ((2 * n) + 1) + 1) = 2 * Power(2, (2 * n) + 1)
    <3>1. (2 * n) + 1 \in Nat
      OBVIOUS
    <3> QED BY <3>1, PowerStep
  <2>4. ((2 * n) + 1) + 1 = 2 * (n + 1)
    OBVIOUS
  <2>5. PICK d \in Nat : 2 * (2 * (3 * c + 1)) = 3 * d + 1
    <3>1. 2 * (2 * (3 * c + 1)) = 3 * (4 * c + 1) + 1 /\ 4 * c + 1 \in Nat
      OBVIOUS
    <3> QED BY <3>1
  <2>6. Power(2, 2 * (n + 1)) = 3 * d + 1
    BY <2>1, <2>2, <2>3, <2>4, <2>5, Zenon
  <2> QED BY <2>6
<1> HIDE DEF N
<1>3. Nat \subseteq N
  BY <1>1, <1>2, SetInduction
<1>4. PICK n \in Nat \ {0} : W = 2 * n
  <2>1. W = (W \div 2) * 2 + (W % 2) /\ W \div 2 \in Int
    BY WidthAssumption
  <2>2. PICK n \in Int : n = W \div 2
    BY <2>1
  <2>3. W = 2 * n /\ W > 1
    BY <2>1, <2>2, WidthAssumption
  <2> QED BY <2>3
<1>5. PICK c \in Nat : Whole = 3 * c + 1
  BY <1>3, <1>4 DEF N, Whole
<1>6. 3 * OddBits = 2 * (Whole - 1)
  <2>1. Whole - 1 = c * 3 + 0 /\ 0 \in 0 .. 3 - 1 /\ 3 \in Nat \ {0} /\ c \in Int
    BY <1>5
  <2>2. (c * 3 + 0) \div 3 = c
    BY <2>1, DivUnique
  <2>3. OddBits = 2 * c
    BY <2>1, <2>2 DEF OddBits, Whole
  <2> QED BY <1>5, <2>3
<1>7. Half >= 2
  <2>1. W - 2 \in Nat /\ (W - 2) + 1 = W - 1
    BY <1>4
  <2>2. Power(2, W - 2) \in Nat \ {0} /\ Power(2, (W - 2) + 1) = 2 * Power(2, W - 2)
    BY <2>1, PowerStep, PowerPositive
  <2> QED BY <2>1, <2>2 DEF Half
<1> QED BY <1>6, <1>7

\* A number in the range of a word is its own signed word.
LEMMA SignedIs ==
  ASSUME NEW a \in -Half .. Half - 1
  PROVE  Signed(a) = a
<1>1. PICK h \in Nat \ {0}, m \in Nat \ {0} : h = Half /\ m = Whole /\ m = 2 * h
  BY WordFacts
<1>2. PICK r \in 0 .. m - 1 : r = a + h
  BY <1>1
<1>3. 0 * m + r = r /\ r - h = a
  BY <1>1, <1>2
<1>4. r % m = r
  BY <1>3, DivUnique
<1>5. Signed(a) = ((a + h) % m) - h
  BY <1>1 DEF Signed, Half, Whole
<1> QED BY <1>2, <1>3, <1>4, <1>5, Zenon

\* The index is off by at most the rounding, and its negabinary word has the top
\* plane clear.
LEMMA IndexFacts ==
  ASSUME NEW d \in Representable
  PROVE  /\ Index(d) \in Int
         /\ Index(d) + OddBits \in Half .. Whole - 1
         /\ 4 * Index(d) - d \in -2 .. 2
<1>1. PICK h \in Nat, o \in Nat : /\ h = Half /\ o = OddBits /\ Whole = 2 * h
                                  /\ 3 * o = 4 * h - 2 /\ h >= 2
  BY WordFacts, OddFacts
<1>2. d \in Int /\ d >= -(4 * (o - h) + 1) /\ d <= 2 * h - 3
  BY <1>1 DEF Representable
<1>3. PICK a \in Nat : a = Abs(d) /\ a = IF d < 0 THEN -d ELSE d
  BY <1>2 DEF Abs
<1>4. PICK k \in Int, s \in 0 .. 1 : k = a \div 2 /\ a = k * 2 + s
  BY <1>3
<1>5. k >= 0 /\ k + 1 <= h - 1
  BY <1>1, <1>2, <1>3, <1>4
<1>6. Truncated(k) = k
  BY <1>1, <1>5 DEF Truncated, Half
<1>7. Signed(k + 1) = k + 1
  <2>1. k + 1 \in -Half .. Half - 1
    BY <1>1, <1>4, <1>5
  <2> QED BY <2>1, SignedIs
<1>8. PICK q \in Int, t \in 0 .. 1 : q = (k + 1) \div 2 /\ k + 1 = q * 2 + t
  BY <1>4
<1>9. Index(d) = IF d < 0 THEN -q ELSE q
  BY <1>3, <1>4, <1>6, <1>7, <1>8, Zenon DEF Index
<1>10. CASE d < 0
  <2>1. Index(d) = -q /\ a = -d
    BY <1>3, <1>9, <1>10
  <2>2. -q + o >= h /\ -q + o <= 2 * h - 1
    BY <2>1, <1>1, <1>2, <1>4, <1>5, <1>8
  <2>3. 4 * (-q) - d \in -2 .. 2
    BY <2>1, <1>2, <1>4, <1>8
  <2> QED BY <2>1, <2>2, <2>3, <1>1
<1>11. CASE ~(d < 0)
  <2>1. Index(d) = q /\ a = d
    BY <1>3, <1>9, <1>11
  <2>2. q + o >= h /\ q + o <= 2 * h - 1
    BY <2>1, <1>1, <1>2, <1>4, <1>5, <1>8
  <2>3. 4 * q - d \in -2 .. 2
    BY <2>1, <1>2, <1>4, <1>8
  <2> QED BY <2>1, <2>2, <2>3, <1>1
<1> QED BY <1>10, <1>11

\* A number x + r between y and twice y, both x and y multiples of m, stays there
\* with another remainder.
LEMMA LastBitsReplaced ==
  ASSUME NEW m \in Nat \ {0}, NEW q \in Int, NEW c \in Int,
         NEW x \in Int, x = q * m, NEW y \in Int, y = c * m,
         NEW r \in 0 .. m - 1, x + r \in y .. 2 * y - 1, NEW t \in 0 .. m - 1
  PROVE  x + t \in y .. 2 * y - 1
<1>2. (q - c) * m = x - y /\ (q - 2 * c) * m = x - 2 * y
  OBVIOUS
<1>3. q - c >= 0
  <2>1. q - c <= -1 => (q - c) * m <= -m
    BY MultipleAtLeast
  <2> QED BY <2>1, <1>2
<1>4. x - y >= 0
  <2>1. q - c >= 1 => (q - c) * m >= m
    BY MultipleAtLeast
  <2>2. q - c = 0 => (q - c) * m = 0
    OBVIOUS
  <2> QED BY <2>1, <2>2, <1>2, <1>3
<1>5. q - 2 * c <= -1
  <2>1. q - 2 * c >= 1 => (q - 2 * c) * m >= m
    <3>1. q - 2 * c \in Int
      OBVIOUS
    <3> QED BY <3>1, MultipleAtLeast
  <2>2. q - 2 * c = 0 => (q - 2 * c) * m = 0
    OBVIOUS
  <2> QED BY <2>1, <2>2, <1>2
<1>6. x - 2 * y <= -m
  <2>1. q - 2 * c \in Int
    OBVIOUS
  <2> QED BY <2>1, <1>2, <1>5, MultipleAtLeast
<1> QED BY <1>4, <1>6

\* The odd bits o of a word of m times n values: shifted by the n of the planes kept
\* they are a, with r left over, and the planes lost hold b of them, out of m.
OddSplit(m, n, o, a, r, c, b) ==
  /\ 3 * o = 2 * (m * n) - 2
  /\ o = a * n + r
  /\ o = c * m + b

\* Neither the odd bits nor the others among the planes lost are worth more than the
\* odd bits shifted.
LEMMA ShiftedOddBits ==
  ASSUME NEW m \in Nat \ {0}, NEW n \in Nat \ {0}, NEW o \in Nat,
         NEW a \in Int, NEW r \in 0 .. n - 1, NEW c \in Int, NEW b \in 0 .. m - 1,
         OddSplit(m, n, o, a, r, c, b)
  PROVE  b <= a /\ m - 1 - b <= a
<1> USE DEF OddSplit
<1>1. PICK x \in Int, y \in Int, z \in Int : x = m * n /\ y = a * n /\ z = c * m
  OBVIOUS
<1>2. PICK i \in Int : i = 2 * m - 3 * a
  <2>1. 2 * m - 3 * a \in Int
    OBVIOUS
  <2> QED BY <2>1, Zenon
<1>3. PICK j \in Int : j = 2 * n - 3 * c
  <2>1. 2 * n - 3 * c \in Int
    OBVIOUS
  <2> QED BY <2>1, Zenon
<1>4. i * n = 3 * r + 2
  <2>1. (2 * m - 3 * a) * n = 2 * (m * n) - 3 * (a * n)
    OBVIOUS
  <2>2. 2 * x - 3 * y = 3 * r + 2
    BY <1>1
  <2> QED BY <2>1, <2>2, <1>1, <1>2, Zenon
<1>5. j * m = 3 * b + 2
  <2>1. (2 * n - 3 * c) * m = 2 * (m * n) - 3 * (c * m)
    OBVIOUS
  <2>2. 2 * x - 3 * z = 3 * b + 2
    BY <1>1
  <2> QED BY <2>1, <2>2, <1>1, <1>3, Zenon
<1> HIDE DEF OddSplit
<1>6. ASSUME NEW u \in Int, NEW s \in Nat \ {0}, NEW v \in 0 .. s - 1, u * s = 3 * v + 2
      PROVE  u \in {1, 2}
  <2>1. u >= 1
    <3>1. u <= -1 => u * s <= -s
      BY MultipleAtLeast
    <3>2. u = 0 => u * s = 0
      OBVIOUS
    <3> QED BY <3>1, <3>2, <1>6
  <2>2. u <= 2
    <3>1. u - 3 >= 1 => (u - 3) * s >= s
      <4>1. u - 3 \in Int
        OBVIOUS
      <4> QED BY <4>1, MultipleAtLeast
    <3>2. (u - 3) * s = u * s - 3 * s
      OBVIOUS
    <3>3. u = 3 => u * s = 3 * s
      OBVIOUS
    <3>4. PICK w \in Int : w = u * s
      OBVIOUS
    <3> QED BY <3>1, <3>2, <3>3, <3>4, <1>6
  <2> QED BY <2>1, <2>2
<1>7. i \in {1, 2}
  BY <1>4, <1>6
<1>8. j \in {1, 2}
  BY <1>5, <1>6
<1>9. CASE j = 1
  <2>1. m = 3 * b + 2
    BY <1>5, <1>9
  <2> QED BY <2>1, <1>2, <1>7
<1>10. CASE j = 2
  <2>1. 2 * m = 3 * b + 2
    BY <1>5, <1>10
  <2> QED BY <2>1, <1>2, <1>7
<1> QED BY <1>8, <1>9, <1>10

\* The negabinary word of an index with the top plane clear.
LEMMA NegabinaryIs ==
  ASSUME NEW q \in Int, q + OddBits \in Half .. Whole - 1
  PROVE  /\ \A p \in Plane : Negabinary(q)[p]
              = IF BitOf(q + OddBits, p) = BitOf(OddBits, p) THEN 0 ELSE 1
         /\ Negabinary(q)[0] = 0
<1>1. PICK h \in Nat \ {0}, m \in Nat \ {0}, o \in Nat, s \in Nat :
        /\ h = Half /\ m = Whole /\ m = 2 * h /\ o = OddBits /\ s = q + OddBits
        /\ s >= h /\ s < m /\ o >= h /\ o < m
  BY WordFacts, OddFacts
<1>2. s % m = s
  <2>1. 0 * m + s = s /\ s \in 0 .. m - 1
    BY <1>1
  <2> QED BY <2>1, DivUnique
<1>3. \A p \in Plane : Negabinary(q)[p] = IF BitOf(s, p) = BitOf(o, p) THEN 0 ELSE 1
  BY <1>1, <1>2 DEF Negabinary, Whole
<1>4. ASSUME NEW n \in Nat, n >= h, n < m PROVE BitOf(n, 0) = 1
  <2>1. PICK r \in 0 .. h - 1 : 1 * h + r = n
    <3>1. n - h \in 0 .. h - 1 /\ 1 * h + (n - h) = n
      BY <1>1, <1>4
    <3> QED BY <3>1
  <2>2. n \div h = 1
    BY <2>1, DivUnique
  <2>3. 1 % 2 = 1
    OBVIOUS
  <2>4. Weight(0) = h
    <3>1. W - 1 - 0 = W - 1
      BY WidthAssumption
    <3> QED BY <1>1, <3>1 DEF Weight, Half
  <2> QED BY <2>2, <2>3, <2>4, Zenon DEF BitOf
<1>5. BitOf(s, 0) = BitOf(o, 0)
  BY <1>1, <1>4
<1>6. 0 \in Plane
  BY WidthAssumption DEF Plane
<1> QED BY <1>1, <1>3, <1>5, <1>6

\* The first b planes of that word are worth the index, but for the last bits, which
\* are those of the odd bits instead of its own.
LEMMA FirstPlanes ==
  ASSUME NEW q \in Int, q + OddBits \in Half .. Whole - 1, NEW b \in 1 .. W
  PROVE  ValueOf(Negabinary(q), 0 .. b - 1)
           = q + ((OddBits % Power(2, W - b)) - ((q + OddBits) % Power(2, W - b)))
<1> DEFINE word0 == Negabinary(q)
           top == 0 .. b - 1
           low == b .. W - 1
           s == q + OddBits
           f == Adder(word0, top)
           g == [p \in Plane |-> BitOf(s, p) * Weight(p)]
           z == [p \in Plane |-> BitOf(OddBits, p) * Weight(p)]
<1>1. /\ s \in 0 .. Whole - 1 /\ s \in Nat /\ OddBits \in Nat
      /\ b \in 0 .. W /\ W \in Nat
  BY WordFacts, WidthAssumption
<1>2. /\ top \cup low = Plane /\ top \cap low = {}
      /\ IsFiniteSet(top) /\ IsFiniteSet(low)
  <2>1. top \cup low = Plane /\ top \cap low = {}
    BY <1>1 DEF Plane
  <2>2. b - 1 \in Int /\ W - 1 \in Int
    BY <1>1
  <2>3. IsFiniteSet(top) /\ IsFiniteSet(low)
    BY <1>1, <2>2, FS_Interval
  <2> QED BY <2>1, <2>3
<1>3. ASSUME NEW p \in Plane
      PROVE  /\ BitOf(s, p) \in Bit /\ BitOf(OddBits, p) \in Bit
             /\ Weight(p) \in Nat
             /\ word0[p] = IF BitOf(s, p) = BitOf(OddBits, p) THEN 0 ELSE 1
  <2>1. s \in Int /\ OddBits \in Int
    BY <1>1
  <2>2. BitOf(s, p) \in Bit /\ BitOf(OddBits, p) \in Bit
    BY <2>1, BitsAre
  <2>3. Weight(p) \in Nat
    BY WordFacts
  <2>4. word0[p] = IF BitOf(s, p) = BitOf(OddBits, p) THEN 0 ELSE 1
    BY NegabinaryIs
  <2> QED BY <2>2, <2>3, <2>4
<1> HIDE DEF word0, s
<1>4. ASSUME NEW p \in Plane
      PROVE  g[p] \in Int /\ z[p] \in Int /\ f[p] = IF p \in top THEN g[p] ELSE z[p]
  <2>1. PICK x \in Bit, y \in Bit, w \in Nat :
          x = BitOf(s, p) /\ y = BitOf(OddBits, p) /\ w = Weight(p)
    BY <1>3
  <2>2. g[p] = x * w /\ z[p] = y * w
    BY <2>1
  <2>3. x * w \in Int /\ y * w \in Int
    BY DEF Bit
  <2>4. CASE p \in top
    <3>1. f[p] = IF word0[p] = y THEN 0 ELSE w
      BY <2>1, <2>4 DEF Adder
    <3>2. word0[p] = IF x = y THEN 0 ELSE 1
      BY <1>3, <2>1
    <3>3. f[p] = x * w
      BY <3>1, <3>2 DEF Bit
    <3> QED BY <2>2, <2>3, <2>4, <3>3
  <2>5. CASE p \notin top
    <3>1. f[p] = z[p]
      BY <2>5 DEF Adder
    <3> QED BY <2>2, <2>3, <2>5, <3>1
  <2> QED BY <2>4, <2>5
<1>5. /\ \A p \in top : p \in Plane /\ f[p] = g[p] /\ g[p] \in Int
      /\ \A p \in low : p \in Plane /\ f[p] = z[p] /\ g[p] \in Int /\ z[p] \in Int
  <2> HIDE DEF f, g, z, top, low
  <2> QED BY <1>2, <1>4
<1>6. /\ \A p \in Plane : g[p] = BitOf(s, p) * Weight(p)
      /\ \A p \in Plane : z[p] = BitOf(OddBits, p) * Weight(p)
  OBVIOUS
<1> HIDE DEF f, g, z, top
<1>7. SumFunctionOnSet(g, low) = s % Power(2, W - b)
  BY <1>1, <1>5, <1>6, LowBitsAddUp
<1>8. SumFunctionOnSet(z, low) = OddBits % Power(2, W - b)
  BY <1>1, <1>5, <1>6, LowBitsAddUp
<1>9. SumFunctionOnSet(g, Plane) = s
  BY <1>1, <1>6, BitsAddUp
<1> HIDE DEF low
<1>10. SumFunctionOnSet(g, Plane) = SumFunctionOnSet(g, top) + SumFunctionOnSet(g, low)
  <2>1. \A p \in top \cup low : g[p] \in Int
    BY <1>5
  <2>2. SumFunctionOnSet(g, top \cup low) = SumFunctionOnSet(g, top) + SumFunctionOnSet(g, low)
    BY <1>2, <2>1, SumUnion
  <2> QED BY <1>2, <2>2, Zenon
<1>11. SumFunctionOnSet(f, Plane) = SumFunctionOnSet(g, top) + SumFunctionOnSet(z, low)
  <2>1. \A p \in top \cup low : f[p] \in Int
    BY <1>5
  <2>2. SumFunctionOnSet(f, top \cup low) = SumFunctionOnSet(f, top) + SumFunctionOnSet(f, low)
    BY <1>2, <2>1, SumUnion
  <2>3. SumFunctionOnSet(f, top) = SumFunctionOnSet(g, top)
    BY <1>2, <1>5, SumAlike
  <2>4. SumFunctionOnSet(f, low) = SumFunctionOnSet(z, low)
    BY <1>2, <1>5, SumAlike
  <2> QED BY <1>2, <2>2, <2>3, <2>4, Zenon
<1>12. SumFunctionOnSet(g, top) \in Int
  <2>1. \A p \in top : g[p] \in Int
    BY <1>5
  <2> QED BY <1>2, <2>1, SumByChoice
<1>13. PICK m \in Nat \ {0}, c \in Nat \ {0} :
         m = Power(2, W - b) /\ c = Power(2, b - 1) /\ Half = c * m
  <2>1. W - b \in Nat /\ b - 1 \in Nat /\ (b - 1) + (W - b) = W - 1 /\ 2 \in Nat \ {0}
    BY <1>1
  <2>2. Power(2, W - b) \in Nat \ {0} /\ Power(2, b - 1) \in Nat \ {0}
    BY <2>1, PowerPositive
  <2>3. Power(2, (b - 1) + (W - b)) = Power(2, b - 1) * Power(2, W - b)
    BY <2>1, PowerSum
  <2> QED BY <2>1, <2>2, <2>3 DEF Half
<1>14. PICK u \in Int, r \in 0 .. m - 1 : r = s % m /\ s = u * m + r
  <2>1. s \in Int
    BY <1>1
  <2>2. s \div m \in Int /\ s % m \in 0 .. m - 1 /\ s = (s \div m) * m + (s % m)
    BY <2>1, DivMod
  <2> QED BY <2>2, Zenon
<1>15. PICK t \in 0 .. m - 1 : t = OddBits % m
  <2>1. OddBits \in Int
    BY <1>1
  <2> QED BY <2>1, Divided, Zenon
<1>16. PICK v \in Int : v = u * m
  OBVIOUS
<1>17. Added(word0, top) = v + t
  <2>1. PICK y \in Int : y = SumFunctionOnSet(g, top)
    BY <1>12
  <2>2. v + r = y + r
    BY <1>7, <1>9, <1>10, <1>13, <1>14, <1>16, <2>1
  <2>3. v = y
    BY <2>2
  <2>4. SumFunctionOnSet(f, Plane) = y + t
    BY <1>8, <1>11, <1>13, <1>15, <2>1, Zenon
  <2> QED BY <2>3, <2>4 DEF Added, f
<1>18. v + t \in Half .. Whole - 1
  <2>1. PICK h \in Int : h = Half /\ h = c * m /\ Whole = 2 * h
    BY <1>13, WordFacts
  <2>2. v + r \in h .. 2 * h - 1
    BY <1>14, <1>16, <2>1 DEF s
  <2>3. c \in Int
    OBVIOUS
  <2>4. v + t \in h .. 2 * h - 1
    BY <1>16, <2>1, <2>2, <2>3, LastBitsReplaced
  <2> QED BY <2>1, <2>4
<1>19. (v + t) - OddBits \in -Half .. Half - 1
  <2>1. PICK h \in Nat, o \in Nat : h = Half /\ o = OddBits /\ Whole = 2 * h /\ o >= h /\ o < 2 * h
    BY WordFacts, OddFacts
  <2> QED BY <1>18, <2>1
<1>20. ValueOf(word0, top) = (v + t) - OddBits
  BY <1>17, <1>19, ValueFacts, SignedIs
<1>21. (v + t) - OddBits = q + (t - r)
  <2>1. PICK n \in Int : n = OddBits
    BY <1>1
  <2>2. q + n = v + r
    BY <1>14, <1>16, <2>1, Zenon DEF s
  <2>3. (v + t) - n = q + (t - r)
    BY <2>2
  <2> QED BY <2>1, <2>3, Zenon
<1> QED BY <1>13, <1>14, <1>15, <1>20, <1>21, Zenon DEF word0, top, s

\* However the planes are split into updates, and however many of them are merged,
\* a difference whose index leaves the top plane clear comes back within the bound
\* that the plane selection counts on.
THEOREM ErrorIsBounded ==
  ASSUME Diffs \subseteq Representable
  PROVE  Spec => []ErrorBounded
<1>1. QuantInv => ErrorBounded
  <2> SUFFICES ASSUME QuantInv, bsum > 0
               PROVE  Abs(4 * quant - diff)
                        <= 2 * (1 + Selection!calcUncerntaintyNegaBinary(W - bsum))
    BY DEF ErrorBounded
  <2> DEFINE b == bsum
             q == Index(diff)
  <2>1. b \in 1 .. W /\ bsum <= bit /\ diff \in Representable /\ word = Negabinary(q)
    BY WidthAssumption DEF QuantInv, CodecInv
  <2>2. q \in Int /\ q + OddBits \in Half .. Whole - 1 /\ 4 * q - diff \in -2 .. 2
    BY <2>1, IndexFacts
  <2> HIDE DEF q
  <2>3. quant = ValueOf(word, 0 .. b - 1)
    <3>1. word[0] = 0
      BY <2>1, <2>2, NegabinaryIs
    <3>2. \A p \in Plane : p \in 0 .. b - 1 => loaded_bits[p] = word[p]
      BY <2>1, <3>1 DEF QuantInv, CodecInv, Plane
    <3> QED BY <3>2, ValueOfSame DEF QuantInv
  <2> HIDE DEF b
  <2>4. PICK m \in Nat \ {0}, n \in Nat \ {0} :
          m = Power(2, W - b) /\ n = Power(2, b) /\ Whole = m * n
    <3>1. W - b \in Nat /\ b \in Nat /\ (W - b) + b = W /\ 2 \in Nat \ {0}
      BY <2>1, WidthAssumption
    <3>2. Power(2, W - b) \in Nat \ {0} /\ Power(2, b) \in Nat \ {0}
      BY <3>1, PowerPositive
    <3>3. Power(2, (W - b) + b) = Power(2, W - b) * Power(2, b)
      BY <3>1, PowerSum
    <3> QED BY <3>1, <3>2, <3>3 DEF Whole
  <2>5. PICK o \in Nat, s \in Nat :
          o = OddBits /\ s = q + OddBits /\ 3 * o = 2 * (m * n) - 2
    BY <2>2, <2>4, WordFacts, OddFacts
  <2>a. o \in Int /\ s \in Int
    OBVIOUS
  <2>6. PICK a \in Int, r \in 0 .. n - 1 : a = o \div n /\ o = a * n + r
    <3>1. o \div n \in Int /\ o % n \in 0 .. n - 1 /\ o = (o \div n) * n + (o % n)
      BY <2>a, DivMod
    <3> QED BY <3>1, Zenon
  <2>7. PICK c \in Int, t \in 0 .. m - 1 : t = o % m /\ o = c * m + t
    <3>1. o \div m \in Int /\ o % m \in 0 .. m - 1 /\ o = (o \div m) * m + (o % m)
      BY <2>a, DivMod
    <3> QED BY <3>1, Zenon
  <2>8. PICK v \in 0 .. m - 1 : v = s % m
    <3>1. s \div m \in Int /\ s % m \in 0 .. m - 1 /\ s = (s \div m) * m + (s % m)
      BY <2>a, DivMod
    <3> QED BY <3>1, Zenon
  <2>9. quant = q + (t - v)
    <3>1. ValueOf(Negabinary(q), 0 .. b - 1)
            = q + ((OddBits % Power(2, W - b)) - ((q + OddBits) % Power(2, W - b)))
      BY <2>1, <2>2, FirstPlanes, Zenon
    <3>2. OddBits % Power(2, W - b) = t /\ (q + OddBits) % Power(2, W - b) = v
      BY <2>4, <2>5, <2>7, <2>8, Zenon
    <3>3. ValueOf(Negabinary(q), 0 .. b - 1) = q + (t - v)
      BY <3>1, <3>2, Zenon
    <3>4. ValueOf(word, 0 .. b - 1) = ValueOf(Negabinary(q), 0 .. b - 1)
      <4>1. word = Negabinary(q)
        BY <2>1
      <4> QED BY <4>1, Zenon
    <3> QED BY <2>3, <3>3, <3>4
  <2>10. t <= a /\ m - 1 - t <= a
    <3>1. OddSplit(m, n, o, a, r, c, t)
      BY <2>5, <2>6, <2>7, Zenon DEF OddSplit
    <3> QED BY <3>1, ShiftedOddBits, Zenon
  <2>11. Abs(4 * quant - diff) <= 2 * (1 + 2 * a)
    <3>1. diff \in Int
      BY <2>1 DEF Representable
    <3>2. 4 * quant - diff <= 2 * (1 + 2 * a) /\ -(4 * quant - diff) <= 2 * (1 + 2 * a)
      BY <2>2, <2>9, <2>10, <3>1
    <3> QED BY <2>2, <2>9, <3>1, <3>2 DEF Abs
  <2>12. CASE b = W
    <3>1. m = 1
      <4>1. W - b = 0
        BY <2>12, WidthAssumption
      <4> QED BY <2>4, <4>1, PowerStep
    <3>2. t = 0 /\ v = 0
      BY <3>1
    <3>3. diff \in Int /\ 4 * quant - diff \in -2 .. 2
      BY <2>1, <2>2, <2>9, <3>2 DEF Representable
    <3>4. Abs(4 * quant - diff) <= 2
      BY <2>2, <2>9, <3>3 DEF Abs
    <3>5. Selection!calcUncerntaintyNegaBinary(W - b) = 0
      BY <2>12, WidthAssumption DEF Selection!calcUncerntaintyNegaBinary
    <3> QED BY <3>4, <3>5 DEF b
  <2>13. CASE b # W
    <3>1. W - b # 0 /\ W - (W - b) = b
      BY <2>1, <2>13, WidthAssumption
    <3>2. \A x, y : Selection!Power(x, y) = Power(x, y)
      BY DEF Selection!Power, Power
    <3>3. Selection!NegabinaryMask = o
      BY <2>5, <3>2, Zenon DEF Selection!NegabinaryMask, OddBits
    <3>4. Selection!Power(2, W - (W - b)) = n
      BY <2>4, <3>1, <3>2, Zenon
    <3>5. Selection!calcUncerntaintyNegaBinary(W - b) = a * 2
      BY <2>6, <3>1, <3>3, <3>4, Zenon DEF Selection!calcUncerntaintyNegaBinary
    <3>6. 2 * (1 + a * 2) = 2 * (1 + 2 * a)
      OBVIOUS
    <3> QED BY <2>11, <3>5, <3>6, Zenon DEF b
  <2> QED BY <2>12, <2>13
<1> QED BY <1>1, QuantInvariant, PTL

-----------------------------------------------------------------------------
(* Stages as bytes *)

\* What the bits of a byte are worth in their lanes.
LaneWeights(bits) == [j \in Lane |-> bits[j] * Power(2, Group - 1 - j)]

\* The lanes are as many as Group, each worth twice the next one.
LEMMA LaneFacts ==
  ASSUME NEW bits, \A j \in Lane : bits[j] \in Bit
  PROVE  /\ \A j \in Lane : LaneWeights(bits)[j] \in Nat
         /\ \A j \in Lane : LaneWeights(bits)[j] = bits[j] * Power(2, Group - 1 - j)
         /\ \A m \in 0 .. Group : Power(2, Group - m) \in Nat \ {0}
         /\ \A m \in Lane : Power(2, Group - m) = 2 * Power(2, Group - 1 - m)
         /\ ByteWith(bits) = SumFunctionOnSet(LaneWeights(bits), Lane)
<1>1. \A m \in 0 .. Group : Power(2, Group - m) \in Nat \ {0}
  <2>1. \A m \in 0 .. Group : Group - m \in Nat
    BY GroupAssumption
  <2>2. 2 \in Nat \ {0}
    OBVIOUS
  <2> QED BY <2>1, <2>2, PowerPositive, Zenon
<1>2. \A m \in Lane : Power(2, Group - m) = 2 * Power(2, Group - 1 - m)
                      /\ Power(2, Group - 1 - m) \in Nat
  <2> SUFFICES ASSUME NEW m \in Lane
               PROVE  Power(2, Group - m) = 2 * Power(2, Group - 1 - m)
                      /\ Power(2, Group - 1 - m) \in Nat
    OBVIOUS
  <2>1. PICK e \in Nat : e = Group - 1 - m /\ Group - m = e + 1
    BY GroupAssumption DEF Lane
  <2>2. Power(2, e + 1) = 2 * Power(2, e) /\ Power(2, e) \in Nat
    BY PowerStep
  <2> QED BY <2>1, <2>2, Zenon
<1>3. \A j \in Lane : LaneWeights(bits)[j] = bits[j] * Power(2, Group - 1 - j)
  BY DEF LaneWeights
<1>4. ASSUME NEW j \in Lane PROVE LaneWeights(bits)[j] \in Nat
  <2>1. PICK p \in Nat : p = Power(2, Group - 1 - j)
    BY <1>2
  <2>2. bits[j] * p \in Nat
    BY DEF Bit
  <2> QED BY <1>3, <2>1, <2>2
<1>5. ByteWith(bits) = SumFunctionOnSet(LaneWeights(bits), Lane)
  <2>1. DOMAIN LaneWeights(bits) = Lane
    BY DEF LaneWeights
  <2>2. ByteWith(bits) = SumFunction(LaneWeights(bits))
    BY Zenon DEF ByteWith, LaneWeights
  <2> QED BY <2>1, <2>2, Zenon DEF SumFunction
<1> QED BY <1>1, <1>2, <1>3, <1>4, <1>5

\* The lanes before the m-th are worth a multiple of what the m-th is worth twice over.
LEMMA LanesBefore ==
  ASSUME NEW bits, \A j \in Lane : bits[j] \in Bit
  PROVE  \A m \in 0 .. Group :
           \E a \in Nat : SumFunctionOnSet(LaneWeights(bits), 0 .. m - 1)
                            = a * Power(2, Group - m)
<1> DEFINE w == LaneWeights(bits)
           N == {m \in Nat : m <= Group =>
                   \E a \in Nat : SumFunctionOnSet(w, 0 .. m - 1) = a * Power(2, Group - m)}
<1>1. Group \in Nat \ {0} /\ \A j \in Lane : w[j] \in Nat
  BY GroupAssumption, LaneFacts, Zenon
<1>2. 0 \in N
  <2>1. SumFunctionOnSet(w, {}) = 0
    BY FS_EmptySet, SumByChoice
  <2>2. 0 .. 0 - 1 = {} /\ Group - 0 = Group /\ 0 \in 0 .. Group
    BY <1>1
  <2>3. PICK p \in Nat : p = Power(2, Group - 0)
    BY <2>2, LaneFacts, Zenon
  <2>4. 0 * p = 0 /\ 0 \in Nat
    OBVIOUS
  <2> HIDE DEF w
  <2>5. SumFunctionOnSet(w, 0 .. 0 - 1) = 0 * Power(2, Group - 0)
    BY <2>1, <2>2, <2>3, <2>4, Zenon
  <2> QED BY <2>4, <2>5
<1>3. ASSUME NEW m \in Nat, m \in N PROVE m + 1 \in N
  <2> SUFFICES ASSUME m + 1 <= Group
               PROVE  \E a \in Nat : SumFunctionOnSet(w, 0 .. (m + 1) - 1)
                                       = a * Power(2, Group - (m + 1))
    OBVIOUS
  <2>1. m \in Lane /\ m <= Group /\ (m + 1) - 1 = m /\ Group - (m + 1) = Group - 1 - m
        /\ m + 1 \in 0 .. Group
    BY <1>1 DEF Lane
  <2>2. PICK a \in Nat : SumFunctionOnSet(w, 0 .. m - 1) = a * Power(2, Group - m)
    BY <1>3, <2>1
  <2>3. PICK p \in Nat : p = Power(2, Group - 1 - m) /\ Power(2, Group - m) = 2 * p
                         /\ w[m] = bits[m] * p
    <3>1. Power(2, Group - (m + 1)) \in Nat
      BY <2>1, LaneFacts
    <3>2. Power(2, Group - 1 - m) \in Nat
      BY <2>1, <3>1
    <3>3. Power(2, Group - m) = 2 * Power(2, Group - 1 - m)
      BY <2>1, LaneFacts
    <3>4. w[m] = bits[m] * Power(2, Group - 1 - m)
      BY <2>1, LaneFacts, Zenon
    <3> QED BY <3>2, <3>3, <3>4
  <2>4. SumFunctionOnSet(w, 0 .. m) = w[m] + SumFunctionOnSet(w, 0 .. m - 1)
    <3>1. \A j \in 0 .. m : j \in Lane
      BY <1>1, <2>1 DEF Lane
    <3>2. \A j \in 0 .. m : w[j] \in Int
      <4> HIDE DEF w
      <4> QED BY <1>1, <3>1
    <3> QED BY <3>2, SumUpTo
  <2>5. PICK b \in Nat : b = bits[m]
    BY <2>1 DEF Bit
  <2>6. b * p + a * (2 * p) = (2 * a + b) * p /\ 2 * a + b \in Nat
    OBVIOUS
  <2> HIDE DEF w
  <2>7. SumFunctionOnSet(w, 0 .. (m + 1) - 1) = (2 * a + b) * Power(2, Group - (m + 1))
    BY <2>1, <2>2, <2>3, <2>4, <2>5, <2>6, Zenon
  <2> QED BY <2>6, <2>7
<1> HIDE DEF N
<1>4. Nat \subseteq N
  BY <1>2, <1>3, SetInduction
<1> QED BY <1>1, <1>4 DEF N

\* The last m lanes are worth less than the lane before them.
LEMMA LanesAfter ==
  ASSUME NEW bits, \A j \in Lane : bits[j] \in Bit
  PROVE  \A m \in 0 .. Group :
           /\ SumFunctionOnSet(LaneWeights(bits), Group - m .. Group - 1) \in Nat
           /\ SumFunctionOnSet(LaneWeights(bits), Group - m .. Group - 1) < Power(2, m)
<1> DEFINE w == LaneWeights(bits)
           S(m) == SumFunctionOnSet(w, Group - m .. Group - 1)
           N == {m \in Nat : m <= Group => S(m) \in Nat /\ S(m) < Power(2, m)}
<1>1. Group \in Nat \ {0} /\ \A j \in Lane : w[j] \in Nat
  BY GroupAssumption, LaneFacts, Zenon
<1>2. 0 \in N
  <2>1. SumFunctionOnSet(w, {}) = 0
    BY FS_EmptySet, SumByChoice
  <2>2. Group - 0 .. Group - 1 = {}
    BY <1>1
  <2>3. Power(2, 0) = 1
    BY PowerStep
  <2>4. S(0) = 0
    <3> HIDE DEF w
    <3> QED BY <2>1, <2>2, Zenon
  <2> HIDE DEF w, S
  <2> QED BY <2>3, <2>4
<1>3. ASSUME NEW m \in Nat, m \in N PROVE m + 1 \in N
  <2> SUFFICES ASSUME m + 1 <= Group PROVE S(m + 1) \in Nat /\ S(m + 1) < Power(2, m + 1)
    OBVIOUS
  <2>1. PICK j \in Lane : j = Group - (m + 1) /\ Group - 1 - j = m
    BY <1>1 DEF Lane
  <2>2. PICK p \in Nat : p = Power(2, m) /\ Power(2, m + 1) = 2 * p
    BY PowerStep
  <2>3. w[j] = bits[j] * p
    BY <2>1, <2>2, LaneFacts, Zenon
  <2>4. PICK b \in Nat : b = bits[j] /\ b <= 1
    BY DEF Bit
  <2>5. b * p \in Nat /\ b * p <= p
    <3>1. b = 0 \/ b = 1
      BY <2>4
    <3> QED BY <3>1
  <2>6. S(m + 1) = w[j] + S(m)
    <3> DEFINE J == Group - m .. Group - 1
    <3>1. Group - (m + 1) .. Group - 1 = {j} \cup J /\ j \notin J /\ \A i \in J : i \in Lane
      BY <1>1, <2>1 DEF Lane
    <3>2. IsFiniteSet(J)
      <4>1. Group - m \in Int /\ Group - 1 \in Int
        BY <1>1
      <4> QED BY <4>1, FS_Interval
    <3>3. w[j] \in Int /\ \A i \in J : w[i] \in Int
      <4> HIDE DEF w, J
      <4> QED BY <1>1, <3>1
    <3>4. SumFunctionOnSet(w, {j} \cup J) = w[j] + SumFunctionOnSet(w, J)
      <4> HIDE DEF w, J
      <4> QED BY <3>1, <3>2, <3>3, SumAdd
    <3> QED BY <3>1, <3>4
  <2> HIDE DEF w, S
  <2>7. S(m) \in Nat /\ S(m) < p
    <3>1. m \in N /\ m <= Group
      BY <1>1, <1>3
    <3> QED BY <2>2, <3>1
  <2> QED BY <2>2, <2>3, <2>4, <2>5, <2>6, <2>7
<1> HIDE DEF N
<1>4. Nat \subseteq N
  BY <1>2, <1>3, SetInduction
<1>5. \A m \in 0 .. Group : S(m) \in Nat /\ S(m) < Power(2, m)
  BY <1>1, <1>4 DEF N
<1> QED BY <1>5

\* A byte has the bits it was made of.
LEMMA LaneOfByte ==
  ASSUME NEW bits, \A j \in Lane : bits[j] \in Bit
  PROVE  /\ ByteWith(bits) \in Nat
         /\ \A k \in Lane : LaneOf(ByteWith(bits), k) = bits[k]
<1> DEFINE w == LaneWeights(bits)
<1>1. Group \in Nat \ {0} /\ IsFiniteSet(Lane) /\ \A j \in Lane : w[j] \in Nat
  <2>1. IsFiniteSet(Lane)
    <3>1. 0 \in Int /\ Group - 1 \in Int
      BY GroupAssumption
    <3> QED BY <3>1, FS_Interval DEF Lane
  <2> QED BY <2>1, GroupAssumption, LaneFacts, Zenon
<1>2. ByteWith(bits) = SumFunctionOnSet(w, Lane)
  BY LaneFacts, Zenon
<1>3. SumFunctionOnSet(w, Lane) \in Nat
  <2> HIDE DEF w
  <2> QED BY <1>1, SumNatural
<1>4. ASSUME NEW k \in Lane PROVE LaneOf(ByteWith(bits), k) = bits[k]
  <2> DEFINE m == Group - 1 - k
             I == 0 .. k - 1
             J == Group - m .. Group - 1
  <2>1. /\ k \in 0 .. Group /\ m \in Nat /\ m \in 0 .. Group
        /\ Lane = I \cup ({k} \cup J) /\ k \notin J /\ I \cap ({k} \cup J) = {}
        /\ \A i \in I : i \in Lane
        /\ \A i \in J : i \in Lane
    BY <1>1 DEF Lane
  <2>2. IsFiniteSet(I) /\ IsFiniteSet(J)
    <3>1. 0 \in Int /\ k - 1 \in Int /\ Group - m \in Int /\ Group - 1 \in Int
      BY <1>1 DEF Lane
    <3> QED BY <3>1, FS_Interval
  <2>3. PICK p \in Nat \ {0} : p = Power(2, m) /\ Power(2, Group - k) = 2 * p
    <3>1. Power(2, Group - k) = 2 * Power(2, Group - 1 - k)
      BY LaneFacts
    <3>2. 2 \in Nat \ {0}
      OBVIOUS
    <3>3. Power(2, m) \in Nat \ {0}
      BY <2>1, <3>2, PowerPositive
    <3> QED BY <3>1, <3>3
  <2>4. PICK a \in Nat : SumFunctionOnSet(w, I) = a * (2 * p)
    BY <2>1, <2>3, LanesBefore
  <2>5. PICK r \in Nat : r = SumFunctionOnSet(w, J) /\ r < p
    BY <2>1, <2>3, LanesAfter
  <2>6. PICK b \in Nat : b = bits[k] /\ b \in 0 .. 2 - 1
    BY DEF Bit
  <2>7. w[k] = b * p
    BY <2>3, <2>6, LaneFacts, Zenon
  <2> HIDE DEF w, m, I, J
  <2>8. SumFunctionOnSet(w, {k} \cup J) = w[k] + SumFunctionOnSet(w, J)
        /\ IsFiniteSet({k} \cup J)
    <3>1. \A i \in Lane : w[i] \in Int
      BY <1>1
    <3>2. w[k] \in Int /\ \A i \in J : w[i] \in Int
      BY <2>1, <3>1, Zenon
    <3> QED BY <2>1, <2>2, <3>2, SumAdd
  <2>9. SumFunctionOnSet(w, Lane)
          = SumFunctionOnSet(w, I) + SumFunctionOnSet(w, {k} \cup J)
    <3>1. \A i \in I \cup ({k} \cup J) : w[i] \in Int
      <4>1. \A i \in Lane : w[i] \in Int
        BY <1>1
      <4> QED BY <2>1, <4>1, Zenon
    <3>2. SumFunctionOnSet(w, I \cup ({k} \cup J))
            = SumFunctionOnSet(w, I) + SumFunctionOnSet(w, {k} \cup J)
      BY <2>1, <2>2, <2>8, <3>1, SumUnion
    <3> QED BY <2>1, <3>2, Zenon
  <2>10. a * (2 * p) + (b * p + r) = (a * 2 + b) * p + r /\ a * 2 + b \in Int
         /\ r \in 0 .. p - 1
    BY <2>5
  <2>11. ByteWith(bits) = (a * 2 + b) * p + r
    BY <1>2, <2>4, <2>5, <2>7, <2>8, <2>9, <2>10, Zenon
  <2>12. ((a * 2 + b) * p + r) \div p = a * 2 + b
    BY <2>10, DivUnique
  <2>13. (a * 2 + b) % 2 = b
    <3>1. a \in Int /\ 2 \in Nat \ {0}
      OBVIOUS
    <3> QED BY <3>1, <2>6, DivUnique
  <2> QED BY <2>3, <2>6, <2>11, <2>12, <2>13, Zenon DEF LaneOf, m
<1> QED BY <1>2, <1>3, <1>4

\* The lanes of three bytes are XORed each on its own.
LEMMA XorLanes ==
  ASSUME NEW x, NEW y, NEW z
  PROVE  /\ XorBytes(x, y, z) \in Nat
         /\ \A j \in Lane :
              LaneOf(XorBytes(x, y, z), j) = xor(LaneOf(x, j), xor(LaneOf(y, j), LaneOf(z, j)))
<1> DEFINE bits == [j \in Lane |-> xor(LaneOf(x, j), xor(LaneOf(y, j), LaneOf(z, j)))]
<1>1. \A j \in Lane : bits[j] = xor(LaneOf(x, j), xor(LaneOf(y, j), LaneOf(z, j)))
  OBVIOUS
<1>2. \A j \in Lane : bits[j] \in Bit
  BY DEF xor, Bit
<1>3. XorBytes(x, y, z) = ByteWith(bits)
  BY Zenon DEF XorBytes
<1> HIDE DEF bits
<1>4. ByteWith(bits) \in Nat /\ \A j \in Lane : LaneOf(ByteWith(bits), j) = bits[j]
  BY <1>2, LaneOfByte
<1> QED BY <1>1, <1>3, <1>4, Zenon

\* What is loaded of a byte: planes 0 and 1 as they are stored, each plane after them
\* XORed with the two before it.
LEMMA LoadedByteIs ==
  ASSUME NEW c, \A p \in Plane : c[p] \in Nat
  PROVE  \A p \in Plane :
           LoadedByte(c)[p] = IF p < 2 THEN c[p]
                              ELSE XorBytes(c[p], LoadedByte(c)[p - 2], LoadedByte(c)[p - 1])
<1> DEFINE T == Nat \X Nat
           F == [q \in T \X (0 .. (W - 1) - 1) |->
                   IF q[2] = 0 THEN <<c[1], q[1][1]>>
                   ELSE <<XorBytes(c[q[2] + 1], q[1][2], q[1][1]), q[1][1]>>]
           Body(h) == [p \in Plane |->
                         IF p = 0 THEN <<c[0], 0>>
                         ELSE IF p = 1 THEN <<c[1], h[p - 1][1]>>
                         ELSE <<XorBytes(c[p], h[p - 1][2], h[p - 1][1]), h[p - 1][1]>>]
           contexts == CHOOSE h : h = Body(h)
<1>1. W \in Nat /\ W - 1 \in Nat /\ 0 \in Plane /\ 1 \in Plane
      /\ \A k \in 0 .. (W - 1) - 1 : k + 1 \in Plane
  BY WidthAssumption DEF Plane
<1>2. F \in [T \X (0 .. (W - 1) - 1) -> T] /\ <<c[0], 0>> \in T
  <2>1. ASSUME NEW x \in T, NEW k \in 0 .. (W - 1) - 1
        PROVE  /\ <<c[1], x[1]>> \in T
               /\ <<XorBytes(c[k + 1], x[2], x[1]), x[1]>> \in T
    <3>1. c[1] \in Nat /\ x[1] \in Nat
      BY <1>1
    <3>2. XorBytes(c[k + 1], x[2], x[1]) \in Nat
      BY XorLanes
    <3> QED BY <3>1, <3>2
  <2>2. \A q \in T \X (0 .. (W - 1) - 1) :
          /\ q[1] \in T /\ q[2] \in 0 .. (W - 1) - 1
    OBVIOUS
  <2> QED BY <1>1, <2>1, <2>2
<1>3. PICK f \in [0 .. W - 1 -> T] :
        /\ f[0] = <<c[0], 0>>
        /\ \A k \in 0 .. (W - 1) - 1 : f[k + 1] = F[<<f[k], k>>]
  <2> HIDE DEF F, T
  <2>1. \E f \in [0 .. W - 1 -> T] : RecursUpTo(W - 1, <<c[0], 0>>, F, f)
    BY <1>1, <1>2, BoundedRecursion, Zenon
  <2> QED BY <2>1 DEF RecursUpTo
<1>4. f = Body(f)
  <2>1. ASSUME NEW p \in Plane PROVE f[p] = Body(f)[p]
    <3>1. CASE p = 0
      BY <1>3, <3>1
    <3>2. CASE p # 0
      <4>1. PICK k \in 0 .. (W - 1) - 1 : k = p - 1 /\ p = k + 1 /\ f[k] \in T
        BY <1>1, <3>2 DEF Plane
      <4>2. f[k + 1] = F[<<f[k], k>>]
        BY <1>3
      <4>3. F[<<f[k], k>>] = IF k = 0 THEN <<c[1], f[k][1]>>
                             ELSE <<XorBytes(c[k + 1], f[k][2], f[k][1]), f[k][1]>>
        BY <4>1
      <4>4. k = 0 <=> p = 1
        BY <4>1
      <4> QED BY <3>2, <4>1, <4>2, <4>3, <4>4
    <3> QED BY <3>1, <3>2
  <2>2. DOMAIN f = Plane /\ DOMAIN Body(f) = Plane
    BY <1>3 DEF Plane
  <2>3. Body(f) = [p \in Plane |-> Body(f)[p]] /\ f = [p \in Plane |-> f[p]]
    BY <2>2
  <2> HIDE DEF Body
  <2> QED BY <2>1, <2>3
<1>5. contexts = Body(contexts)
  <2> HIDE DEF Body
  <2> QED BY <1>4, Zenon
<1>6. LoadedByte(c) = [p \in Plane |-> contexts[p][1]]
  BY Zenon DEF LoadedByte
<1> HIDE DEF contexts
<1>7. ASSUME NEW p \in Plane
      PROVE  /\ p = 0 => contexts[p] = <<c[0], 0>>
             /\ p = 1 => contexts[p] = <<c[1], contexts[p - 1][1]>>
             /\ p > 1 => contexts[p] = <<XorBytes(c[p], contexts[p - 1][2], contexts[p - 1][1]),
                                        contexts[p - 1][1]>>
  <2>1. contexts[p] = Body(contexts)[p]
    BY <1>5, Zenon
  <2> QED BY <2>1 DEF Plane
<1>8. ASSUME NEW p \in Plane
      PROVE  LoadedByte(c)[p] = IF p < 2 THEN c[p]
                                ELSE XorBytes(c[p], LoadedByte(c)[p - 2], LoadedByte(c)[p - 1])
  <2>1. CASE p < 2
    <3>1. p = 0 \/ p = 1
      BY <2>1 DEF Plane
    <3>2. contexts[p][1] = c[p]
      BY <1>7, <3>1
    <3> QED BY <1>6, <2>1, <3>2
  <2>2. CASE ~(p < 2)
    <3>1. p > 1 /\ p - 1 \in Plane /\ p - 2 \in Plane /\ p - 1 >= 1 /\ (p - 1) - 1 = p - 2
      BY <1>1, <2>2 DEF Plane
    <3>2. contexts[p][1] = XorBytes(c[p], contexts[p - 1][2], contexts[p - 1][1])
      BY <1>7, <3>1
    <3>3. contexts[p - 1][2] = contexts[(p - 1) - 1][1]
      <4>1. PICK k \in Plane : k = p - 1 /\ k >= 1
        BY <3>1
      <4>2. k = 1 \/ k > 1
        BY <4>1 DEF Plane
      <4>3. contexts[k][2] = contexts[k - 1][1]
        BY <1>7, <4>2
      <4> QED BY <4>1, <4>3
    <3>4. /\ LoadedByte(c)[p] = contexts[p][1]
          /\ LoadedByte(c)[p - 1] = contexts[p - 1][1]
          /\ LoadedByte(c)[p - 2] = contexts[p - 2][1]
      BY <1>6, <3>1
    <3> QED BY <2>2, <3>1, <3>2, <3>3, <3>4
  <2> QED BY <2>1, <2>2
<1> QED BY <1>8

\* Where the i-th index of n is found: its byte is one of those of a plane, which are
\* enough for n indices and are full with the padding.
LEMMA PlaceInStage ==
  ASSUME NEW n \in Nat, NEW i \in 0 .. n - 1
  PROVE  /\ numofEachBitPlane(n) \in Nat /\ n + Padding(n) = numofEachBitPlane(n) * Group
         /\ Padding(n) \in Nat
         /\ i \div Group \in 0 .. numofEachBitPlane(n) - 1 /\ i % Group \in Lane
         /\ (i \div Group) * Group + (i % Group) = i
         /\ ~(i < (n \div Group) * Group) =>
              /\ i \div Group = numofEachBitPlane(n) - 1
              /\ i % Group = i - (n \div Group) * Group
<1>1. PICK g \in Nat \ {0} : g = Group
  BY GroupAssumption
<1>2. PICK q \in Int, r \in 0 .. g - 1 : q = i \div g /\ r = i % g /\ i = q * g + r
  <2>1. i \in Int
    OBVIOUS
  <2>2. i \div g \in Int /\ i % g \in 0 .. g - 1 /\ i = (i \div g) * g + (i % g)
    BY <2>1, DivMod
  <2> QED BY <2>2, Zenon
<1>3. PICK N \in Int : N = (n + g - 1) \div g
                       /\ \A k \in Int : k * g <= n + g - 1 <=> k <= N
  <2>1. n + g - 1 \in Int
    OBVIOUS
  <2> QED BY <2>1, DivLargest
<1>4. N = numofEachBitPlane(n)
  BY <1>1, <1>3 DEF numofEachBitPlane
<1>5. N * g >= n /\ N * g \in Int
  <2>1. N + 1 \in Int /\ ~(N + 1 <= N)
    OBVIOUS
  <2>2. (N + 1) * g > n + g - 1
    <3>1. (N + 1) * g \in Int
      OBVIOUS
    <3> QED BY <1>3, <2>1, <3>1
  <2>3. (N + 1) * g = N * g + g /\ N * g \in Int
    OBVIOUS
  <2> QED BY <2>2, <2>3
<1>6. q + 1 <= N
  <2>1. (q + 1) * g = q * g + g /\ q * g \in Int /\ q + 1 \in Int
    OBVIOUS
  <2>2. (q + 1) * g <= n + g - 1
    BY <1>2, <2>1
  <2> QED BY <1>3, <2>1, <2>2
<1>7. q >= 0
  <2>1. ~(q <= -1)
    <3>1. q <= -1 => q * g <= -g
      BY MultipleAtLeast
    <3>2. q * g \in Int
      OBVIOUS
    <3> QED BY <1>2, <3>1, <3>2
  <2> QED BY <2>1
<1>8. ASSUME ~(i < (n \div g) * g) PROVE q = N - 1 /\ r = i - (n \div g) * g
  <2>1. PICK Q \in Int, R \in 0 .. g - 1 : Q = n \div g /\ n = Q * g + R
    <3>1. n \in Int
      OBVIOUS
    <3>2. n \div g \in Int /\ n % g \in 0 .. g - 1 /\ n = (n \div g) * g + (n % g)
      BY <3>1, DivMod
    <3> QED BY <3>2, Zenon
  <2>2. PICK s \in Int : s = Q * g
    <3>1. Q * g \in Int
      OBVIOUS
    <3> QED BY <3>1
  <2>3. i - s \in 0 .. R - 1 /\ i = Q * g + (i - s)
    <3>1. ~(i < s) /\ n = s + R
      BY <1>8, <2>1, <2>2, Zenon
    <3> QED BY <2>2, <3>1
  <2>4. i - s \in 0 .. g - 1
    BY <2>3
  <2>5. (Q * g + (i - s)) \div g = Q /\ (Q * g + (i - s)) % g = i - s
    BY <2>4, DivUnique
  <2>6. q = Q /\ r = i - s
    BY <1>2, <2>3, <2>5, Zenon
  <2>7. (Q + 1) * g + (R - 1) = n + g - 1 /\ R - 1 \in 0 .. g - 1 /\ Q + 1 \in Int
    <3>1. (Q + 1) * g = Q * g + g /\ Q * g \in Int
      OBVIOUS
    <3> QED BY <2>1, <2>3, <3>1
  <2>8. ((Q + 1) * g + (R - 1)) \div g = Q + 1
    BY <2>7, DivUnique
  <2>9. N = Q + 1
    BY <1>3, <2>7, <2>8, Zenon
  <2> QED BY <2>1, <2>2, <2>6, <2>9
<1>9. N \in Nat /\ q \in 0 .. N - 1 /\ r \in 0 .. g - 1 /\ q * g + r = i
  BY <1>2, <1>6, <1>7
<1>10. Padding(n) = N * g - n
  BY <1>1, <1>4, Zenon DEF Padding
<1>11. N * g - n \in Nat /\ n + (N * g - n) = N * g
  BY <1>5
<1> QED BY <1>1, <1>2, <1>4, <1>8, <1>9, <1>10, <1>11, Zenon DEF Lane

\* A stage filled up with zeros is a sequence of words as long as its bytes have lanes.
LEMMA PaddedIs ==
  ASSUME NEW n \in Nat \ {0}, NEW words \in [1 .. n -> [Plane -> Bit]]
  PROVE  /\ \A k \in 1 .. numofEachBitPlane(n) * Group :
              Padded(words)[k] \in [Plane -> Bit]
         /\ \A k \in 1 .. n : Padded(words)[k] = words[k]
         /\ Len(words) = n
<1> DEFINE zero == [p \in Plane |-> 0]
           Word == [Plane -> Bit]
<1>1. PICK m \in Nat : m = Padding(n) /\ n + m = numofEachBitPlane(n) * Group
  <2>1. 0 \in 0 .. n - 1 /\ n \in Nat
    OBVIOUS
  <2> QED BY <2>1, PlaceInStage
<1>2. zero \in Word
  BY DEF Bit
<1> DEFINE zeros == [k \in 1 .. m |-> zero]
<1> HIDE DEF zero, Word
<1>3. zeros \in Seq(Word) /\ Len(zeros) = m
  <2>1. zeros \in [1 .. m -> Word]
    BY <1>2
  <2>2. zeros \in Seq(Word)
    BY <2>1, SeqDef, Zenon
  <2> QED BY <2>2
<1>4. words \in Seq(Word) /\ Len(words) = n
  <2>1. words \in [1 .. n -> Word]
    BY DEF Word
  <2>2. n \in Nat
    OBVIOUS
  <2> HIDE DEF Word
  <2>3. words \in Seq(Word)
    BY <2>1, <2>2, SeqDef
  <2> QED BY <2>1, <2>3
<1>5. Padded(words) = words \o zeros
  BY <1>1, <1>4, Zenon DEF Padded, zero
<1> HIDE DEF zeros
<1>6. /\ words \o zeros \in Seq(Word) /\ Len(words \o zeros) = n + m
      /\ \A k \in 1 .. n : (words \o zeros)[k] = words[k]
  BY <1>3, <1>4
<1>7. \A k \in 1 .. n + m : (words \o zeros)[k] \in Word
  BY <1>6
<1> QED BY <1>1, <1>4, <1>5, <1>6, <1>7, Zenon DEF Word

\* The bytes of a transposed stage have the bits of its words in their lanes.
LEMMA Transposed ==
  ASSUME NEW n \in Nat \ {0}, NEW words \in [1 .. n -> [Plane -> Bit]], NEW i \in 0 .. n - 1
  PROVE  /\ (i \div Group) + 1 \in DOMAIN bitTranspose8(words)[0]
         /\ \A p \in Plane :
              /\ bitTranspose8(words)[p][(i \div Group) + 1] \in Nat
              /\ LaneOf(bitTranspose8(words)[p][(i \div Group) + 1], i % Group)
                   = words[i + 1][p]
<1> DEFINE in == Padded(words)
           b == (i \div Group) + 1
           j == i % Group
           bits(p) == [l \in Lane |-> in[(b - 1) * Group + l + 1][p]]
<1>1. /\ numofEachBitPlane(n) \in Nat
      /\ i \div Group \in 0 .. numofEachBitPlane(n) - 1 /\ j \in Lane
      /\ (i \div Group) * Group + j = i
  <2>1. n \in Nat
    OBVIOUS
  <2> QED BY <2>1, PlaceInStage
<1>2. b \in 1 .. numofEachBitPlane(n) /\ b - 1 = i \div Group
  BY <1>1
<1>3. /\ \A k \in 1 .. numofEachBitPlane(n) * Group : in[k] \in [Plane -> Bit]
      /\ \A k \in 1 .. n : in[k] = words[k]
      /\ Len(words) = n
  BY PaddedIs, Zenon
<1>4. 0 \in Plane
  BY WidthAssumption DEF Plane
<1>5. \A p \in Plane : bitTranspose8(words)[p]
                       = [c \in 1 .. numofEachBitPlane(n) |->
                           ByteWith([l \in Lane |-> in[(c - 1) * Group + l + 1][p]])]
  BY <1>3 DEF bitTranspose8
<1>6. \A p \in Plane : bitTranspose8(words)[p][b] = ByteWith(bits(p))
  BY <1>2, <1>5
<1>7. b \in DOMAIN bitTranspose8(words)[0]
  BY <1>2, <1>4, <1>5
<1>8. ASSUME NEW p \in Plane
      PROVE  /\ \A l \in Lane : bits(p)[l] \in Bit
             /\ bits(p)[j] = words[i + 1][p]
  <2>1. ASSUME NEW l \in Lane PROVE bits(p)[l] \in Bit
    <3>1. PICK g \in Nat \ {0} : g = Group
      BY GroupAssumption
    <3>2. PICK q \in Nat, N \in Nat : q = b - 1 /\ N = numofEachBitPlane(n) /\ q + 1 <= N
      BY <1>1, <1>2
    <3>3. l \in 0 .. g - 1
      BY <3>1 DEF Lane
    <3>4. q * g + l + 1 \in 1 .. N * g
      <4>1. N - (q + 1) \in Nat
        BY <3>2
      <4>2. (N - (q + 1)) * g >= 0 /\ q * g >= 0
        BY <4>1
      <4>3. (N - (q + 1)) * g = N * g - (q * g + g)
        OBVIOUS
      <4>4. q * g \in Int /\ N * g \in Int
        OBVIOUS
      <4> QED BY <3>3, <4>2, <4>3, <4>4
    <3>5. in[q * g + l + 1] \in [Plane -> Bit]
      BY <1>3, <3>1, <3>2, <3>4, Zenon
    <3>6. bits(p)[l] = in[q * g + l + 1][p]
      BY <3>1, <3>2
    <3> QED BY <3>5, <3>6
  <2>2. bits(p)[j] = in[(b - 1) * Group + j + 1][p]
    BY <1>1
  <2>3. (b - 1) * Group + j + 1 = i + 1 /\ i + 1 \in 1 .. n
    <3>1. PICK a \in Int : a = (i \div Group) * Group /\ a + j = i
      <4>1. PICK g \in Nat \ {0}, q \in Nat : g = Group /\ q = i \div Group
        BY <1>1, GroupAssumption
      <4>2. q * g \in Int
        OBVIOUS
      <4> QED BY <1>1, <4>1, <4>2, Zenon
    <3>2. (b - 1) * Group = a
      BY <1>2, <3>1, Zenon
    <3> HIDE DEF j, b
    <3> QED BY <3>1, <3>2
  <2> HIDE DEF in, bits, j, b
  <2> QED BY <1>3, <2>1, <2>2, <2>3, Zenon
<1> HIDE DEF bits, in
<1>9. \A p \in Plane : ByteWith(bits(p)) \in Nat /\ LaneOf(ByteWith(bits(p)), j) = words[i + 1][p]
  <2> SUFFICES ASSUME NEW p \in Plane
               PROVE  ByteWith(bits(p)) \in Nat /\ LaneOf(ByteWith(bits(p)), j) = words[i + 1][p]
    OBVIOUS
  <2>1. ByteWith(bits(p)) \in Nat /\ \A k \in Lane : LaneOf(ByteWith(bits(p)), k) = bits(p)[k]
    BY <1>8, LaneOfByte
  <2> HIDE DEF j
  <2> QED BY <1>1, <1>8, <2>1
<1> QED BY <1>6, <1>7, <1>9, Zenon

\* What the contexts leave of a value alone: they are the two planes loaded last, and so
\* each plane is what is stored of it XORed with the two before it.
LoadedInv ==
  /\ \A p \in Plane : p < bit =>
       loaded_bits[p] = IF p < 2 THEN stored[p]
                        ELSE xor(stored[p], xor(loaded_bits[p - 2], loaded_bits[p - 1]))
  /\ bit >= 1 => last_bit = loaded_bits[bit - 1]
  /\ bit >= 2 => second_last_bit = loaded_bits[bit - 2]

\* Every step keeps it.
LEMMA LoadedSteps == QuantInv /\ LoadedInv /\ [Next]_vars => LoadedInv'
<1> SUFFICES ASSUME QuantInv, LoadedInv, [Next]_vars PROVE LoadedInv'
  OBVIOUS
<1>1. bit \in 0 .. W /\ loaded_bits \in [Plane -> Bit] /\ W \in Nat
  BY WidthAssumption DEF QuantInv, CodecInv
<1>2. CASE invert_table
  <2> DEFINE decoded == IF bit > 1 THEN xor(stored[bit], xor(second_last_bit, last_bit))
                        ELSE stored[bit]
  <2>1. /\ bit \in Plane /\ bit' = bit + 1
        /\ loaded_bits' = [loaded_bits EXCEPT ![bit] = decoded]
        /\ last_bit' = decoded
        /\ second_last_bit' = IF bit = 0 THEN second_last_bit ELSE last_bit
        /\ stored' = stored
    BY <1>1, <1>2 DEF invert_table, Plane
  <2>2. decoded = IF bit < 2 THEN stored[bit]
                  ELSE xor(stored[bit], xor(loaded_bits[bit - 2], loaded_bits[bit - 1]))
    <3>1. CASE bit < 2
      BY <1>1, <3>1
    <3>2. CASE ~(bit < 2)
      <4>1. bit > 1 /\ bit >= 1 /\ bit >= 2
        BY <1>1, <3>2
      <4> QED BY <3>2, <4>1 DEF LoadedInv
    <3> QED BY <3>1, <3>2
  <2> HIDE DEF decoded
  <2>3. loaded_bits'[bit] = decoded /\ \A p \in Plane \ {bit} : loaded_bits'[p] = loaded_bits[p]
    BY <1>1, <2>1
  <2>4. ASSUME NEW p \in Plane, p < bit + 1
        PROVE  loaded_bits'[p] = IF p < 2 THEN stored[p]
                 ELSE xor(stored[p], xor(loaded_bits'[p - 2], loaded_bits'[p - 1]))
    <3>1. p >= 2 => /\ p - 2 \in Plane \ {bit} /\ p - 1 \in Plane \ {bit}
      BY <1>1, <2>4 DEF Plane
    <3>2. p >= 2 => /\ loaded_bits'[p - 2] = loaded_bits[p - 2]
                    /\ loaded_bits'[p - 1] = loaded_bits[p - 1]
      BY <2>3, <3>1
    <3>3. p < 2 \/ p >= 2
      BY DEF Plane
    <3>4. CASE p = bit
      BY <2>2, <2>3, <3>2, <3>3, <3>4
    <3>5. CASE p # bit
      <4>1. p < bit /\ p \in Plane \ {bit}
        BY <1>1, <2>4, <3>5 DEF Plane
      <4>2. loaded_bits[p] = IF p < 2 THEN stored[p]
                             ELSE xor(stored[p], xor(loaded_bits[p - 2], loaded_bits[p - 1]))
        BY <4>1 DEF LoadedInv
      <4> QED BY <2>3, <3>2, <3>3, <4>1, <4>2
    <3> QED BY <3>4, <3>5
  <2>5. bit' - 1 = bit /\ last_bit' = loaded_bits'[bit' - 1]
    BY <1>1, <2>1, <2>3
  <2>6. bit' >= 2 => second_last_bit' = loaded_bits'[bit' - 2]
    <3> SUFFICES ASSUME bit' >= 2 PROVE second_last_bit' = loaded_bits'[bit' - 2]
      OBVIOUS
    <3>1. bit # 0 /\ bit >= 1 /\ bit' - 2 = bit - 1 /\ bit - 1 \in Plane \ {bit}
      BY <1>1, <2>1 DEF Plane
    <3>2. last_bit = loaded_bits[bit - 1]
      BY <3>1 DEF LoadedInv
    <3> QED BY <2>1, <2>3, <3>1, <3>2
  <2> QED BY <2>1, <2>4, <2>5, <2>6 DEF LoadedInv
<1>3. CASE add_to_quant
  BY <1>3 DEF add_to_quant, LoadedInv
<1>4. CASE UNCHANGED vars
  BY <1>4 DEF vars, LoadedInv
<1> QED BY <1>2, <1>3, <1>4 DEF Next

\* The planes of a value whose stored planes are bits.
Unfolds(planes, bits) ==
  \A p \in Plane : planes[p] = IF p < 2 THEN bits[p]
                               ELSE xor(bits[p], xor(planes[p - 2], planes[p - 1]))

\* The planes found in the lane of index i in the bytes loaded of a stage.
LaneHas(words, i, planes) ==
  \A p \in Plane :
    LaneOf(LoadedBytes(bitTranspose8(words))[(i \div Group) + 1][p], i % Group) = planes[p]

\* The lane of an index in the bytes loaded of its stage has the planes that a value of the
\* same stored planes has when it is loaded alone, whatever the other words are.
LEMMA LaneLoads ==
  ASSUME NEW n \in Nat \ {0}, NEW words \in [1 .. n -> [Plane -> Bit]], NEW i \in 0 .. n - 1,
         NEW alone, Unfolds(alone, words[i + 1])
  PROVE  LaneHas(words, i, alone)
<1> DEFINE b == (i \div Group) + 1
           j == i % Group
           c == [p \in Plane |-> bitTranspose8(words)[p][b]]
<1>1. j \in Lane
  <2>1. n \in Nat
    OBVIOUS
  <2> QED BY <2>1, PlaceInStage
<1>2. /\ b \in DOMAIN bitTranspose8(words)[0]
      /\ \A p \in Plane : c[p] \in Nat /\ LaneOf(c[p], j) = words[i + 1][p]
  BY Transposed
<1>3. LoadedBytes(bitTranspose8(words))[b] = LoadedByte(c)
  BY <1>2 DEF LoadedBytes
<1> HIDE DEF c
<1>4. \A p \in Plane :
        LoadedByte(c)[p] = IF p < 2 THEN c[p]
                           ELSE XorBytes(c[p], LoadedByte(c)[p - 2], LoadedByte(c)[p - 1])
  <2>1. \A p \in Plane : c[p] \in Nat
    BY <1>2
  <2> QED BY <2>1, LoadedByteIs
<1> DEFINE M == {m \in Nat : \A p \in Plane : p < m => LaneOf(LoadedByte(c)[p], j) = alone[p]}
<1> HIDE DEF j, b
<1>5. 0 \in M
  BY DEF Plane
<1>6. ASSUME NEW m \in Nat, m \in M PROVE m + 1 \in M
  <2> SUFFICES ASSUME NEW p \in Plane, p < m + 1
               PROVE  LaneOf(LoadedByte(c)[p], j) = alone[p]
    OBVIOUS
  <2>1. CASE p < m
    BY <1>6, <2>1
  <2>2. CASE p = m /\ p < 2
    BY <1>2, <1>4, <2>2 DEF Unfolds
  <2>3. CASE p = m /\ p >= 2
    <3>1. p - 2 \in Plane /\ p - 1 \in Plane /\ p - 2 < m /\ p - 1 < m /\ ~(p < 2)
      BY <2>3, WidthAssumption DEF Plane
    <3>2. LaneOf(LoadedByte(c)[p - 2], j) = alone[p - 2]
          /\ LaneOf(LoadedByte(c)[p - 1], j) = alone[p - 1]
      BY <1>6, <3>1
    <3>3. LoadedByte(c)[p] = XorBytes(c[p], LoadedByte(c)[p - 2], LoadedByte(c)[p - 1])
      BY <1>4, <3>1
    <3>4. LaneOf(LoadedByte(c)[p], j)
            = xor(LaneOf(c[p], j), xor(LaneOf(LoadedByte(c)[p - 2], j),
                                       LaneOf(LoadedByte(c)[p - 1], j)))
      BY <1>1, <3>3, XorLanes
    <3>5. LaneOf(c[p], j) = words[i + 1][p]
      BY <1>2
    <3>6. alone[p] = xor(words[i + 1][p], xor(alone[p - 2], alone[p - 1]))
      BY <3>1 DEF Unfolds
    <3> QED BY <3>2, <3>4, <3>5, <3>6
  <2>4. p < m \/ (p = m /\ p < 2) \/ (p = m /\ p >= 2)
    BY DEF Plane
  <2> QED BY <2>1, <2>2, <2>3, <2>4
<1> HIDE DEF M
<1>7. Nat \subseteq M
  BY <1>5, <1>6, SetInduction
<1>8. ASSUME NEW p \in Plane PROVE LaneOf(LoadedByte(c)[p], j) = alone[p]
  <2>1. p + 1 \in Nat /\ p < p + 1
    BY DEF Plane
  <2>2. p + 1 \in M
    BY <1>7, <2>1
  <2> QED BY <2>1, <2>2 DEF M
<1>9. \A p \in Plane : LaneOf(LoadedBytes(bitTranspose8(words))[b][p], j) = alone[p]
  BY <1>3, <1>8, Zenon
<1> QED BY <1>9, Zenon DEF b, j, LaneHas

\* add_to_quant() takes an index's planes from its own lane, also in the last byte.
LEMMA AddedIs ==
  ASSUME NEW n \in Nat, NEW i \in 0 .. n - 1, NEW loaded, NEW ps
  PROVE  AddedToQuant(loaded, n, ps)[i]
           = ValueOf([p \in Plane |-> LaneOf(loaded[(i \div Group) + 1][p], i % Group)], ps)
<1> DEFINE whole == (n \div Group) * Group
           at == IF i < whole THEN <<i \div Group, i % Group>>
                 ELSE <<numofEachBitPlane(n) - 1, i - whole>>
<1>1. AddedToQuant(loaded, n, ps)[i]
        = ValueOf([p \in Plane |-> LaneOf(loaded[at[1] + 1][p], at[2])], ps)
  BY Zenon DEF AddedToQuant
<1>2. at = <<i \div Group, i % Group>>
  <2>1. CASE i < whole
    BY <2>1
  <2>2. CASE ~(i < whole)
    <3>1. i \div Group = numofEachBitPlane(n) - 1 /\ i % Group = i - whole
      BY <2>2, PlaceInStage
    <3> HIDE DEF whole
    <3> QED BY <2>2, <3>1
  <2> QED BY <2>1, <2>2
<1> HIDE DEF at
<1>3. at[1] = i \div Group /\ at[2] = i % Group
  BY <1>2
<1> QED BY <1>1, <1>3

\* A value in a stage fares as it does alone, whatever its neighbours are, in stages of
\* every length and bytes of every number of lanes: what StageAgrees says of neighbours of
\* the opposite bits holds of any.
THEOREM StagesAgree == Spec => []StageAgrees
<1>1. Init => LoadedInv
  <2> SUFFICES ASSUME Init PROVE LoadedInv
    OBVIOUS
  <2>1. bit = 0 /\ \A p \in Plane : ~(p < 0)
    BY DEF Init, Plane
  <2> QED BY <2>1 DEF LoadedInv
<1>2. QuantInv /\ LoadedInv => StageAgrees
  <2> SUFFICES ASSUME QuantInv, LoadedInv, bit = W, NEW n \in StageSizes, NEW i \in 1 .. n,
                      NEW first \in Plane
               PROVE  AddedToQuant(LoadedBytes(bitTranspose8(StageWith(i, n))), n,
                                   first .. W - 1)[i - 1]
                        = ValueOf(loaded_bits, first .. W - 1)
    BY Zenon DEF StageAgrees
  <2> DEFINE words == StageWith(i, n)
             loaded == LoadedBytes(bitTranspose8(words))
             k == i - 1
             mine == [p \in Plane |-> LaneOf(loaded[(k \div Group) + 1][p], k % Group)]
  <2>1. n \in Nat /\ n \in Nat \ {0} /\ k \in 0 .. n - 1 /\ k + 1 = i
    BY StageSizesAssumption
  <2>2. words \in [1 .. n -> [Plane -> Bit]] /\ words[i] = stored
    <3>1. stored \in [Plane -> Bit]
      BY DEF QuantInv
    <3>2. [p \in Plane |-> 1 - stored[p]] \in [Plane -> Bit]
      <4>1. \A p \in Plane : 1 - stored[p] \in Bit
        BY <3>1 DEF Bit
      <4> QED BY <4>1
    <3> QED BY <3>1, <3>2 DEF StageWith
  <2> HIDE DEF words
  <2>3. Unfolds(loaded_bits, words[k + 1])
    <3>1. \A p \in Plane : p < bit
      BY WidthAssumption DEF Plane
    <3>2. Unfolds(loaded_bits, stored)
      BY <3>1 DEF LoadedInv, Unfolds
    <3>3. words[k + 1] = stored
      BY <2>1, <2>2, Zenon
    <3> QED BY <3>2, <3>3, Zenon
  <2> HIDE DEF k
  <2>4. \A p \in Plane : LaneOf(loaded[(k \div Group) + 1][p], k % Group) = loaded_bits[p]
    <3>1. n \in Nat \ {0} /\ k \in 0 .. n - 1
      BY <2>1
    <3>2. words \in [1 .. n -> [Plane -> Bit]]
      BY <2>2
    <3>3. LaneHas(words, k, loaded_bits)
      BY <2>3, <3>1, <3>2, LaneLoads
    <3> QED BY <3>3, Zenon DEF LaneHas
  <2>5. AddedToQuant(loaded, n, first .. W - 1)[k] = ValueOf(mine, first .. W - 1)
    BY <2>1, AddedIs
  <2> HIDE DEF loaded
  <2>6. \A p \in Plane : mine[p] = loaded_bits[p]
    BY <2>4
  <2> HIDE DEF mine
  <2>7. ValueOf(mine, first .. W - 1) = ValueOf(loaded_bits, first .. W - 1)
    BY <2>6, ValueOfSame
  <2> QED BY <2>5, <2>7 DEF loaded, words, k
<1> QED BY <1>1, <1>2, LoadedSteps, QuantInvariant, PTL DEF Spec
=============================================================================
