---------------------------- MODULE OperatorLemmas ----------------------------
(***************************************************************************)
(* Facts about the operators the models are built from, for the proofs of  *)
(* several components: induction, recursive functions, powers, sums,       *)
(* sequences put together from parts.                                      *)
(*                                                                         *)
(* Induction is over a set of numbers, from the well-founded order of the  *)
(* natural numbers.                                                        *)
(***************************************************************************)
EXTENDS Powers, SequencesExt, FiniteSetTheorems, SequenceTheorems,
        WellFoundedInduction, TLAPS

-----------------------------------------------------------------------------
(* Induction and recursion *)

\* Every nonempty set of natural numbers has a least element.
LEMMA LeastExists ==
  ASSUME NEW S, S \subseteq Nat, S # {}
  PROVE  \E x \in S : \A y \in S : x <= y
<1>1. PICK x \in S : \A y \in S : ~(<<y, x>> \in OpToRel(<, Nat))
  BY NatLessThanWellFounded, WFMin, Zenon
<1>2. ASSUME NEW y \in S PROVE ~(y < x)
  <2>1. <<y, x>> \in Nat \X Nat
    OBVIOUS
  <2> QED BY <1>1, <2>1, Zenon DEF OpToRel
<1>3. \A y \in S : x <= y
  BY <1>2
<1> QED BY <1>3

\* A set that holds 0, and with each number the next, holds them all.
LEMMA SetInduction ==
  ASSUME NEW S, 0 \in S, \A n \in Nat : n \in S => n + 1 \in S
  PROVE  Nat \subseteq S
<1> SUFFICES ASSUME Nat \ S # {} PROVE FALSE
  OBVIOUS
<1>1. PICK x \in Nat \ S : \A y \in Nat \ S : x <= y
  <2>1. Nat \ S \subseteq Nat
    OBVIOUS
  <2> QED BY <2>1, LeastExists
<1>2. x - 1 \in Nat /\ x - 1 \in S
  BY <1>1
<1>3. (x - 1) + 1 \in S
  BY <1>2
<1> QED BY <1>1, <1>3

\* f begins with c, and F says how each of its values leads to the next.
Recurs(c, F, f) == f[0] = c /\ \A n \in Nat : f[n + 1] = F[<<f[n], n>>]

\* A function on the natural numbers may be given by its first value and the step
\* from each value to the next.
LEMMA RecursionExists ==
  ASSUME NEW T, NEW c \in T, NEW F \in [T \X Nat -> T]
  PROVE  \E f \in [Nat -> T] : Recurs(c, F, f)
<1> DEFINE Good(n, g) == /\ g \in [0 .. n -> T] /\ g[0] = c
                         /\ \A k \in 0 .. n - 1 : g[k + 1] = F[<<g[k], k>>]
<1>1. \A n \in Nat : \E g : Good(n, g)
  <2> DEFINE S == {n \in Nat : \E g : Good(n, g)}
  <2>1. 0 \in S
    <3>1. Good(0, [k \in 0 .. 0 |-> c])
      OBVIOUS
    <3> QED BY <3>1
  <2>2. ASSUME NEW n \in Nat, n \in S PROVE n + 1 \in S
    <3>1. PICK g : Good(n, g)
      BY <2>2
    <3> DEFINE h == [k \in 0 .. n + 1 |-> IF k = n + 1 THEN F[<<g[n], n>>] ELSE g[k]]
    <3>2. g[n] \in T /\ F[<<g[n], n>>] \in T
      BY <3>1
    <3>3. h \in [0 .. n + 1 -> T] /\ h[0] = c
      BY <3>1, <3>2
    <3>4. ASSUME NEW k \in 0 .. n PROVE h[k + 1] = F[<<h[k], k>>]
      <4>1. CASE k = n
        <5>1. h[n + 1] = F[<<g[n], n>>] /\ h[n] = g[n]
          OBVIOUS
        <5> QED BY <4>1, <5>1
      <4>2. CASE k < n
        <5>1. h[k + 1] = g[k + 1] /\ h[k] = g[k] /\ k \in 0 .. n - 1
          BY <4>2
        <5> QED BY <3>1, <5>1
      <4> QED BY <4>1, <4>2
    <3> HIDE DEF h
    <3>5. (n + 1) - 1 = n
      OBVIOUS
    <3>6. Good(n + 1, h)
      BY <3>3, <3>4, <3>5
    <3> QED BY <3>6
  <2> HIDE DEF S
  <2>3. Nat \subseteq S
    BY <2>1, <2>2, SetInduction
  <2> QED BY <2>3 DEF S
<1>2. ASSUME NEW n \in Nat, NEW m \in 0 .. n, NEW g, Good(n, g), NEW h, Good(m, h)
      PROVE  g[m] = h[m]
  <2> DEFINE S == {k \in Nat : k <= m => g[k] = h[k]}
  <2>1. 0 \in S
    BY <1>2
  <2>2. ASSUME NEW k \in Nat, k \in S PROVE k + 1 \in S
    <3>1. CASE k + 1 <= m
      <4>1. k \in 0 .. m - 1 /\ k \in 0 .. n - 1 /\ g[k] = h[k]
        BY <2>2, <3>1
      <4>2. g[k + 1] = F[<<g[k], k>>] /\ h[k + 1] = F[<<h[k], k>>]
        BY <1>2, <4>1
      <4> QED BY <4>1, <4>2
    <3> QED BY <3>1
  <2> HIDE DEF S
  <2>3. Nat \subseteq S
    BY <2>1, <2>2, SetInduction
  <2> QED BY <2>3 DEF S
<1> DEFINE G(n) == CHOOSE g : Good(n, g)
           f == [n \in Nat |-> G(n)[n]]
<1>3. ASSUME NEW n \in Nat PROVE Good(n, G(n))
  BY <1>1, Zenon
<1> HIDE DEF Good, G
<1>4. f \in [Nat -> T] /\ f[0] = c
  BY <1>3 DEF Good
<1>5. ASSUME NEW n \in Nat PROVE f[n + 1] = F[<<f[n], n>>]
  <2>1. Good(n + 1, G(n + 1)) /\ Good(n, G(n))
    BY <1>3
  <2>2. G(n + 1)[n] = G(n)[n]
    BY <1>2, <2>1
  <2>3. G(n + 1)[n + 1] = F[<<G(n + 1)[n], n>>]
    BY <2>1 DEF Good
  <2> QED BY <2>2, <2>3
<1> QED BY <1>4, <1>5 DEF Recurs

\* f begins with c, and F leads from each of its values to the next, up to the n-th.
RecursUpTo(n, c, F, f) == f[0] = c /\ \A k \in 0 .. n - 1 : f[k + 1] = F[<<f[k], k>>]

\* So may a function on the first natural numbers.
LEMMA BoundedRecursion ==
  ASSUME NEW n \in Nat, NEW T, NEW c \in T, NEW F \in [T \X (0 .. n - 1) -> T]
  PROVE  \E f \in [0 .. n -> T] : RecursUpTo(n, c, F, f)
<1> DEFINE G == [p \in T \X Nat |-> IF p[2] < n THEN F[p] ELSE p[1]]
<1>1. G \in [T \X Nat -> T]
  <2> SUFFICES ASSUME NEW p \in T \X Nat PROVE (IF p[2] < n THEN F[p] ELSE p[1]) \in T
    OBVIOUS
  <2>1. CASE p[2] < n
    <3>1. p \in T \X (0 .. n - 1)
      BY <2>1
    <3> QED BY <2>1, <3>1
  <2> QED BY <2>1
<1>2. \A x \in T, k \in 0 .. n - 1 : G[<<x, k>>] = F[<<x, k>>]
  OBVIOUS
<1> HIDE DEF G
<1>3. PICK f \in [Nat -> T] : Recurs(c, G, f)
  BY <1>1, RecursionExists, Zenon
<1> DEFINE g == [k \in 0 .. n |-> f[k]]
<1>4. g \in [0 .. n -> T]
  OBVIOUS
<1>5. g[0] = c
  BY <1>3 DEF Recurs
<1>6. ASSUME NEW k \in 0 .. n - 1 PROVE g[k + 1] = F[<<g[k], k>>]
  <2>1. k \in Nat /\ g[k + 1] = f[k + 1] /\ g[k] = f[k] /\ f[k] \in T
    OBVIOUS
  <2>2. f[k + 1] = G[<<f[k], k>>]
    BY <1>3, <2>1 DEF Recurs
  <2>3. G[<<f[k], k>>] = F[<<f[k], k>>]
    BY <1>2, <2>1
  <2> QED BY <2>1, <2>2, <2>3
<1> HIDE DEF g
<1> QED BY <1>4, <1>5, <1>6 DEF RecursUpTo

-----------------------------------------------------------------------------
(* Largest and smallest *)

\* Max() of a set of numbers is its largest element, if it has one.
LEMMA MaxIs ==
  ASSUME NEW S, S \subseteq Int, NEW m \in S, \A y \in S : y <= m
  PROVE  Max(S) = m
<1>1. \E x \in S : \A y \in S : x >= y
  OBVIOUS
<1>2. Max(S) \in S /\ \A y \in S : Max(S) >= y
  BY <1>1, Zenon DEF Max
<1>3. PICK x \in S : x = Max(S) /\ \A y \in S : x >= y
  BY <1>2
<1>4. x >= m /\ m >= x /\ x \in Int /\ m \in Int
  BY <1>3
<1>5. x = m
  BY <1>4
<1> QED BY <1>3, <1>5

\* Min() of a set of natural numbers is its least element.
LEMMA MinIs ==
  ASSUME NEW S, S \subseteq Nat, S # {}
  PROVE  Min(S) \in S /\ \A y \in S : Min(S) <= y
<1>1. \E x \in S : \A y \in S : x <= y
  BY LeastExists
<1> QED BY <1>1, Zenon DEF Min

-----------------------------------------------------------------------------
(* Powers *)

\* The recursive definition of Power() defines it.
LEMMA PowerStep ==
  ASSUME NEW b \in Nat
  PROVE  /\ Power(b, 0) = 1
         /\ \A n \in Nat : Power(b, n) \in Nat /\ Power(b, n + 1) = b * Power(b, n)
<1> DEFINE F == [p \in Nat \X Nat |-> b * p[1]]
           Body(h) == [k \in Nat |-> IF k = 0 THEN 1 ELSE b * h[k - 1]]
           power == CHOOSE h : h = Body(h)
<1>1. F \in [Nat \X Nat -> Nat] /\ 1 \in Nat
  OBVIOUS
<1>2. PICK f \in [Nat -> Nat] : f[0] = 1 /\ \A n \in Nat : f[n + 1] = F[<<f[n], n>>]
  <2> HIDE DEF F
  <2>1. \E f \in [Nat -> Nat] : Recurs(1, F, f)
    BY <1>1, RecursionExists, Zenon
  <2> QED BY <2>1 DEF Recurs
<1>3. f = Body(f)
  <2>1. ASSUME NEW k \in Nat PROVE f[k] = IF k = 0 THEN 1 ELSE b * f[k - 1]
    <3>1. CASE k # 0
      <4>1. k - 1 \in Nat /\ (k - 1) + 1 = k
        BY <3>1
      <4>2. f[(k - 1) + 1] = F[<<f[k - 1], k - 1>>]
        BY <1>2, <4>1
      <4>3. f[k] = b * f[k - 1]
        BY <4>1, <4>2
      <4> QED BY <3>1, <4>3
    <3> QED BY <1>2, <3>1
  <2> QED BY <2>1
<1>4. power = Body(power)
  <2> HIDE DEF Body
  <2> QED BY <1>3, Zenon
<1>5. \A n : Power(b, n) = power[n]
  BY Zenon DEF Power
<1> HIDE DEF power
<1>6. \A k \in Nat : power[k] = IF k = 0 THEN 1 ELSE b * power[k - 1]
  BY <1>4
<1>7. power[0] = 1 /\ \A n \in Nat : power[n + 1] = b * power[n]
  <2>1. \A n \in Nat : n + 1 \in Nat /\ n + 1 # 0 /\ (n + 1) - 1 = n
    OBVIOUS
  <2> QED BY <1>6, <2>1
<1> DEFINE N == {n \in Nat : power[n] \in Nat}
<1>8. Nat \subseteq N
  <2>1. 0 \in N
    BY <1>7
  <2>2. ASSUME NEW n \in Nat, n \in N PROVE n + 1 \in N
    BY <1>7, <2>2
  <2> HIDE DEF N
  <2> QED BY <2>1, <2>2, SetInduction
<1> QED BY <1>5, <1>7, <1>8

\* Powers of a positive number are positive, and those of 2 outgrow the exponent.
LEMMA PowerPositive ==
  /\ \A b \in Nat \ {0}, n \in Nat : Power(b, n) \in Nat \ {0}
  /\ \A n \in Nat : n < Power(2, n)
<1>1. ASSUME NEW b \in Nat \ {0}, NEW n \in Nat PROVE Power(b, n) \in Nat \ {0}
  <2> DEFINE N == {m \in Nat : Power(b, m) \in Nat \ {0}}
  <2>1. 0 \in N
    BY PowerStep
  <2>2. ASSUME NEW m \in Nat, m \in N PROVE m + 1 \in N
    <3>1. Power(b, m + 1) = b * Power(b, m)
      BY PowerStep
    <3>2. \A x, y \in Nat \ {0} : x * y \in Nat \ {0}
      OBVIOUS
    <3> QED BY <2>2, <3>1, <3>2
  <2> HIDE DEF N
  <2>3. Nat \subseteq N
    BY <2>1, <2>2, SetInduction
  <2> QED BY <2>3 DEF N
<1>2. ASSUME NEW n \in Nat PROVE n < Power(2, n)
  <2> DEFINE N == {m \in Nat : m < Power(2, m)}
  <2>1. 0 \in N
    BY PowerStep
  <2>2. ASSUME NEW m \in Nat, m \in N PROVE m + 1 \in N
    <3>1. Power(2, m + 1) = 2 * Power(2, m) /\ Power(2, m) \in Nat
      BY PowerStep
    <3> QED BY <2>2, <3>1
  <2> HIDE DEF N
  <2>3. Nat \subseteq N
    BY <2>1, <2>2, SetInduction
  <2> QED BY <2>3 DEF N
<1> QED BY <1>1, <1>2

\* A power of a larger base is larger.
LEMMA PowerProduct ==
  ASSUME NEW g \in Nat, NEW b \in Nat, b <= g, NEW m \in Nat
  PROVE  \A n \in Nat : Power(g, m) * Power(b, n) <= Power(g, m + n)
<1> DEFINE N == {n \in Nat : Power(g, m) * Power(b, n) <= Power(g, m + n)}
<1>1. 0 \in N
  <2>1. Power(b, 0) = 1 /\ Power(g, m) \in Nat /\ m + 0 = m
    BY PowerStep
  <2> QED BY <2>1
<1>2. ASSUME NEW n \in Nat, n \in N PROVE n + 1 \in N
  <2>1. PICK x \in Nat, y \in Nat, z \in Nat :
          x = Power(g, m) /\ y = Power(b, n) /\ z = Power(g, m + n)
    <3>1. m + n \in Nat
      OBVIOUS
    <3>2. Power(g, m) \in Nat /\ Power(b, n) \in Nat /\ Power(g, m + n) \in Nat
      BY <3>1, PowerStep, Zenon
    <3> QED BY <3>2
  <2>2. x * y <= z
    BY <1>2, <2>1
  <2>3. Power(b, n + 1) = b * y /\ Power(g, m + (n + 1)) = g * z
    <3>1. m + (n + 1) = (m + n) + 1 /\ m + n \in Nat
      OBVIOUS
    <3> QED BY <2>1, <3>1, PowerStep
  <2>4. x * (b * y) <= g * z
    <3>1. x * (b * y) = b * (x * y) /\ x * y \in Nat
      OBVIOUS
    <3>2. \A t \in Nat : t <= z => b * t <= g * z
      <4> SUFFICES ASSUME NEW t \in Nat, t <= z PROVE b * t <= g * z
        OBVIOUS
      <4>1. b * (z - t) >= 0 /\ b * (z - t) = b * z - b * t
        OBVIOUS
      <4>2. (g - b) * z >= 0 /\ (g - b) * z = g * z - b * z
        OBVIOUS
      <4>3. b * t \in Int /\ b * z \in Int /\ g * z \in Int
        OBVIOUS
      <4> QED BY <4>1, <4>2, <4>3
    <3> QED BY <2>2, <3>1, <3>2
  <2> QED BY <2>1, <2>3, <2>4
<1> HIDE DEF N
<1>3. Nat \subseteq N
  BY <1>1, <1>2, SetInduction
<1> QED BY <1>3 DEF N

\* Exponents add up.
LEMMA PowerSum ==
  ASSUME NEW b \in Nat, NEW m \in Nat
  PROVE  \A n \in Nat : Power(b, m + n) = Power(b, m) * Power(b, n)
<1> DEFINE N == {n \in Nat : Power(b, m + n) = Power(b, m) * Power(b, n)}
<1>1. 0 \in N
  <2>1. Power(b, 0) = 1 /\ Power(b, m) \in Nat /\ m + 0 = m
    BY PowerStep
  <2> QED BY <2>1
<1>2. ASSUME NEW n \in Nat, n \in N PROVE n + 1 \in N
  <2>1. PICK x \in Nat, y \in Nat, z \in Nat :
          x = Power(b, m) /\ y = Power(b, n) /\ z = Power(b, m + n)
    <3>1. m + n \in Nat
      OBVIOUS
    <3>2. Power(b, m) \in Nat /\ Power(b, n) \in Nat /\ Power(b, m + n) \in Nat
      BY <3>1, PowerStep, Zenon
    <3> QED BY <3>2
  <2>2. z = x * y
    BY <1>2, <2>1
  <2>3. Power(b, n + 1) = b * y /\ Power(b, m + (n + 1)) = b * z
    <3>1. m + (n + 1) = (m + n) + 1 /\ m + n \in Nat
      OBVIOUS
    <3> QED BY <2>1, <3>1, PowerStep
  <2>4. b * (x * y) = x * (b * y)
    OBVIOUS
  <2> QED BY <2>1, <2>2, <2>3, <2>4
<1> HIDE DEF N
<1>3. Nat \subseteq N
  BY <1>1, <1>2, SetInduction
<1> QED BY <1>3 DEF N

-----------------------------------------------------------------------------
(* Folds over finite sets *)

\* ch picks an element out of every subset of S.
Picks(S, ch) == \A s \in SUBSET S : s # {} => ch[s] \in s

\* g gives every subset of S what folding F over it gives, from c on.
FoldsTo(S, c, F, ch, g) ==
  \A s \in SUBSET S : g[s] = IF s = {} THEN c ELSE F[<<ch[s], g[s \ {ch[s]}]>>]

\* A fold over a finite set, which takes an element that ch picks out of what is left,
\* has a value for every subset: the recursive definition of MapThenFoldSet() defines
\* a function.
LEMMA FoldExists ==
  ASSUME NEW S, IsFiniteSet(S), NEW T, NEW c \in T, NEW F \in [S \X T -> T],
         NEW ch, Picks(S, ch)
  PROVE  \E g \in [SUBSET S -> T] : FoldsTo(S, c, F, ch, g)
<1> DEFINE L(n) == {s \in SUBSET S : Cardinality(s) <= n}
           Good(n, g) == /\ g \in [L(n) -> T]
                         /\ \A s \in L(n) :
                              g[s] = IF s = {} THEN c ELSE F[<<ch[s], g[s \ {ch[s]}]>>]
           I == {n \in Nat : \E g : Good(n, g)}
<1>1. ASSUME NEW s \in SUBSET S
      PROVE  IsFiniteSet(s) /\ Cardinality(s) \in Nat /\ (Cardinality(s) = 0 <=> s = {})
  BY FS_Subset, FS_CardinalityType, FS_EmptySet
<1>2. ASSUME NEW s \in SUBSET S, s # {}
      PROVE  s \ {ch[s]} \in SUBSET S /\ Cardinality(s \ {ch[s]}) = Cardinality(s) - 1
  BY <1>1, <1>2, FS_RemoveElement DEF Picks
<1>3. 0 \in I
  <2>1. L(0) = {{}}
    <3>1. ASSUME NEW s \in L(0) PROVE s = {}
      BY <1>1
    <3>2. {} \in L(0)
      BY FS_EmptySet
    <3> HIDE DEF L
    <3> QED BY <3>1, <3>2
  <2> HIDE DEF L
  <2>2. Good(0, [s \in L(0) |-> c])
    BY <2>1
  <2> QED BY <2>2
<1>4. ASSUME NEW n \in Nat, n \in I PROVE n + 1 \in I
  <2>1. PICK g : Good(n, g)
    BY <1>4
  <2> DEFINE h == [s \in L(n + 1) |-> IF s \in L(n) THEN g[s]
                                      ELSE F[<<ch[s], g[s \ {ch[s]}]>>]]
  <2>2. ASSUME NEW s \in L(n + 1), s # {} PROVE s \ {ch[s]} \in L(n) /\ ch[s] \in S
    BY <1>1, <1>2, <2>2 DEF Picks
  <2>3. ASSUME NEW s \in L(n + 1), s \notin L(n) PROVE s # {}
    BY <1>1, <2>3, FS_EmptySet
  <2>4. L(n) \subseteq L(n + 1) /\ {} \in L(n)
    BY <1>1, FS_EmptySet
  <2>5. g \in [L(n) -> T] /\ \A s \in L(n) :
          g[s] = IF s = {} THEN c ELSE F[<<ch[s], g[s \ {ch[s]}]>>]
    BY <2>1
  <2> HIDE DEF L
  <2>6. h \in [L(n + 1) -> T]
    BY <2>2, <2>3, <2>5
  <2>7. ASSUME NEW s \in L(n + 1)
        PROVE  h[s] = IF s = {} THEN c ELSE F[<<ch[s], h[s \ {ch[s]}]>>]
    <3>1. CASE s = {}
      BY <2>4, <2>5, <3>1
    <3>2. CASE s # {}
      <4>1. h[s \ {ch[s]}] = g[s \ {ch[s]}]
        BY <2>2, <2>4, <3>2
      <4>2. h[s] = F[<<ch[s], g[s \ {ch[s]}]>>]
        BY <2>5, <3>2
      <4> QED BY <3>2, <4>1, <4>2
    <3> QED BY <3>1, <3>2
  <2>8. Good(n + 1, h)
    BY <2>6, <2>7
  <2> HIDE DEF h, Good
  <2> QED BY <2>8
<1> HIDE DEF I, Good
<1>5. Nat \subseteq I
  BY <1>3, <1>4, SetInduction
<1>6. Cardinality(S) \in Nat
  BY FS_CardinalityType
<1>7. PICK g : Good(Cardinality(S), g)
  BY <1>5, <1>6 DEF I
<1>8. L(Cardinality(S)) = SUBSET S
  BY FS_Subset
<1> HIDE DEF L
<1>9. Good(Cardinality(S), g)
  BY <1>7
<1> QED BY <1>8, <1>9 DEF Good, FoldsTo

\* Among finitely many numbers one is the largest.
LEMMA LargestExists ==
  ASSUME NEW I, IsFiniteSet(I), I # {}, NEW w, \A i \in I : w[i] \in Int
  PROVE  \E i \in I : \A j \in I : w[j] <= w[i]
<1> DEFINE N == {n \in Nat : \A J \in SUBSET I : Cardinality(J) = n /\ J # {} =>
                   \E i \in J : \A j \in J : w[j] <= w[i]}
<1>1. ASSUME NEW J \in SUBSET I
      PROVE  IsFiniteSet(J) /\ Cardinality(J) \in Nat /\ (Cardinality(J) = 0 <=> J = {})
  BY FS_Subset, FS_CardinalityType, FS_EmptySet
<1>2. 0 \in N
  BY <1>1
<1>3. ASSUME NEW n \in Nat, n \in N PROVE n + 1 \in N
  <2> SUFFICES ASSUME NEW J \in SUBSET I, Cardinality(J) = n + 1, J # {}
               PROVE  \E i \in J : \A j \in J : w[j] <= w[i]
    OBVIOUS
  <2>1. PICK x \in J : TRUE
    OBVIOUS
  <2>2. CASE J \ {x} = {}
    BY <2>1, <2>2
  <2>3. CASE J \ {x} # {}
    <3>1. Cardinality(J \ {x}) = IF x \in J THEN Cardinality(J) - 1 ELSE Cardinality(J)
      BY <1>1, FS_RemoveElement, Zenon
    <3>2. Cardinality(J \ {x}) = n
      BY <3>1
    <3>3. PICK i \in J \ {x} : \A j \in J \ {x} : w[j] <= w[i]
      BY <1>3, <2>3, <3>2
    <3>4. CASE w[x] <= w[i]
      BY <3>3, <3>4
    <3>5. CASE w[i] <= w[x]
      BY <3>3, <3>5
    <3> QED BY <3>4, <3>5
  <2> QED BY <2>2, <2>3
<1> HIDE DEF N
<1>4. Nat \subseteq N
  BY <1>2, <1>3, SetInduction
<1>5. Cardinality(I) \in Nat
  BY <1>1
<1> QED BY <1>4, <1>5 DEF N

-----------------------------------------------------------------------------
(* Sums *)

\* A sum over a finite set of integers is an integer, 0 for the empty set.
LEMMA SumByChoice ==
  ASSUME NEW I, IsFiniteSet(I), NEW w, \A i \in I : w[i] \in Int
  PROVE  /\ SumFunctionOnSet(w, {}) = 0
         /\ \A J \in SUBSET I : SumFunctionOnSet(w, J) \in Int
         /\ \A J \in SUBSET I : J # {} =>
              \E x \in J : SumFunctionOnSet(w, J) = w[x] + SumFunctionOnSet(w, J \ {x})
<1> DEFINE c(s) == CHOOSE x \in s : TRUE
           ch == [s \in SUBSET I |-> c(s)]
           F == [p \in I \X Int |-> w[p[1]] + p[2]]
           Sat(K, g) == \A s \in SUBSET K :
                          g[s] = IF s = {} THEN 0 ELSE F[<<ch[s], g[s \ {ch[s]}]>>]
<1>1. F \in [I \X Int -> Int]
  OBVIOUS
<1>2. Picks(I, ch)
  BY DEF Picks
<1> HIDE DEF ch
<1>3. PICK g \in [SUBSET I -> Int] : Sat(I, g)
  <2>1. 0 \in Int
    OBVIOUS
  <2> HIDE DEF F
  <2>2. \E g \in [SUBSET I -> Int] : FoldsTo(I, 0, F, ch, g)
    BY <1>1, <1>2, <2>1, FoldExists, Zenon
  <2> QED BY <2>2 DEF FoldsTo
<1>4. ASSUME NEW J \in SUBSET I PROVE SumFunctionOnSet(w, J) = g[J]
  <2> DEFINE Body(h) == [s \in SUBSET J |-> IF s = {} THEN 0 ELSE w[c(s)] + h[s \ {c(s)}]]
             h == CHOOSE h : h = Body(h)
  <2>1. SumFunctionOnSet(w, J) = h[J]
    BY Zenon DEF SumFunctionOnSet, FoldFunctionOnSet, MapThenFoldSet
  <2> DEFINE k == [s \in SUBSET J |-> g[s]]
  <2>2. k = Body(k)
    <3>1. ASSUME NEW s \in SUBSET J, s # {}
          PROVE  k[s] = w[c(s)] + k[s \ {c(s)}]
      <4>1. s \in SUBSET I /\ ch[s] = c(s) /\ c(s) \in s /\ s \ {c(s)} \in SUBSET J
        BY <3>1 DEF ch
      <4>2. g[s] = F[<<c(s), g[s \ {c(s)}]>>] /\ g[s \ {c(s)}] \in Int /\ c(s) \in I
        BY <1>3, <3>1, <4>1
      <4> HIDE DEF c
      <4> QED BY <4>1, <4>2
    <3>2. {} \in SUBSET J /\ k[{}] = 0
      BY <1>3
    <3> HIDE DEF c
    <3> QED BY <3>1, <3>2
  <2>3. h = Body(h)
    <3> HIDE DEF Body, k
    <3> QED BY <2>2, Zenon
  <2> HIDE DEF h, k
  <2>4. \A s \in SUBSET J : h[s] = g[s]
    <3> DEFINE N == {n \in Nat : \A s \in SUBSET J : Cardinality(s) = n => g[s] = h[s]}
    <3>1. ASSUME NEW s \in SUBSET J
          PROVE  IsFiniteSet(s) /\ Cardinality(s) \in Nat /\ (Cardinality(s) = 0 <=> s = {})
      BY FS_Subset, FS_CardinalityType, FS_EmptySet
    <3>2. 0 \in N
      <4>1. h[{}] = 0 /\ g[{}] = 0
        BY <1>3, <2>3
      <4> QED BY <3>1, <4>1
    <3>3. ASSUME NEW n \in Nat, n \in N PROVE n + 1 \in N
      <4> SUFFICES ASSUME NEW s \in SUBSET J, Cardinality(s) = n + 1 PROVE g[s] = h[s]
        OBVIOUS
      <4>1. s # {} /\ c(s) \in s /\ IsFiniteSet(s) /\ ch[s] = c(s) /\ s \in SUBSET I
        BY <3>1 DEF ch
      <4> HIDE DEF c
      <4>2. s \ {c(s)} \in SUBSET J /\ Cardinality(s \ {c(s)}) = n
        <5>1. Cardinality(s \ {c(s)}) = IF c(s) \in s THEN Cardinality(s) - 1 ELSE Cardinality(s)
          BY <4>1, FS_RemoveElement, Zenon
        <5> QED BY <4>1, <5>1
      <4>3. g[s \ {c(s)}] = h[s \ {c(s)}] /\ g[s \ {c(s)}] \in Int /\ c(s) \in I
        BY <3>3, <4>1, <4>2
      <4>4. h[s] = w[c(s)] + h[s \ {c(s)}]
        BY <2>3, <4>1
      <4>5. g[s] = F[<<c(s), g[s \ {c(s)}]>>]
        BY <1>3, <4>1
      <4> QED BY <4>3, <4>4, <4>5
    <3> HIDE DEF N
    <3>4. Nat \subseteq N
      BY <3>2, <3>3, SetInduction
    <3> QED BY <3>1, <3>4 DEF N
  <2> QED BY <2>1, <2>4
<1>5. SumFunctionOnSet(w, {}) = 0
  BY <1>3, <1>4
<1>6. \A J \in SUBSET I : SumFunctionOnSet(w, J) \in Int
  BY <1>3, <1>4
<1>7. ASSUME NEW J \in SUBSET I, J # {}
      PROVE  \E x \in J : SumFunctionOnSet(w, J) = w[x] + SumFunctionOnSet(w, J \ {x})
  <2>1. ch[J] = c(J) /\ c(J) \in J
    BY <1>7 DEF ch
  <2> HIDE DEF c
  <2>2. g[J] = F[<<c(J), g[J \ {c(J)}]>>] /\ g[J \ {c(J)}] \in Int /\ c(J) \in I
    BY <1>3, <1>7, <2>1
  <2>3. J \ {c(J)} \in SUBSET I
    OBVIOUS
  <2>4. g[J] = w[c(J)] + g[J \ {c(J)}]
    BY <2>2
  <2> HIDE DEF F
  <2> QED BY <1>4, <2>1, <2>3, <2>4
<1> QED BY <1>5, <1>6, <1>7
\* Any element can be taken out of a sum.
LEMMA SumRemove ==
  ASSUME NEW I, IsFiniteSet(I), NEW w, \A i \in I : w[i] \in Int, NEW y \in I
  PROVE  SumFunctionOnSet(w, I) = w[y] + SumFunctionOnSet(w, I \ {y})
<1> DEFINE Sum(J) == SumFunctionOnSet(w, J)
           N == {n \in Nat : \A J \in SUBSET I : \A z \in J :
                   Cardinality(J) = n => Sum(J) = w[z] + Sum(J \ {z})}
<1>1. /\ \A J \in SUBSET I : Sum(J) \in Int
      /\ \A J \in SUBSET I : J # {} => \E x \in J : Sum(J) = w[x] + Sum(J \ {x})
  BY SumByChoice
<1> HIDE DEF Sum
<1>2. ASSUME NEW J \in SUBSET I
      PROVE  IsFiniteSet(J) /\ Cardinality(J) \in Nat /\ (Cardinality(J) = 0 <=> J = {})
  BY FS_Subset, FS_CardinalityType, FS_EmptySet
<1>3. 0 \in N
  BY <1>2
<1>4. ASSUME NEW n \in Nat, n \in N PROVE n + 1 \in N
  <2> SUFFICES ASSUME NEW J \in SUBSET I, NEW z \in J, Cardinality(J) = n + 1
               PROVE  Sum(J) = w[z] + Sum(J \ {z})
    OBVIOUS
  <2>1. PICK x \in J : Sum(J) = w[x] + Sum(J \ {x})
    BY <1>1
  <2>2. CASE x = z
    BY <2>1, <2>2
  <2>3. CASE x # z
    <3>1. Cardinality(J \ {x}) = IF x \in J THEN Cardinality(J) - 1 ELSE Cardinality(J)
      BY <1>2, FS_RemoveElement, Zenon
    <3>2. Cardinality(J \ {z}) = IF z \in J THEN Cardinality(J) - 1 ELSE Cardinality(J)
      BY <1>2, FS_RemoveElement, Zenon
    <3>3. Sum(J \ {x}) = w[z] + Sum((J \ {x}) \ {z})
      BY <1>4, <2>3, <3>1
    <3>4. Sum(J \ {z}) = w[x] + Sum((J \ {z}) \ {x})
      BY <1>4, <2>3, <3>2
    <3>5. (J \ {x}) \ {z} = (J \ {z}) \ {x} /\ (J \ {x}) \ {z} \in SUBSET I
      OBVIOUS
    <3>6. Sum((J \ {x}) \ {z}) \in Int /\ w[x] \in Int /\ w[z] \in Int
      BY <1>1, <3>5
    <3>7. Sum(J) = w[x] + (w[z] + Sum((J \ {x}) \ {z}))
      BY <2>1, <3>3
    <3>8. Sum(J \ {z}) = w[x] + Sum((J \ {x}) \ {z})
      BY <3>4, <3>5
    <3> QED BY <3>6, <3>7, <3>8
  <2> QED BY <2>2, <2>3
<1> HIDE DEF N
<1>5. Nat \subseteq N
  BY <1>3, <1>4, SetInduction
<1>6. Sum(I) = w[y] + Sum(I \ {y})
  BY <1>2, <1>5 DEF N
<1> QED BY <1>6 DEF Sum

\* One element more in a sum.
LEMMA SumAdd ==
  ASSUME NEW J, IsFiniteSet(J), NEW a, a \notin J, NEW w, w[a] \in Int, \A i \in J : w[i] \in Int
  PROVE  /\ SumFunctionOnSet(w, {a} \cup J) = w[a] + SumFunctionOnSet(w, J)
         /\ IsFiniteSet({a} \cup J)
<1>1. IsFiniteSet(J \cup {a})
  BY FS_AddElement
<1>2. J \cup {a} = {a} \cup J /\ ({a} \cup J) \ {a} = J
  OBVIOUS
<1>3. a \in {a} \cup J /\ \A i \in {a} \cup J : w[i] \in Int
  OBVIOUS
<1>4. SumFunctionOnSet(w, {a} \cup J) = w[a] + SumFunctionOnSet(w, ({a} \cup J) \ {a})
  BY <1>1, <1>2, <1>3, SumRemove, Zenon
<1> QED BY <1>1, <1>2, <1>4, Zenon

\* Sums over one to four different elements.
LEMMA SumOfOne ==
  ASSUME NEW w, NEW a, w[a] \in Int
  PROVE  SumFunctionOnSet(w, {a}) = w[a] /\ IsFiniteSet({a})
<1>1. /\ SumFunctionOnSet(w, {a} \cup {}) = w[a] + SumFunctionOnSet(w, {})
      /\ IsFiniteSet({a} \cup {})
  BY SumAdd, FS_EmptySet
<1>2. SumFunctionOnSet(w, {}) = 0
  BY FS_EmptySet, SumByChoice
<1>3. {a} \cup {} = {a}
  OBVIOUS
<1>4. SumFunctionOnSet(w, {a}) = w[a] + 0
  BY <1>1, <1>2, <1>3, Zenon
<1> QED BY <1>1, <1>3, <1>4

\* The sum over two indices.
LEMMA SumOfTwo ==
  ASSUME NEW w, NEW a, NEW b, a # b, w[a] \in Int, w[b] \in Int
  PROVE  SumFunctionOnSet(w, {a, b}) = w[a] + w[b] /\ IsFiniteSet({a, b})
<1>1. SumFunctionOnSet(w, {b}) = w[b] /\ IsFiniteSet({b})
  BY SumOfOne
<1>2. /\ SumFunctionOnSet(w, {a} \cup {b}) = w[a] + SumFunctionOnSet(w, {b})
      /\ IsFiniteSet({a} \cup {b})
  BY <1>1, SumAdd
<1>3. {a} \cup {b} = {a, b}
  OBVIOUS
<1> QED BY <1>1, <1>2, <1>3, Zenon

\* The sum over three.
LEMMA SumOfThree ==
  ASSUME NEW w, NEW a, NEW b, NEW c, a # b, a # c, b # c,
         w[a] \in Int, w[b] \in Int, w[c] \in Int
  PROVE  SumFunctionOnSet(w, {a, b, c}) = w[a] + (w[b] + w[c]) /\ IsFiniteSet({a, b, c})
<1>1. SumFunctionOnSet(w, {b, c}) = w[b] + w[c] /\ IsFiniteSet({b, c})
  BY SumOfTwo
<1>2. a \notin {b, c} /\ \A i \in {b, c} : w[i] \in Int
  OBVIOUS
<1>3. /\ SumFunctionOnSet(w, {a} \cup {b, c}) = w[a] + SumFunctionOnSet(w, {b, c})
      /\ IsFiniteSet({a} \cup {b, c})
  BY <1>1, <1>2, SumAdd, Zenon
<1>4. {a} \cup {b, c} = {a, b, c}
  OBVIOUS
<1> QED BY <1>1, <1>3, <1>4, Zenon

\* The sum over four.
LEMMA SumOfFour ==
  ASSUME NEW w, NEW a, NEW b, NEW c, NEW d,
         a # b, a # c, a # d, b # c, b # d, c # d,
         w[a] \in Int, w[b] \in Int, w[c] \in Int, w[d] \in Int
  PROVE  /\ SumFunctionOnSet(w, {a, b, c, d}) = w[a] + (w[b] + (w[c] + w[d]))
         /\ IsFiniteSet({a, b, c, d})
<1>1. SumFunctionOnSet(w, {b, c, d}) = w[b] + (w[c] + w[d]) /\ IsFiniteSet({b, c, d})
  BY SumOfThree, Zenon
<1>2. a \notin {b, c, d} /\ \A i \in {b, c, d} : w[i] \in Int
  OBVIOUS
<1>3. /\ SumFunctionOnSet(w, {a} \cup {b, c, d}) = w[a] + SumFunctionOnSet(w, {b, c, d})
      /\ IsFiniteSet({a} \cup {b, c, d})
  BY <1>1, <1>2, SumAdd, Zenon
<1>4. {a} \cup {b, c, d} = {a, b, c, d}
  OBVIOUS
<1> QED BY <1>1, <1>3, <1>4, Zenon

-----------------------------------------------------------------------------
(* Sequences put together from parts *)

\* f gives the concatenations of the first parts of ss.
Concatenates(ss, f) ==
  f[0] = <<>> /\ \A n \in 0 .. Len(ss) - 1 : f[n + 1] = f[n] \o ss[n + 1]

\* FlattenSeq() appends one part after the other.
LEMMA FlattenIs ==
  ASSUME NEW S, NEW ss \in Seq(Seq(S)), NEW f \in [Nat -> Seq(S)], Concatenates(ss, f)
  PROVE  FlattenSeq(ss) = f[Len(ss)]
<1>1. CASE Len(ss) = 0
  <2>1. ss = <<>>
    BY <1>1, EmptySeq
  <2>2. f[Len(ss)] = <<>>
    BY <1>1 DEF Concatenates
  <2>3. FlattenSeq(ss) = ss
    BY <1>1, Zenon DEF FlattenSeq
  <2> QED BY <2>1, <2>2, <2>3
<1>2. CASE Len(ss) # 0
  <2> DEFINE n == Len(ss)
             T == Seq(S)
             cat(a, b) == a \o b
             Body(h) == [i \in 1 .. n |-> IF i = 1 THEN ss[i] ELSE cat(h[i - 1], ss[i])]
             h == CHOOSE h : h = Body(h)
             k == [i \in 1 .. n |-> f[i]]
  <2>1. n \in Nat \ {0}
    BY <1>2, LenProperties
  <2>2. \A i \in 1 .. n : ss[i] \in T
    BY ElementOfSeq
  <2>3. \A a \in T : cat(<<>>, a) = a
    BY ConcatEmptySeq
  <2>4. \A i \in 0 .. n - 1 : f[i + 1] = cat(f[i], ss[i + 1])
    BY DEF Concatenates
  <2>5. FlattenSeq(ss) = h[n]
    BY <1>2, Zenon DEF FlattenSeq
  <2>6. f[0] = <<>>
    BY DEF Concatenates
  <2> HIDE DEF n, T, cat
  <2>7. k = Body(k)
    <3>1. ASSUME NEW i \in 1 .. n
          PROVE  k[i] = IF i = 1 THEN ss[i] ELSE cat(k[i - 1], ss[i])
      <4>1. i - 1 \in 0 .. n - 1 /\ (i - 1) + 1 = i
        BY <2>1
      <4>2. f[i] = cat(f[i - 1], ss[i])
        BY <2>4, <4>1
      <4>3. CASE i = 1
        BY <2>2, <2>3, <2>6, <4>2, <4>3
      <4>4. CASE i # 1
        BY <2>1, <4>2, <4>4
      <4> QED BY <4>3, <4>4
    <3> QED BY <3>1, Zenon
  <2>8. h = Body(h)
    <3> HIDE DEF Body, k
    <3> QED BY <2>7, Zenon
  <2> HIDE DEF h
  <2> DEFINE N == {m \in Nat : m < n => h[m + 1] = f[m + 1]}
  <2>9. 0 \in N
    <3>1. h[1] = ss[1]
      BY <2>1, <2>8
    <3>2. f[0 + 1] = cat(f[0], ss[0 + 1])
      BY <2>1, <2>4
    <3>3. f[1] = ss[1]
      BY <2>1, <2>2, <2>3, <2>6, <3>2
    <3> QED BY <3>1, <3>3
  <2>10. ASSUME NEW m \in Nat, m \in N PROVE m + 1 \in N
    <3> SUFFICES ASSUME m + 1 < n PROVE h[m + 2] = f[m + 2]
      OBVIOUS
    <3>1. m + 2 \in 1 .. n /\ m + 2 # 1 /\ (m + 2) - 1 = m + 1 /\ m + 1 \in 0 .. n - 1
          /\ (m + 1) + 1 = m + 2 /\ m < n
      BY <2>1
    <3>2. h[m + 2] = cat(h[m + 1], ss[m + 2])
      BY <2>8, <3>1
    <3>3. f[m + 2] = cat(f[m + 1], ss[m + 2])
      BY <2>4, <3>1
    <3>4. h[m + 1] = f[m + 1]
      BY <2>10, <3>1
    <3> QED BY <3>2, <3>3, <3>4
  <2> HIDE DEF N
  <2>11. Nat \subseteq N
    BY <2>9, <2>10, SetInduction
  <2>12. n - 1 \in N
    BY <2>1, <2>11
  <2>13. h[(n - 1) + 1] = f[(n - 1) + 1]
    BY <2>1, <2>12 DEF N
  <2>14. (n - 1) + 1 = n
    BY <2>1
  <2>15. FlattenSeq(ss) = f[n]
    BY <2>5, <2>13, <2>14
  <2> QED BY <2>15 DEF n
<1> QED BY <1>1, <1>2

\* FlattenSeq() of one part more.
LEMMA FlattenAppend ==
  ASSUME NEW S, NEW ss \in Seq(Seq(S)), NEW s \in Seq(S)
  PROVE  /\ FlattenSeq(<<>>) = <<>>
         /\ FlattenSeq(ss) \in Seq(S)
         /\ FlattenSeq(Append(ss, s)) = FlattenSeq(ss) \o s
<1> DEFINE tt == Append(ss, s)
           T == Seq(S)
           n == Len(ss)
           cat(a, b) == a \o b
           F == [p \in T \X Nat |-> IF p[2] <= n THEN cat(p[1], tt[p[2] + 1]) ELSE p[1]]
<1>1. /\ tt \in Seq(Seq(S)) /\ Len(tt) = n + 1 /\ tt[n + 1] = s
      /\ \A i \in 1 .. n : tt[i] = ss[i]
      /\ n \in Nat
  BY AppendProperties, LenProperties
<1>2. \A i \in 1 .. n + 1 : tt[i] \in T
  <2> HIDE DEF tt
  <2> QED BY <1>1, ElementOfSeq
<1>3. \A a, b \in T : cat(a, b) \in T
  BY ConcatProperties
<1>4. <<>> \in T
  BY EmptySeq
<1> HIDE DEF tt, T, n, cat
<1>5. F \in [T \X Nat -> T]
  BY <1>1, <1>2, <1>3
<1>6. PICK f \in [Nat -> T] : f[0] = <<>> /\ \A i \in Nat : f[i + 1] = F[<<f[i], i>>]
  <2> HIDE DEF F
  <2>1. \E f \in [Nat -> T] : Recurs(<<>>, F, f)
    BY <1>4, <1>5, RecursionExists, Zenon
  <2> QED BY <2>1 DEF Recurs
<1>7. ASSUME NEW i \in 0 .. n PROVE f[i + 1] = cat(f[i], tt[i + 1])
  <2>1. i \in Nat /\ f[i] \in T /\ i <= n
    BY <1>1
  <2> QED BY <1>6, <2>1
<1>8. FlattenSeq(tt) = f[n + 1]
  <2>1. \A i \in 0 .. (n + 1) - 1 : f[i + 1] = f[i] \o tt[i + 1]
    BY <1>1, <1>7 DEF cat
  <2>2. Concatenates(tt, f)
    BY <1>1, <1>6, <2>1 DEF Concatenates
  <2>3. FlattenSeq(tt) = f[Len(tt)]
    BY <1>1, <2>2, FlattenIs, Zenon DEF T
  <2> QED BY <1>1, <2>3
<1>9. FlattenSeq(ss) = f[n]
  <2>1. ASSUME NEW i \in 0 .. n - 1 PROVE f[i + 1] = f[i] \o ss[i + 1]
    <3>1. i \in 0 .. n /\ i + 1 \in 1 .. n
      BY <1>1
    <3>2. f[i + 1] = cat(f[i], tt[i + 1]) /\ tt[i + 1] = ss[i + 1]
      BY <1>1, <1>7, <3>1
    <3> QED BY <3>2 DEF cat
  <2>2. Concatenates(ss, f)
    BY <1>6, <2>1 DEF Concatenates, n
  <2> QED BY <2>2, FlattenIs, Zenon DEF T, n
<1>10. f[n + 1] = cat(f[n], tt[n + 1])
  BY <1>1, <1>7
<1>11. FlattenSeq(<<>>) = <<>>
  BY DEF FlattenSeq
<1>12. f[n] \in T
  BY <1>1
<1> QED BY <1>1, <1>8, <1>9, <1>10, <1>11, <1>12 DEF tt, T, cat

\* The first k values of f.
Prefix(f, k) == [i \in 1 .. k |-> f[i]]

\* The first n of f, flattened, grow by one sequence at a time.
Grows(S, n, f) ==
  /\ FlattenSeq(Prefix(f, 0)) = <<>>
  /\ \A k \in 0 .. n : FlattenSeq(Prefix(f, k)) \in Seq(S)
  /\ \A k \in 0 .. n - 1 :
       FlattenSeq(Prefix(f, k + 1)) = FlattenSeq(Prefix(f, k)) \o f[k + 1]

\* The sequences of f put one after the other, up to each of them.
LEMMA FlattenPrefix ==
  ASSUME NEW S, NEW n \in Nat, NEW f, \A i \in 1 .. n : f[i] \in Seq(S)
  PROVE  Grows(S, n, f)
<1> DEFINE T == Seq(S)
           ss(k) == [i \in 1 .. k |-> f[i]]
<1>1. ss(0) = <<>>
  OBVIOUS
<1>2. FlattenSeq(<<>>) = <<>>
  <2>1. <<>> \in Seq(Seq(S)) /\ <<>> \in Seq(S)
    BY EmptySeq
  <2> QED BY <2>1, FlattenAppend
<1>3. ASSUME NEW k \in 0 .. n PROVE ss(k) \in Seq(T) /\ Len(ss(k)) = k
  <2> HIDE DEF T
  <2>1. ss(k) \in [1 .. k -> T]
    <3>1. \A i \in 1 .. k : f[i] \in T
      BY DEF T
    <3> QED BY <3>1
  <2>2. ss(k) \in Seq(T)
    BY <2>1, SeqDef
  <2>3. DOMAIN ss(k) = 1 .. Len(ss(k)) /\ Len(ss(k)) \in Nat /\ DOMAIN ss(k) = 1 .. k
    BY <2>1, <2>2, LenProperties
  <2>4. PICK q \in Nat : q = Len(ss(k)) /\ 1 .. q = 1 .. k
    BY <2>3, Zenon
  <2> HIDE DEF ss
  <2> QED BY <2>2, <2>4
<1>4. ASSUME NEW k \in 0 .. n PROVE FlattenSeq(ss(k)) \in Seq(S)
  <2>1. ss(k) \in Seq(Seq(S))
    BY <1>3
  <2>2. <<>> \in Seq(S)
    BY EmptySeq
  <2> HIDE DEF ss
  <2> QED BY <2>1, <2>2, FlattenAppend
<1>5. ASSUME NEW k \in 0 .. n - 1
      PROVE  FlattenSeq(ss(k + 1)) = FlattenSeq(ss(k)) \o f[k + 1]
  <2> DEFINE s == ss(k)
             e == f[k + 1]
  <2>1. k \in 0 .. n /\ k + 1 \in 1 .. n
    OBVIOUS
  <2>2. s \in Seq(T) /\ Len(s) = k /\ e \in T /\ s = [j \in 1 .. k |-> f[j]]
    BY <1>3, <2>1
  <2>3. ss(k + 1) = Append(s, e)
    <3>1. ss(k + 1) = [j \in 1 .. k + 1 |-> f[j]]
      OBVIOUS
    <3> HIDE DEF T, s
    <3>2. /\ Append(s, e) \in Seq(T) /\ Len(Append(s, e)) = k + 1
          /\ (\A i \in 1 .. k : Append(s, e)[i] = s[i]) /\ Append(s, e)[k + 1] = e
      BY <2>2, AppendProperties
    <3>3. Append(s, e) \in [1 .. k + 1 -> T]
      BY <3>2, LenProperties
    <3>4. \A j \in 1 .. k + 1 : Append(s, e)[j] = f[j]
      <4>1. \A j \in 1 .. k : s[j] = f[j]
        BY <2>2
      <4>2. \A j \in 1 .. k + 1 : j \in 1 .. k \/ j = k + 1
        BY <2>1
      <4> QED BY <3>2, <4>1, <4>2
    <3> QED BY <3>1, <3>3, <3>4 DEF s
  <2>4. s \in Seq(Seq(S)) /\ e \in Seq(S)
    BY <2>2
  <2> HIDE DEF ss, s, e
  <2>5. FlattenSeq(Append(s, e)) = FlattenSeq(s) \o e
    BY <2>4, FlattenAppend
  <2> QED BY <2>3, <2>5 DEF s, e
<1>6. \A k : Prefix(f, k) = ss(k)
  BY DEF Prefix
<1> HIDE DEF ss
<1> QED BY <1>1, <1>2, <1>4, <1>5, <1>6 DEF Grows

\* Sequences of one length make up a sequence of that length times their number.
LEMMA FlattenEven ==
  ASSUME NEW S, NEW n \in Nat, NEW q \in Nat,
         NEW f \in [1 .. n -> {s \in Seq(S) : Len(s) = q}]
  PROVE  FlattenSeq(f) \in Seq(S) /\ Len(FlattenSeq(f)) = n * q
<1> DEFINE F(k) == FlattenSeq(Prefix(f, k))
           N == {k \in Nat : k <= n => Len(F(k)) = k * q}
<1>0. \A i \in 1 .. n : Len(f[i]) = q
  OBVIOUS
<1>a. \A i \in 1 .. n : f[i] \in Seq(S)
  OBVIOUS
<1>1. /\ F(0) = <<>>
      /\ \A k \in 0 .. n : F(k) \in Seq(S)
      /\ \A k \in 0 .. n - 1 : F(k + 1) = F(k) \o f[k + 1]
  <2>1. Grows(S, n, f)
    BY <1>a, FlattenPrefix, Zenon
  <2> QED BY <2>1, Zenon DEF Grows
<1> HIDE DEF F
<1>2. 0 \in N
  <2>1. Len(<<>>) = 0 /\ 0 * q = 0
    BY EmptySeq
  <2> QED BY <1>1, <2>1
<1>3. ASSUME NEW k \in Nat, k \in N PROVE k + 1 \in N
  <2> SUFFICES ASSUME k + 1 <= n PROVE Len(F(k + 1)) = (k + 1) * q
    OBVIOUS
  <2>1. k \in 0 .. n - 1 /\ k \in 0 .. n /\ k + 1 \in 1 .. n /\ k <= n
    OBVIOUS
  <2>2. Len(F(k)) = k * q
    BY <1>3, <2>1
  <2>3. F(k + 1) = F(k) \o f[k + 1] /\ F(k) \in Seq(S) /\ f[k + 1] \in Seq(S) /\ Len(f[k + 1]) = q
    BY <1>0, <1>a, <1>1, <2>1
  <2>4. Len(F(k) \o f[k + 1]) = Len(F(k)) + Len(f[k + 1])
    BY <2>3, ConcatProperties
  <2>5. (k + 1) * q = k * q + q
    OBVIOUS
  <2> QED BY <2>2, <2>3, <2>4, <2>5
<1> HIDE DEF N
<1>4. Nat \subseteq N
  BY <1>2, <1>3, SetInduction
<1>5. n \in N /\ n <= n /\ n \in 0 .. n
  BY <1>4
<1>6. F(n) \in Seq(S)
  BY <1>1, <1>5
<1>7. F(n) = FlattenSeq(f)
  BY DEF F, Prefix
<1> QED BY <1>5, <1>6, <1>7 DEF N

\* A sum of naturals is one.
LEMMA SumNatural ==
  ASSUME NEW I, IsFiniteSet(I), NEW w, \A i \in I : w[i] \in Nat
  PROVE  SumFunctionOnSet(w, I) \in Nat
<1> DEFINE Sum(J) == SumFunctionOnSet(w, J)
           N == {n \in Nat : \A J \in SUBSET I : Cardinality(J) = n => Sum(J) \in Nat}
<1>1. Sum({}) = 0 /\ \A J \in SUBSET I : J # {} => \E x \in J : Sum(J) = w[x] + Sum(J \ {x})
  BY SumByChoice
<1>2. ASSUME NEW J \in SUBSET I
      PROVE  IsFiniteSet(J) /\ Cardinality(J) \in Nat /\ (Cardinality(J) = 0 <=> J = {})
  BY FS_Subset, FS_CardinalityType, FS_EmptySet
<1> HIDE DEF Sum
<1>3. 0 \in N
  BY <1>1, <1>2
<1>4. ASSUME NEW n \in Nat, n \in N PROVE n + 1 \in N
  <2> SUFFICES ASSUME NEW J \in SUBSET I, Cardinality(J) = n + 1 PROVE Sum(J) \in Nat
    OBVIOUS
  <2>1. J # {}
    BY <1>2
  <2>2. PICK x \in J : Sum(J) = w[x] + Sum(J \ {x})
    BY <1>1, <2>1
  <2>3. J \ {x} \in SUBSET I
    OBVIOUS
  <2>4. Cardinality(J \ {x}) = IF x \in J THEN Cardinality(J) - 1 ELSE Cardinality(J)
    BY <1>2, FS_RemoveElement, Zenon
  <2>5. Cardinality(J \ {x}) = n
    BY <2>4
  <2>6. Sum(J \ {x}) \in Nat
    BY <1>4, <2>3, <2>5
  <2> QED BY <2>2, <2>6
<1> HIDE DEF N
<1>5. Nat \subseteq N
  BY <1>3, <1>4, SetInduction
<1>6. I \in SUBSET I /\ Cardinality(I) \in Nat
  BY <1>2
<1> QED BY <1>5, <1>6 DEF N, Sum

\* Equal numbers add up to one of them, as often as there are.
LEMMA SumConstant ==
  ASSUME NEW I, IsFiniteSet(I), NEW c \in Nat, NEW w, \A i \in I : w[i] = c
  PROVE  SumFunctionOnSet(w, I) = Cardinality(I) * c
<1> DEFINE Sum(J) == SumFunctionOnSet(w, J)
           N == {n \in Nat : \A J \in SUBSET I : Cardinality(J) = n => Sum(J) = n * c}
<1>1. ASSUME NEW J \in SUBSET I
      PROVE  /\ IsFiniteSet(J) /\ Cardinality(J) \in Nat /\ (Cardinality(J) = 0 <=> J = {})
             /\ \A x \in J : Sum(J) = w[x] + Sum(J \ {x})
  <2>1. IsFiniteSet(J) /\ Cardinality(J) \in Nat /\ (Cardinality(J) = 0 <=> J = {})
    BY FS_Subset, FS_CardinalityType, FS_EmptySet
  <2>2. \A i \in J : w[i] \in Int
    OBVIOUS
  <2>3. \A x \in J : Sum(J) = w[x] + Sum(J \ {x})
    BY <2>1, <2>2, SumRemove
  <2> QED BY <2>1, <2>3
<1>2. Sum({}) = 0
  BY FS_EmptySet, SumByChoice
<1> HIDE DEF Sum
<1>3. 0 \in N
  BY <1>1, <1>2
<1>4. ASSUME NEW n \in Nat, n \in N PROVE n + 1 \in N
  <2> SUFFICES ASSUME NEW J \in SUBSET I, Cardinality(J) = n + 1 PROVE Sum(J) = (n + 1) * c
    OBVIOUS
  <2>1. J # {}
    BY <1>1
  <2>2. PICK x \in J : TRUE
    BY <2>1
  <2>3. Cardinality(J \ {x}) = IF x \in J THEN Cardinality(J) - 1 ELSE Cardinality(J)
    BY <1>1, FS_RemoveElement, Zenon
  <2>4. Cardinality(J \ {x}) = n
    BY <2>3
  <2>5. Sum(J \ {x}) = n * c
    BY <1>4, <2>4
  <2>6. Sum(J) = c + n * c
    BY <1>1, <2>2, <2>5
  <2>7. (n + 1) * c = c + n * c
    OBVIOUS
  <2> QED BY <2>6, <2>7
<1> HIDE DEF N
<1>5. Nat \subseteq N
  BY <1>3, <1>4, SetInduction
<1>6. Cardinality(I) \in Nat
  BY <1>1
<1> QED BY <1>5, <1>6 DEF N, Sum

\* Numbers added in pairs add up to both sums.
LEMMA SumPointwise ==
  ASSUME NEW I, IsFiniteSet(I), NEW u, NEW v, NEW w,
         \A i \in I : u[i] \in Int /\ v[i] \in Int /\ w[i] = u[i] + v[i]
  PROVE  SumFunctionOnSet(w, I) = SumFunctionOnSet(u, I) + SumFunctionOnSet(v, I)
<1> DEFINE Sum(f, J) == SumFunctionOnSet(f, J)
           N == {n \in Nat : \A J \in SUBSET I :
                   Cardinality(J) = n => Sum(w, J) = Sum(u, J) + Sum(v, J)}
<1>1. ASSUME NEW J \in SUBSET I
      PROVE  /\ IsFiniteSet(J) /\ Cardinality(J) \in Nat /\ (Cardinality(J) = 0 <=> J = {})
             /\ \A x \in J : /\ Sum(u, J) = u[x] + Sum(u, J \ {x})
                             /\ Sum(v, J) = v[x] + Sum(v, J \ {x})
                             /\ Sum(w, J) = w[x] + Sum(w, J \ {x})
  <2>1. IsFiniteSet(J) /\ Cardinality(J) \in Nat /\ (Cardinality(J) = 0 <=> J = {})
    BY FS_Subset, FS_CardinalityType, FS_EmptySet
  <2>2. \A i \in J : u[i] \in Int /\ v[i] \in Int /\ w[i] \in Int
    OBVIOUS
  <2>3. \A x \in J : Sum(u, J) = u[x] + Sum(u, J \ {x})
    BY <2>1, <2>2, SumRemove
  <2>4. \A x \in J : Sum(v, J) = v[x] + Sum(v, J \ {x})
    BY <2>1, <2>2, SumRemove
  <2>5. \A x \in J : Sum(w, J) = w[x] + Sum(w, J \ {x})
    BY <2>1, <2>2, SumRemove
  <2> QED BY <2>1, <2>3, <2>4, <2>5
<1>2. Sum(u, {}) = 0 /\ Sum(v, {}) = 0 /\ Sum(w, {}) = 0
  BY FS_EmptySet, SumByChoice
<1>3. \A J \in SUBSET I : Sum(u, J) \in Int /\ Sum(v, J) \in Int
  <2>1. \A i \in I : u[i] \in Int
    OBVIOUS
  <2>2. \A i \in I : v[i] \in Int
    OBVIOUS
  <2> QED BY <2>1, <2>2, SumByChoice
<1> HIDE DEF Sum
<1>4. 0 \in N
  <2>1. ASSUME NEW J \in SUBSET I, Cardinality(J) = 0 PROVE Sum(w, J) = Sum(u, J) + Sum(v, J)
    <3>1. J = {}
      BY <1>1, <2>1
    <3> QED BY <1>2, <3>1
  <2> QED BY <2>1
<1>5. ASSUME NEW n \in Nat, n \in N PROVE n + 1 \in N
  <2> SUFFICES ASSUME NEW J \in SUBSET I, Cardinality(J) = n + 1
               PROVE  Sum(w, J) = Sum(u, J) + Sum(v, J)
    OBVIOUS
  <2>1. J # {}
    BY <1>1
  <2>2. PICK x \in J : TRUE
    BY <2>1
  <2>3. Cardinality(J \ {x}) = IF x \in J THEN Cardinality(J) - 1 ELSE Cardinality(J)
    BY <1>1, FS_RemoveElement, Zenon
  <2>4. Cardinality(J \ {x}) = n /\ J \ {x} \in SUBSET I
    BY <2>3
  <2>5. Sum(w, J \ {x}) = Sum(u, J \ {x}) + Sum(v, J \ {x})
    BY <1>5, <2>4
  <2>6. PICK p \in Int, q \in Int : p = Sum(u, J \ {x}) /\ q = Sum(v, J \ {x})
    BY <1>3, <2>4
  <2>7. u[x] \in Int /\ v[x] \in Int /\ w[x] = u[x] + v[x]
    OBVIOUS
  <2>a. /\ Sum(u, J) = u[x] + Sum(u, J \ {x})
        /\ Sum(v, J) = v[x] + Sum(v, J \ {x})
        /\ Sum(w, J) = w[x] + Sum(w, J \ {x})
    BY <1>1, <2>2, Zenon
  <2>8. Sum(u, J) = u[x] + p /\ Sum(v, J) = v[x] + q /\ Sum(w, J) = w[x] + (p + q)
    BY <2>a, <2>5, <2>6, Zenon
  <2>9. (u[x] + v[x]) + (p + q) = (u[x] + p) + (v[x] + q)
    BY <2>7
  <2> QED BY <2>7, <2>8, <2>9
<1> HIDE DEF N
<1>6. Nat \subseteq N
  BY <1>4, <1>5, SetInduction
<1>7. Cardinality(I) \in Nat
  BY <1>1
<1> QED BY <1>6, <1>7 DEF N, Sum

\* The same numbers have the same sum.
LEMMA SumAlike ==
  ASSUME NEW I, IsFiniteSet(I), NEW u, NEW w, \A i \in I : w[i] \in Int /\ u[i] = w[i]
  PROVE  SumFunctionOnSet(u, I) = SumFunctionOnSet(w, I)
<1> DEFINE z == [i \in I |-> 0]
<1>1. \A i \in I : z[i] = 0
  OBVIOUS
<1> HIDE DEF z
<1>2. SumFunctionOnSet(z, I) = Cardinality(I) * 0
  <2>1. 0 \in Nat
    OBVIOUS
  <2> QED BY <1>1, <2>1, SumConstant
<1>3. SumFunctionOnSet(u, I) = SumFunctionOnSet(w, I) + SumFunctionOnSet(z, I)
  <2>1. \A i \in I : w[i] \in Int /\ z[i] \in Int /\ u[i] = w[i] + z[i]
    BY <1>1
  <2> QED BY <2>1, SumPointwise
<1>4. SumFunctionOnSet(w, I) \in Int /\ Cardinality(I) \in Nat
  BY SumByChoice, FS_CardinalityType
<1>5. PICK x \in Int, c \in Nat : x = SumFunctionOnSet(w, I) /\ c = Cardinality(I)
  BY <1>4
<1>6. x + c * 0 = x
  OBVIOUS
<1> QED BY <1>2, <1>3, <1>5, <1>6, Zenon

\* The sum over two sets that do not meet.
LEMMA SumUnion ==
  ASSUME NEW I, NEW J, IsFiniteSet(I), IsFiniteSet(J), I \cap J = {},
         NEW w, \A i \in I \cup J : w[i] \in Int
  PROVE  SumFunctionOnSet(w, I \cup J) = SumFunctionOnSet(w, I) + SumFunctionOnSet(w, J)
<1> DEFINE Sum(K) == SumFunctionOnSet(w, K)
           N == {n \in Nat : \A K \in SUBSET I :
                   Cardinality(K) = n => Sum(K \cup J) = Sum(K) + Sum(J)}
<1>1. IsFiniteSet(I \cup J)
  BY FS_Union
<1>2. ASSUME NEW K \in SUBSET (I \cup J)
      PROVE  /\ IsFiniteSet(K) /\ Cardinality(K) \in Nat /\ (Cardinality(K) = 0 <=> K = {})
             /\ Sum(K) \in Int
             /\ \A x \in K : Sum(K) = w[x] + Sum(K \ {x})
  <2>1. IsFiniteSet(K) /\ Cardinality(K) \in Nat /\ (Cardinality(K) = 0 <=> K = {})
    BY <1>1, FS_Subset, FS_CardinalityType, FS_EmptySet
  <2>2. \A i \in K : w[i] \in Int
    OBVIOUS
  <2>3. \A x \in K : Sum(K) = w[x] + Sum(K \ {x})
    BY <2>1, <2>2, SumRemove
  <2>4. Sum(K) \in Int
    BY <2>1, <2>2, SumByChoice
  <2> QED BY <2>1, <2>3, <2>4
<1>3. Sum({}) = 0
  BY FS_EmptySet, SumByChoice
<1>a. I \in SUBSET (I \cup J) /\ J \in SUBSET (I \cup J) /\ Sum(J) \in Int
  BY <1>2
<1> HIDE DEF Sum
<1>4. 0 \in N
  <2>1. ASSUME NEW K \in SUBSET I, Cardinality(K) = 0 PROVE Sum(K \cup J) = Sum(K) + Sum(J)
    <3>1. K = {}
      BY <1>2, <2>1
    <3>2. K \cup J = J
      BY <3>1
    <3> QED BY <1>3, <1>a, <3>1, <3>2
  <2> QED BY <2>1
<1>5. ASSUME NEW n \in Nat, n \in N PROVE n + 1 \in N
  <2> SUFFICES ASSUME NEW K \in SUBSET I, Cardinality(K) = n + 1
               PROVE  Sum(K \cup J) = Sum(K) + Sum(J)
    OBVIOUS
  <2>1. K \in SUBSET (I \cup J) /\ K \cup J \in SUBSET (I \cup J)
    OBVIOUS
  <2>2. PICK x \in K : TRUE
    <3>1. K # {}
      BY <1>2, <2>1
    <3> QED BY <3>1
  <2>3. (K \cup J) \ {x} = (K \ {x}) \cup J /\ x \in K \cup J
    OBVIOUS
  <2>4. Cardinality(K \ {x}) = n /\ K \ {x} \in SUBSET I /\ K \ {x} \in SUBSET (I \cup J)
    <3>1. Cardinality(K \ {x}) = IF x \in K THEN Cardinality(K) - 1 ELSE Cardinality(K)
      BY <1>2, <2>1, FS_RemoveElement, Zenon
    <3> QED BY <3>1
  <2>5. Sum((K \ {x}) \cup J) = Sum(K \ {x}) + Sum(J)
    BY <1>5, <2>4
  <2>6. Sum(K) = w[x] + Sum(K \ {x}) /\ Sum(K \cup J) = w[x] + Sum((K \ {x}) \cup J)
    <3>1. Sum(K) = w[x] + Sum(K \ {x})
      BY <1>2, <2>1
    <3>2. Sum(K \cup J) = w[x] + Sum((K \cup J) \ {x})
      BY <1>2, <2>1, <2>3
    <3> QED BY <2>3, <3>1, <3>2, Zenon
  <2>7. PICK a \in Int, b \in Int, c \in Int : a = w[x] /\ b = Sum(K \ {x}) /\ c = Sum(J)
    BY <1>2, <1>a, <2>4
  <2>8. a + (b + c) = (a + b) + c
    OBVIOUS
  <2> QED BY <2>5, <2>6, <2>7, <2>8, Zenon
<1> HIDE DEF N
<1>6. Nat \subseteq N
  BY <1>4, <1>5, SetInduction
<1>7. Cardinality(I) \in Nat /\ I \in SUBSET I
  BY <1>2, <1>a
<1> QED BY <1>6, <1>7 DEF N, Sum

\* Sums over the first natural numbers, one after the other.
LEMMA SumUpTo ==
  ASSUME NEW n \in Nat, NEW w, \A i \in 0 .. n : w[i] \in Int
  PROVE  /\ SumFunctionOnSet(w, 0 .. -1) = 0
         /\ SumFunctionOnSet(w, 0 .. n - 1) \in Int
         /\ SumFunctionOnSet(w, 0 .. n) = w[n] + SumFunctionOnSet(w, 0 .. n - 1)
<1>1. IsFiniteSet(0 .. n - 1) /\ n \notin 0 .. n - 1 /\ 0 .. n = {n} \cup (0 .. n - 1)
  <2>1. 0 \in Int /\ n - 1 \in Int
    OBVIOUS
  <2>2. IsFiniteSet(0 .. n - 1)
    BY <2>1, FS_Interval
  <2>3. n \notin 0 .. n - 1
    OBVIOUS
  <2>4. 0 .. n = {n} \cup (0 .. n - 1)
    OBVIOUS
  <2> QED BY <2>2, <2>3, <2>4
<1>2. \A i \in 0 .. n - 1 : w[i] \in Int
  OBVIOUS
<1>3. SumFunctionOnSet(w, {n} \cup (0 .. n - 1)) = w[n] + SumFunctionOnSet(w, 0 .. n - 1)
  BY <1>1, <1>2, SumAdd
<1>4. /\ SumFunctionOnSet(w, {}) = 0
      /\ \A J \in SUBSET (0 .. n - 1) : SumFunctionOnSet(w, J) \in Int
  BY <1>1, <1>2, SumByChoice
<1>5. 0 .. n - 1 \in SUBSET (0 .. n - 1) /\ 0 .. -1 = {}
  OBVIOUS
<1> QED BY <1>1, <1>3, <1>4, <1>5

\* If t times no number exceeds s times its fellow by more than e, then the sums do so by
\* no more than e for each of their terms.
LEMMA SumAtMost ==
  ASSUME NEW n \in Nat, NEW t \in Int, NEW s \in Int, NEW e \in Int, NEW u, NEW w,
         \A i \in 0 .. n - 1 : u[i] \in Int /\ w[i] \in Int /\ t * u[i] <= s * w[i] + e
  PROVE  /\ SumFunctionOnSet(u, 0 .. n - 1) \in Int /\ SumFunctionOnSet(w, 0 .. n - 1) \in Int
         /\ t * SumFunctionOnSet(u, 0 .. n - 1)
               <= s * SumFunctionOnSet(w, 0 .. n - 1) + n * e
<1> DEFINE U(k) == SumFunctionOnSet(u, 0 .. k - 1)
           V(k) == SumFunctionOnSet(w, 0 .. k - 1)
           N == {k \in Nat : k <= n =>
                   U(k) \in Int /\ V(k) \in Int /\ t * U(k) <= s * V(k) + k * e}
<1>1. 0 \in N
  <2>1. SumFunctionOnSet(u, {}) = 0 /\ SumFunctionOnSet(w, {}) = 0
    BY FS_EmptySet, SumByChoice
  <2>2. 0 .. 0 - 1 = {}
    OBVIOUS
  <2>3. U(0) = 0 /\ V(0) = 0
    BY <2>1, <2>2
  <2>4. t * 0 <= s * 0 + 0 * e
    OBVIOUS
  <2> HIDE DEF U, V
  <2> QED BY <2>3, <2>4
<1>2. ASSUME NEW k \in Nat, k \in N PROVE k + 1 \in N
  <2> SUFFICES ASSUME k + 1 <= n
               PROVE  /\ U(k + 1) \in Int /\ V(k + 1) \in Int
                      /\ t * U(k + 1) <= s * V(k + 1) + (k + 1) * e
    OBVIOUS
  <2>1. \A i \in 0 .. k : i \in 0 .. n - 1
    OBVIOUS
  <2>2. (k + 1) - 1 = k /\ k <= n /\ k \in 0 .. n - 1
    OBVIOUS
  <2>3. U(k + 1) = u[k] + U(k)
    <3>1. \A i \in 0 .. k : u[i] \in Int
      BY <2>1
    <3> QED BY <2>2, <3>1, SumUpTo
  <2>4. V(k + 1) = w[k] + V(k)
    <3>1. \A i \in 0 .. k : w[i] \in Int
      BY <2>1
    <3> QED BY <2>2, <3>1, SumUpTo
  <2>5. u[k] \in Int /\ w[k] \in Int /\ t * u[k] <= s * w[k] + e
    BY <2>2
  <2> HIDE DEF U, V
  <2>6. U(k) \in Int /\ V(k) \in Int /\ t * U(k) <= s * V(k) + k * e
    BY <1>2, <2>2
  <2>7. PICK a \in Int, b \in Int, x \in Int, y \in Int :
          a = u[k] /\ b = w[k] /\ x = U(k) /\ y = V(k)
    BY <2>5, <2>6
  <2>8. t * a <= s * b + e /\ t * x <= s * y + k * e
    BY <2>5, <2>6, <2>7
  <2>9. t * (a + x) = t * a + t * x /\ s * (b + y) = s * b + s * y /\ (k + 1) * e = k * e + e
    OBVIOUS
  <2>10. t * a \in Int /\ t * x \in Int /\ s * b \in Int /\ s * y \in Int /\ k * e \in Int
    OBVIOUS
  <2>11. t * (a + x) <= s * (b + y) + (k + 1) * e
    BY <2>8, <2>9, <2>10
  <2> QED BY <2>3, <2>4, <2>7, <2>11
<1> HIDE DEF N
<1>3. Nat \subseteq N
  BY <1>1, <1>2, SetInduction
<1>4. n \in N /\ n <= n
  BY <1>3
<1> QED BY <1>4 DEF N, U, V

-----------------------------------------------------------------------------
(* More about sequences put one after the other *)

\* A sequence made of two holds what each of them holds.
LEMMA ConcatMembers ==
  ASSUME NEW S, NEW a \in Seq(S), NEW b \in Seq(S)
  PROVE  \A x : x \in ToSet(a \o b) <=> x \in ToSet(a) \/ x \in ToSet(b)
<1>1. PICK m \in Nat, n \in Nat :
        /\ m = Len(a) /\ n = Len(b) /\ Len(a \o b) = m + n
        /\ DOMAIN a = 1 .. m /\ DOMAIN b = 1 .. n /\ DOMAIN (a \o b) = 1 .. m + n
        /\ \A i \in 1 .. m + n : (a \o b)[i] = IF i <= m THEN a[i] ELSE b[i - m]
  <2> DEFINE c == a \o b
  <2>1. /\ c \in Seq(S) /\ Len(c) = Len(a) + Len(b)
        /\ \A i \in 1 .. Len(a) + Len(b) : c[i] = IF i <= Len(a) THEN a[i] ELSE b[i - Len(a)]
    BY ConcatProperties
  <2> HIDE DEF c
  <2>2. DOMAIN c = 1 .. Len(c) /\ Len(a) \in Nat /\ Len(b) \in Nat
        /\ DOMAIN a = 1 .. Len(a) /\ DOMAIN b = 1 .. Len(b)
    BY <2>1, LenProperties
  <2> QED BY <2>1, <2>2 DEF c
<1> DEFINE c == a \o b
<1>2. ASSUME NEW x, x \in ToSet(c) PROVE x \in ToSet(a) \/ x \in ToSet(b)
  <2>1. PICK i \in 1 .. m + n : x = c[i]
    BY <1>1, <1>2 DEF ToSet
  <2>2. CASE i <= m
    BY <1>1, <2>1, <2>2 DEF ToSet
  <2>3. CASE ~(i <= m)
    <3>1. i - m \in 1 .. n /\ x = b[i - m]
      BY <1>1, <2>1, <2>3
    <3> QED BY <1>1, <3>1 DEF ToSet
  <2> QED BY <2>2, <2>3
<1>3. ASSUME NEW x, x \in ToSet(a) PROVE x \in ToSet(c)
  <2>1. PICK i \in 1 .. m : x = a[i]
    BY <1>1, <1>3 DEF ToSet
  <2>2. i \in 1 .. m + n /\ c[i] = x
    BY <1>1, <2>1
  <2> QED BY <1>1, <2>2 DEF ToSet
<1>4. ASSUME NEW x, x \in ToSet(b) PROVE x \in ToSet(c)
  <2>1. PICK i \in 1 .. n : x = b[i]
    BY <1>1, <1>4 DEF ToSet
  <2>2. m + i \in 1 .. m + n /\ ~(m + i <= m) /\ (m + i) - m = i
    BY <1>1
  <2>3. c[m + i] = x
    BY <1>1, <2>1, <2>2
  <2> QED BY <1>1, <2>2, <2>3 DEF ToSet
<1> HIDE DEF c
<1>5. \A x : x \in ToSet(c) <=> x \in ToSet(a) \/ x \in ToSet(b)
  BY <1>2, <1>3, <1>4
<1> QED BY <1>5 DEF c

\* The n sequences of f put one after the other: s has their elements, and as many.
PutTogether(S, n, f, s) ==
  /\ s \in Seq(S)
  /\ \A x : x \in ToSet(s) <=> \E i \in 1 .. n : x \in ToSet(f[i])
  /\ Len(s) = SumFunctionOnSet([i \in 1 .. n |-> Len(f[i])], 1 .. n)

\* What FlattenSeq() gathers.
LEMMA FlattenGathers ==
  ASSUME NEW S, NEW n \in Nat, NEW f, \A i \in 1 .. n : f[i] \in Seq(S)
  PROVE  PutTogether(S, n, f, FlattenSeq([i \in 1 .. n |-> f[i]]))
<1> DEFINE F(k) == FlattenSeq(Prefix(f, k))
           w == [i \in 1 .. n |-> Len(f[i])]
           W(k) == SumFunctionOnSet(w, 1 .. k)
           Good(k) == /\ \A x : x \in ToSet(F(k)) <=> \E i \in 1 .. k : x \in ToSet(f[i])
                      /\ Len(F(k)) = W(k)
           N == {k \in Nat : k <= n => Good(k)}
<1>1. /\ F(0) = <<>>
      /\ \A k \in 0 .. n : F(k) \in Seq(S)
      /\ \A k \in 0 .. n - 1 : F(k + 1) = F(k) \o f[k + 1]
  <2>1. Grows(S, n, f)
    BY FlattenPrefix, Zenon
  <2> QED BY <2>1, Zenon DEF Grows
<1>2. \A i \in 1 .. n : w[i] = Len(f[i]) /\ w[i] \in Int
  <2>1. \A i \in 1 .. n : Len(f[i]) \in Nat
    BY LenProperties
  <2> QED BY <2>1
<1> HIDE DEF F, w
<1>3. 0 \in N
  <2>1. Len(<<>>) = 0 /\ 1 .. 0 = {} /\ ToSet(<<>>) = {}
    BY EmptySeq DEF ToSet
  <2>2. W(0) = 0
    <3>1. SumFunctionOnSet(w, {}) = 0
      BY FS_EmptySet, SumByChoice
    <3> QED BY <2>1, <3>1
  <2> QED BY <1>1, <2>1, <2>2
<1>4. ASSUME NEW k \in Nat, k \in N PROVE k + 1 \in N
  <2> SUFFICES ASSUME k + 1 <= n PROVE Good(k + 1)
    OBVIOUS
  <2>1. k \in 0 .. n - 1 /\ k \in 0 .. n /\ k + 1 \in 1 .. n /\ k <= n
    OBVIOUS
  <2>2. Good(k)
    BY <1>4, <2>1
  <2>3. PICK a, b : a = F(k) /\ b = f[k + 1]
    OBVIOUS
  <2>4. F(k + 1) = a \o b /\ a \in Seq(S) /\ b \in Seq(S)
    BY <1>1, <2>1, <2>3
  <2>5. \A x : x \in ToSet(a \o b) <=> x \in ToSet(a) \/ x \in ToSet(b)
    BY <2>4, ConcatMembers
  <2>6. Len(a \o b) = Len(a) + Len(b) /\ Len(a) \in Nat /\ Len(b) \in Nat
    BY <2>4, ConcatProperties, LenProperties
  <2>7. W(k + 1) = w[k + 1] + W(k)
    <3>1. IsFiniteSet(1 .. k) /\ k + 1 \notin 1 .. k /\ 1 .. k + 1 = {k + 1} \cup (1 .. k)
      <4>1. 1 \in Int /\ k \in Int
        OBVIOUS
      <4>2. IsFiniteSet(1 .. k)
        BY <4>1, FS_Interval
      <4>3. k + 1 \notin 1 .. k /\ 1 .. k + 1 = {k + 1} \cup (1 .. k)
        OBVIOUS
      <4> QED BY <4>2, <4>3
    <3>2. \A i \in 1 .. k : i \in 1 .. n
      BY <2>1
    <3>3. w[k + 1] \in Int /\ \A i \in 1 .. k : w[i] \in Int
      BY <1>2, <2>1, <3>2
    <3> QED BY <3>1, <3>3, SumAdd
  <2>8. Len(F(k + 1)) = W(k + 1)
    BY <1>2, <2>1, <2>2, <2>3, <2>4, <2>6, <2>7
  <2>9. ASSUME NEW x
        PROVE  x \in ToSet(F(k + 1)) <=> \E i \in 1 .. k + 1 : x \in ToSet(f[i])
    <3>1. \A i : i \in 1 .. k + 1 <=> i \in 1 .. k \/ i = k + 1
      OBVIOUS
    <3>2. x \in ToSet(F(k + 1)) <=> x \in ToSet(a) \/ x \in ToSet(b)
      BY <2>4, <2>5
    <3>3. x \in ToSet(a) <=> \E i \in 1 .. k : x \in ToSet(f[i])
      BY <2>2, <2>3
    <3> HIDE DEF Good, N
    <3> QED BY <2>3, <3>1, <3>2, <3>3, Zenon
  <2> QED BY <2>8, <2>9
<1> HIDE DEF N
<1>5. Nat \subseteq N
  BY <1>3, <1>4, SetInduction
<1>6. n \in N /\ n <= n /\ n \in 0 .. n
  BY <1>5
<1>7. Good(n) /\ F(n) \in Seq(S)
  BY <1>1, <1>6 DEF N
<1>8. F(n) = FlattenSeq([i \in 1 .. n |-> f[i]])
  BY DEF F, Prefix
<1> QED BY <1>7, <1>8 DEF PutTogether, w

\* The n sequences of f, of q elements each, lie at the multiples of q.
AtMultiples(n, q, f) ==
  /\ Len(FlattenSeq([j \in 1 .. n |-> f[j]])) = n * q
  /\ \A i \in 0 .. n - 1, k \in 1 .. q :
       FlattenSeq([j \in 1 .. n |-> f[j]])[i * q + k] = f[i + 1][k]

\* Where FlattenSeq() leaves sequences of one length.
LEMMA FlattenAt ==
  ASSUME NEW S, NEW n \in Nat, NEW q \in Nat,
         NEW f, \A i \in 1 .. n : f[i] \in Seq(S) /\ Len(f[i]) = q
  PROVE  AtMultiples(n, q, f)
<1> DEFINE F(m) == FlattenSeq(Prefix(f, m))
           Good(m) == Len(F(m)) = m * q /\ \A i \in 0 .. m - 1, k \in 1 .. q : F(m)[i * q + k] = f[i + 1][k]
           N == {m \in Nat : m <= n => Good(m)}
<1>1. /\ F(0) = <<>>
      /\ \A m \in 0 .. n : F(m) \in Seq(S)
      /\ \A m \in 0 .. n - 1 : F(m + 1) = F(m) \o f[m + 1]
  <2>1. \A i \in 1 .. n : f[i] \in Seq(S)
    OBVIOUS
  <2>2. Grows(S, n, f)
    BY <2>1, FlattenPrefix, Zenon
  <2> QED BY <2>2, Zenon DEF Grows
<1> HIDE DEF F
<1>2. 0 \in N
  <2>1. Len(<<>>) = 0 /\ 0 * q = 0
    BY EmptySeq
  <2> QED BY <1>1, <2>1
<1>3. ASSUME NEW m \in Nat, m \in N PROVE m + 1 \in N
  <2> SUFFICES ASSUME m + 1 <= n PROVE Good(m + 1)
    OBVIOUS
  <2>1. m \in 0 .. n - 1 /\ m \in 0 .. n /\ m + 1 \in 1 .. n /\ m <= n
    OBVIOUS
  <2>2. Good(m)
    BY <1>3, <2>1
  <2>3. PICK a, b : a = F(m) /\ b = f[m + 1]
    OBVIOUS
  <2>4. F(m + 1) = a \o b /\ a \in Seq(S) /\ b \in Seq(S) /\ Len(b) = q /\ Len(a) = m * q
    BY <1>1, <2>1, <2>2, <2>3
  <2>5. /\ Len(a \o b) = Len(a) + Len(b)
        /\ \A i \in 1 .. Len(a) + Len(b) :
             (a \o b)[i] = IF i <= Len(a) THEN a[i] ELSE b[i - Len(a)]
    BY <2>4, ConcatProperties
  <2>6. PICK p \in Nat : p = m * q
    OBVIOUS
  <2>7. (m + 1) * q = p + q
    BY <2>6
  <2>8. ASSUME NEW i \in 0 .. m, NEW k \in 1 .. q
        PROVE  F(m + 1)[i * q + k] = f[i + 1][k]
    <3>1. CASE i = m
      <4>1. p + k \in 1 .. p + q /\ ~(p + k <= p) /\ (p + k) - p = k
        BY <2>6
      <4>2. i * q + k = p + k
        BY <2>6, <3>1
      <4>3. (a \o b)[p + k] = b[k]
        BY <2>4, <2>5, <2>6, <4>1
      <4> QED BY <2>3, <2>4, <3>1, <4>2, <4>3
    <3>2. CASE i # m
      <4>1. PICK d \in Nat : m = (i + 1) + d
        <5>1. m - (i + 1) \in Nat /\ m = (i + 1) + (m - (i + 1))
          BY <3>2
        <5> QED BY <5>1
      <4>2. m * q = (i * q + q) + d * q
        BY <4>1
      <4>3. PICK x \in Nat, y \in Nat : x = i * q /\ y = d * q
        OBVIOUS
      <4>4. x + k \in 1 .. p + q /\ x + k <= p
        BY <2>6, <4>2, <4>3
      <4>5. a[x + k] = f[i + 1][k]
        BY <2>2, <2>3, <3>2, <4>3
      <4> QED BY <2>4, <2>5, <2>6, <4>3, <4>4, <4>5
    <3> QED BY <3>1, <3>2
  <2>9. Len(F(m + 1)) = (m + 1) * q
    BY <2>4, <2>5, <2>6, <2>7
  <2>10. (m + 1) - 1 = m
    OBVIOUS
  <2> QED BY <2>8, <2>9, <2>10
<1> HIDE DEF N
<1>4. Nat \subseteq N
  BY <1>2, <1>3, SetInduction
<1>5. n \in N /\ n <= n
  BY <1>4
<1>6. Good(n)
  BY <1>5 DEF N
<1>7. F(n) = FlattenSeq([i \in 1 .. n |-> f[i]])
  BY DEF F, Prefix
<1> QED BY <1>6, <1>7 DEF AtMultiples

-----------------------------------------------------------------------------
(* Arithmetic *)

\* A multiple that is not zero is at least as far from zero as the step.
LEMMA MultipleAtLeast ==
  \A k \in Int, s \in Nat \ {0} : (k >= 1 => k * s >= s) /\ (k <= -1 => k * s <= -s)
<1>1. ASSUME NEW k \in Int, NEW s \in Nat \ {0}, k >= 1 PROVE k * s >= s
  <2>1. (k - 1) * s >= 0
    BY <1>1
  <2>2. (k - 1) * s = k * s - s
    OBVIOUS
  <2>3. k * s \in Int
    OBVIOUS
  <2> QED BY <2>1, <2>2, <2>3
<1>2. ASSUME NEW k \in Int, NEW s \in Nat \ {0}, k <= -1 PROVE k * s <= -s
  <2>1. (-k) * s >= s
    BY <1>1, <1>2
  <2>2. (-k) * s = -(k * s)
    OBVIOUS
  <2>3. k * s \in Int
    OBVIOUS
  <2> QED BY <2>1, <2>2, <2>3
<1> QED BY <1>1, <1>2

\* Quotient and remainder are those of a division with remainder.
LEMMA DivMod ==
  \A a \in Int, s \in Nat \ {0} :
    /\ a \div s \in Int /\ a % s \in 0 .. s - 1 /\ a = (a \div s) * s + (a % s)
OBVIOUS

\* Every number is divided.
LEMMA Divided ==
  ASSUME NEW a \in Int, NEW s \in Nat \ {0}
  PROVE  \E q \in Int, r \in 0 .. s - 1 : q = a \div s /\ r = a % s /\ a = q * s + r
BY DivMod, Zenon

\* Quotient and remainder are the ones a number is made of.
LEMMA DivUnique ==
  ASSUME NEW q \in Int, NEW s \in Nat \ {0}, NEW r \in 0 .. s - 1
  PROVE  (q * s + r) \div s = q /\ (q * s + r) % s = r
<1> DEFINE a == q * s + r
<1>1. a \in Int
  OBVIOUS
<1>2. PICK k \in Int, m \in Int : k = a \div s /\ m = a % s
  BY <1>1, DivMod
<1>3. m \in 0 .. s - 1 /\ a = k * s + m
  BY <1>1, <1>2, DivMod
<1>4. (q - k) * s = m - r
  <2>1. (q - k) * s = q * s - k * s
    OBVIOUS
  <2>2. q * s \in Int /\ k * s \in Int
    OBVIOUS
  <2> QED BY <1>3, <2>1, <2>2
<1>5. ~(q - k >= 1) /\ ~(q - k <= -1)
  BY <1>3, <1>4, MultipleAtLeast
<1>6. q = k
  BY <1>5
<1>7. m = r
  BY <1>3, <1>6
<1> QED BY <1>2, <1>6, <1>7

\* A quotient is the most often the divisor goes into a number.
LEMMA DivLargest ==
  ASSUME NEW a \in Int, NEW s \in Nat \ {0}
  PROVE  /\ a \div s \in Int
         /\ \A k \in Int : k * s <= a <=> k <= a \div s
<1>1. PICK q \in Int, r \in 0 .. s - 1 : q = a \div s /\ r = a % s /\ a = q * s + r
  BY Divided, Zenon
<1>2. ASSUME NEW k \in Int PROVE k * s <= a <=> k <= q
  <2>1. k * s \in Int /\ q * s \in Int /\ (k - q) * s = k * s - q * s
    OBVIOUS
  <2>2. CASE k <= q
    <3>1. (q - k) * s >= 0 /\ (q - k) * s = q * s - k * s
      BY <2>2
    <3> QED BY <1>1, <2>1, <2>2, <3>1
  <2>3. CASE k >= q + 1
    <3>1. (k - q) * s >= s
      BY <2>3, MultipleAtLeast
    <3> QED BY <1>1, <2>1, <2>3, <3>1
  <2> QED BY <2>2, <2>3
<1> QED BY <1>1, <1>2, Zenon

\* One more digit of n to the base b, at the value B.
LEMMA NextDigit ==
  ASSUME NEW b \in Nat \ {0}, NEW B \in Nat \ {0}, NEW n \in Nat
  PROVE  /\ n % B \in Nat /\ (n \div B) % b \in 0 .. b - 1
         /\ n % (b * B) = (((n \div B) % b) * B) + (n % B)
<1>0. n \div B \in Int /\ n % B \in 0 .. B - 1 /\ n = (n \div B) * B + (n % B)
  BY DivMod
<1>1. PICK q \in Int, r \in Int : q = n \div B /\ r = n % B
  BY <1>0
<1>2. r \in 0 .. B - 1 /\ n = q * B + r
  BY <1>0, <1>1
<1>a. q \div b \in Int /\ q % b \in 0 .. b - 1
  BY DivMod
<1>3. PICK s \in Int, d \in Int : s = q \div b /\ d = q % b
  BY <1>a
<1>4. d \in 0 .. b - 1 /\ q = s * b + d
  BY <1>3, DivMod
<1>5. n = s * (b * B) + (d * B + r)
  <2>1. (s * b + d) * B = s * (b * B) + d * B
    OBVIOUS
  <2>2. s * (b * B) \in Int /\ d * B \in Int
    OBVIOUS
  <2> QED BY <1>2, <1>4, <2>1, <2>2
<1>6. d * B + r \in 0 .. b * B - 1
  <2>1. (b - 1 - d) * B >= 0 /\ d * B >= 0
    BY <1>4
  <2>2. (b - 1 - d) * B = b * B - B - d * B
    OBVIOUS
  <2>3. b * B \in Int /\ d * B \in Int
    OBVIOUS
  <2> QED BY <1>2, <2>1, <2>2, <2>3
<1>7. b * B \in Nat \ {0}
  OBVIOUS
<1>8. n % (b * B) = d * B + r
  BY <1>5, <1>6, <1>7, DivUnique
<1>9. r \in Nat
  BY <1>2
<1>10. n % B = r /\ (n \div B) % b = d
  BY <1>1, <1>3, Zenon
<1> QED BY <1>4, <1>8, <1>9, <1>10

\* The elements of I, one for each of the m digits of n to the base b, and w[e[j]]
\* is what the j-th is worth.
Digits(b, n, m, I, e, w) ==
  /\ \A j \in 0 .. m - 1 : e[j] \in I
  /\ \A i \in I : \E j \in 0 .. m - 1 : i = e[j]
  /\ \A j, k \in 0 .. m - 1 : e[j] = e[k] => j = k
  /\ \A j \in 0 .. m - 1 : w[e[j]] = ((n \div Power(b, j)) % b) * Power(b, j)

\* The last m digits of n to the base b, each at its value, add up to n modulo the
\* m-th power, whatever they are filed under.
LEMMA DigitsAddUp ==
  ASSUME NEW b \in Nat \ {0}, NEW m \in Nat, NEW n \in Nat,
         NEW I, NEW e, NEW w, Digits(b, n, m, I, e, w)
  PROVE  SumFunctionOnSet(w, I) = n % Power(b, m) /\ IsFiniteSet(I)
<1> DEFINE D(k) == {e[j] : j \in 0 .. k - 1}
           N == {k \in Nat : k <= m =>
                   IsFiniteSet(D(k)) /\ SumFunctionOnSet(w, D(k)) = n % Power(b, k)}
<1>1. ASSUME NEW j \in 0 .. m - 1
      PROVE  /\ Power(b, j) \in Nat \ {0} /\ Power(b, j + 1) = b * Power(b, j)
             /\ w[e[j]] \in Nat /\ n % Power(b, j) \in Nat
             /\ n % Power(b, j + 1) = w[e[j]] + (n % Power(b, j))
  <2>1. j \in Nat
    OBVIOUS
  <2>2. Power(b, j) \in Nat \ {0} /\ Power(b, j + 1) = b * Power(b, j)
    BY <2>1, PowerStep, PowerPositive
  <2>3. PICK B \in Nat \ {0} : B = Power(b, j)
    BY <2>2
  <2>4. w[e[j]] = ((n \div B) % b) * B
    BY <2>3, Zenon DEF Digits
  <2>5. /\ n % B \in Nat /\ (n \div B) % b \in 0 .. b - 1
        /\ n % (b * B) = (((n \div B) % b) * B) + (n % B)
    BY NextDigit
  <2>6. ((n \div B) % b) * B \in Nat
    BY <2>5
  <2> QED BY <2>2, <2>3, <2>4, <2>5, <2>6, Zenon
<1>2. 0 \in N
  <2>1. D(0) = {}
    OBVIOUS
  <2>2. SumFunctionOnSet(w, {}) = 0
    BY FS_EmptySet, SumByChoice
  <2>3. Power(b, 0) = 1
    BY PowerStep
  <2>4. n % 1 = 0
    <3>1. n * 1 + 0 = n /\ n \in Int /\ 1 \in Nat \ {0} /\ 0 \in 0 .. 1 - 1
      OBVIOUS
    <3> QED BY <3>1, DivUnique
  <2> HIDE DEF D
  <2> QED BY <2>1, <2>2, <2>3, <2>4, FS_EmptySet
<1>3. ASSUME NEW k \in Nat, k \in N PROVE k + 1 \in N
  <2> SUFFICES ASSUME k + 1 <= m
               PROVE  /\ IsFiniteSet(D(k + 1))
                      /\ SumFunctionOnSet(w, D(k + 1)) = n % Power(b, k + 1)
    OBVIOUS
  <2>1. k \in 0 .. m - 1 /\ k <= m
    OBVIOUS
  <2>2. D(k + 1) = {e[k]} \cup D(k)
    OBVIOUS
  <2>3. e[k] \notin D(k)
    <3>1. \A j \in 0 .. k - 1 : j \in 0 .. m - 1 /\ j # k
      BY <2>1
    <3> QED BY <2>1, <3>1 DEF Digits
  <2>4. IsFiniteSet(D(k)) /\ SumFunctionOnSet(w, D(k)) = n % Power(b, k)
    BY <1>3, <2>1
  <2>5. w[e[k]] \in Int /\ \A i \in D(k) : w[i] \in Int
    <3>1. \A j \in 0 .. m - 1 : w[e[j]] \in Int
      BY <1>1
    <3>2. \A j \in 0 .. k - 1 : j \in 0 .. m - 1
      BY <2>1
    <3> QED BY <2>1, <3>1, <3>2
  <2> HIDE DEF D
  <2>6. SumFunctionOnSet(w, {e[k]} \cup D(k)) = w[e[k]] + SumFunctionOnSet(w, D(k))
        /\ IsFiniteSet({e[k]} \cup D(k))
    BY <2>3, <2>4, <2>5, SumAdd
  <2>7. n % Power(b, k + 1) = w[e[k]] + (n % Power(b, k))
    BY <1>1, <2>1
  <2> QED BY <2>2, <2>4, <2>6, <2>7, Zenon
<1> HIDE DEF N
<1>4. Nat \subseteq N
  BY <1>2, <1>3, SetInduction
<1>5. m \in N /\ m <= m
  BY <1>4
<1>6. SumFunctionOnSet(w, D(m)) = n % Power(b, m) /\ IsFiniteSet(D(m))
  <2> HIDE DEF D
  <2> QED BY <1>5 DEF N
<1>7. I = D(m)
  BY DEF Digits
<1> QED BY <1>6, <1>7, Zenon

\* n intervals, each beginning where the one before it ends, make one.
MakeOne(n, p) ==
  \A x : (\E i \in 1 .. n : x \in p[i] + 1 .. p[i + 1]) <=> x \in p[1] + 1 .. p[n + 1]

\* Intervals that follow one another have no gap between them.
LEMMA Contiguous ==
  ASSUME NEW n \in Nat, NEW p, \A i \in 1 .. n + 1 : p[i] \in Nat,
         \A i \in 1 .. n : p[i] <= p[i + 1]
  PROVE  MakeOne(n, p) /\ p[1] <= p[n + 1]
<1> DEFINE Good(m) == /\ p[1] <= p[m + 1]
                      /\ \A x : (\E i \in 1 .. m : x \in p[i] + 1 .. p[i + 1]) <=> x \in p[1] + 1 .. p[m + 1]
           M == {m \in Nat : m <= n => Good(m)}
<1>1. 0 \in M
  <2>1. 1 .. 0 = {} /\ 0 + 1 = 1 /\ 1 \in 1 .. n + 1
    OBVIOUS
  <2>2. p[1] \in Nat
    BY <2>1
  <2>3. p[1] + 1 .. p[1] = {} /\ p[1] <= p[1]
    BY <2>2
  <2> QED BY <2>1, <2>3
<1>2. ASSUME NEW m \in Nat, m \in M PROVE m + 1 \in M
  <2> SUFFICES ASSUME m + 1 <= n PROVE Good(m + 1)
    OBVIOUS
  <2>1. /\ m <= n /\ m + 1 \in 1 .. n /\ 1 \in 1 .. n + 1 /\ m + 1 \in 1 .. n + 1
        /\ (m + 1) + 1 \in 1 .. n + 1
    OBVIOUS
  <2>2. PICK a \in Nat, b \in Nat, c \in Nat : a = p[1] /\ b = p[m + 1] /\ c = p[(m + 1) + 1] /\ b <= c
    BY <2>1
  <2>3. a <= b /\ \A x : (\E i \in 1 .. m : x \in p[i] + 1 .. p[i + 1]) <=> x \in a + 1 .. b
    BY <1>2, <2>1, <2>2
  <2>4. \A i : i \in 1 .. m + 1 <=> i \in 1 .. m \/ i = m + 1
    OBVIOUS
  <2>5. \A x : (\E i \in 1 .. m + 1 : x \in p[i] + 1 .. p[i + 1]) <=> x \in a + 1 .. b \/ x \in b + 1 .. c
    <3> HIDE DEF Good, M
    <3> QED BY <2>2, <2>3, <2>4, Zenon
  <2>6. \A x : x \in a + 1 .. c <=> x \in a + 1 .. b \/ x \in b + 1 .. c
    BY <2>2, <2>3
  <2>7. a <= c
    BY <2>2, <2>3
  <2> QED BY <2>2, <2>5, <2>6, <2>7
<1> HIDE DEF M
<1>3. Nat \subseteq M
  BY <1>1, <1>2, SetInduction
<1>4. n \in M /\ n <= n
  BY <1>3
<1>5. Good(n)
  BY <1>4 DEF M
<1> QED BY <1>5 DEF MakeOne
=============================================================================
